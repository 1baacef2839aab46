------------------------------- MODULE MCForks -------------------------------
(* Origins to fork: a run that waits for a result and may make its first call
   again, and one whose recorder left a sequence out (the proxy, when a
   response could not be captured). *)
EXTENDS Diff

CallOf(input) == [kind |-> "tool_call", tool |-> "Bash", input |-> input]
Says == [kind |-> "message", tool |-> "text", input |-> "none"]
Asked == [system |-> "system", history |-> <<Message("user", "go")>>]
Told(result) == [Asked EXCEPT !.history =
  @ \o <<Message("assistant", "Bash"), Message("tool", result)>>]

OriginRow(seq, input, result, saw) ==
  [id |-> <<"step", seq>>, run |-> "origin", seq |-> seq,
   body |-> [action |-> CallOf(input), result |-> result, saw |-> saw, parent |-> NoParent,
             outcome |-> IF result = NoResult THEN "pending" ELSE "ok",
             status |-> "ok", usage |-> 1, tags |-> {}]]

StillWaits == {OriginRow(0, "x", "r1", Asked), OriginRow(1, "y", NoResult, Told("r1"))}
Gapped == {OriginRow(0, "x", "r1", Asked), OriginRow(2, "y", "r2", Told("r1"))}

Origins == {StillWaits}
GappedOrigins == {Gapped}
CallsAndSays == {<<CallOf("x")>>, <<Says, CallOf("y"), CallOf("x")>>, <<Says>>}
=============================================================================
