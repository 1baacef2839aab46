----------------------------- MODULE MCBlobStore -----------------------------
(* The blobs that TLC puts: two texts with secrets, which redaction makes alike, *)
(* what it makes of them, a binary file and a cached render.               *)
EXTENDS BlobStore

Secrets == {"key", "key and mail"}
WithoutSecrets == [c \in Contents |-> IF c \in Secrets THEN "clean" ELSE c]
SecretRules == [c \in Contents |-> CASE c = "key" -> {"key"} [] c = "key and mail" -> {"key", "mail"}
                                    [] OTHER -> {}]
Render == [k \in RenderKeys |-> "html"]
=============================================================================
