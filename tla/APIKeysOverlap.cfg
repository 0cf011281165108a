\* Two requests that overlap and may fail.
CONSTANTS
    Ids = {k1, k2}
    Secrets = {s1, s2, s3, s4}
    Workers = {w1, w2}
    None = None
SPECIFICATION Spec
SYMMETRY Symmetry
PROPERTIES SecretsOnlyAge EndedKeysSettle
\* Secrets and Ids bound what is ever drawn; when both are used up it stops.
CHECK_DEADLOCK FALSE
