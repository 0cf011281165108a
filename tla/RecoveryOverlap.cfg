\* Two requests that overlap and may stop at any await.
CONSTANTS
    UserIds = {u1, u2}
    Tokens = {t1, t2, t3}
    Workers = {w1, w2}
    None = None
SPECIFICATION Spec
SYMMETRY Symmetry
INVARIANTS AnsweredOnce SupersededIsDead 
\* UserIds and Tokens bound what is ever drawn; when both are used up it stops.
CHECK_DEADLOCK FALSE
