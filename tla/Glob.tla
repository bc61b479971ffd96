-------------------------------- MODULE Glob --------------------------------
(***************************************************************************)
(* The pattern matchers.  PSUBSCRIBE, HSCAN, SSCAN and ZSCAN run the same  *)
(* loop (globMatch, matchGlob); the cache policy has one of its own; KEYS  *)
(* and SCAN translate the pattern for SQL LIKE.  A string is a sequence of *)
(* characters.                                                             *)
(***************************************************************************)
EXTENDS Integers, Sequences, SequencesExt

\* What a pattern means: * stands for any characters, ? for any one, and every
\* other character for itself.
RECURSIVE Matches(_, _)
Matches(p, s) ==
    IF p = <<>> THEN s = <<>>
    ELSE IF Head(p) = "*" THEN \E i \in 0..Len(s) : Matches(Tail(p), SubSeq(s, i + 1, Len(s)))
    ELSE s # <<>> /\ Head(p) \in {"?", Head(s)} /\ Matches(Tail(p), Tail(s))

-----------------------------------------------------------------------------

\* Mutant of globStep: a retry does not advance the mark it retries from.
globStepNoBacktrack(p, s, st) ==
    CASE st.px < Len(p) /\ p[st.px + 1] \in {"?", s[st.sx + 1]} ->
           [st EXCEPT !.px = @ + 1, !.sx = @ + 1]
      [] st.px < Len(p) /\ p[st.px + 1] = "*" ->
           [st EXCEPT !.star = st.px, !.mark = st.sx, !.px = @ + 1]
      [] OTHER -> [st EXCEPT !.failed = TRUE]

\* One turn of the loop: a match, a star to return to, or a return to it.
globStep(p, s, st) ==
    CASE st.px < Len(p) /\ p[st.px + 1] \in {"?", s[st.sx + 1]} ->
           [st EXCEPT !.px = @ + 1, !.sx = @ + 1]
      [] st.px < Len(p) /\ p[st.px + 1] = "*" /\ p[st.px + 1] # s[st.sx + 1] ->
           [st EXCEPT !.star = st.px, !.mark = st.sx, !.px = @ + 1]
      [] OTHER ->
           IF st.star = -1 THEN [st EXCEPT !.failed = TRUE]
           ELSE [st EXCEPT !.px = st.star + 1, !.mark = @ + 1, !.sx = st.mark + 1]

RECURSIVE globLoop(_, _, _)
globLoop(p, s, st) == IF st.failed \/ st.sx >= Len(s) THEN st ELSE globLoop(p, s, globStep(p, s, st))

globMatch(p, s) ==
    LET end == globLoop(p, s, [px |-> 0, sx |-> 0, star |-> -1, mark |-> 0, failed |-> FALSE])
    IN  ~end.failed /\ \A i \in (end.px + 1)..Len(p) : p[i] = "*"

-----------------------------------------------------------------------------

\* The matcher of the cache's include and exclude patterns: only the first
\* star of a pattern that neither begins nor ends with one is a wildcard.
matchGlob(p, s) ==
    \/ p = s
    \/ p # <<>> /\
       LET star == SelectInSeq(p, LAMBDA c : c = "*")
           from == SubSeq(p, 1, star - 1)
           to   == SubSeq(p, star + 1, Len(p))
       IN  IF Last(p) = "*" THEN IsPrefix(Front(p), s)
           ELSE IF Head(p) = "*" THEN IsSuffix(Tail(p), s)
           ELSE star # 0 /\ IsPrefix(from, s) /\ IsSuffix(to, s)

\* The LIKE pattern KEYS and SCAN send; % and _ of the pattern stay.
likePattern(p) ==
    [i \in DOMAIN p |-> CASE p[i] = "*" -> "%" [] p[i] = "?" -> "_" [] OTHER -> p[i]]

\* SQL LIKE: % and _ are wildcards and a backslash makes the next character
\* an ordinary one.  (A pattern that ends in a backslash is an error.)
RECURSIVE like(_, _)
like(p, s) ==
    IF p = <<>> THEN s = <<>>
    ELSE IF Head(p) = "%" THEN \E i \in 0..Len(s) : like(Tail(p), SubSeq(s, i + 1, Len(s)))
    ELSE IF Head(p) = "\\" THEN Len(p) > 1 /\ s # <<>> /\ p[2] = Head(s) /\ like(Tail(Tail(p)), Tail(s))
    ELSE s # <<>> /\ Head(p) \in {"_", Head(s)} /\ like(Tail(p), Tail(s))

keysMatch(p, s) == like(likePattern(p), s)

=============================================================================
