----------------------------- MODULE QueryProofs ----------------------------
(***************************************************************************)
(* What the renderer knows of the terminal and what of the reports comes   *)
(* to the key tree, for any strings of xterm's shape, any screens and any  *)
(* number of keys, resizes, signals and failing writes.  Each theorem says *)
(* which of them may come between a query and its answer.                  *)
(*                                                                         *)
(* The strings have a fixed length, so that the formatter and the parser,  *)
(* folds over them, are followed step by step for all numbers and letters. *)
(***************************************************************************)
EXTENDS Query, TextLemmas, FiniteSetTheorems

-----------------------------------------------------------------------------
(* The strings of query_cursor and of the motions *)

(* A text that continues another one by one byte. *)
LEMMA Appended ==
  ASSUME NEW S, NEW s \in Seq(S), NEW c \in S, NEW t \in Seq(S), Len(t) = Len(s) + 1,
         \A i \in 1..Len(s) : t[i] = s[i], t[Len(s) + 1] = c
  PROVE  Append(s, c) = t
<1>1. Len(s) \in Nat
  BY LenProperties
<1>2. /\ Append(s, c) \in Seq(S) /\ Len(Append(s, c)) = Len(s) + 1
      /\ Append(s, c)[Len(s) + 1] = c
      /\ \A i \in 1..Len(s) : Append(s, c)[i] = s[i]
  BY AppendProperties
<1>3. \A i \in 1..(Len(s) + 1) : Append(s, c)[i] = t[i]
  <2> TAKE i \in 1..(Len(s) + 1)
  <2>1. CASE i \in 1..Len(s)
    BY <1>2, <2>1
  <2>2. CASE i = Len(s) + 1
    BY <1>2, <2>2
  <2> QED BY <1>1, <2>1, <2>2
<1> QED BY <1>2, <1>3, SeqEqual

(* Short texts, spelled out. *)
LEMMA Pair ==
  ASSUME NEW a, NEW b
  PROVE  Append(<<a>>, b) = <<a, b>>
<1> DEFINE S == {a, b}
           s == <<a>>
           t == <<a, b>>
<1>1. a \in S /\ b \in S
  OBVIOUS
<1> HIDE DEF S
<1>2. s \in Seq(S) /\ t \in Seq(S)
  BY <1>1
<1>3. Len(s) = 1 /\ Len(t) = 2 /\ t[2] = b
  OBVIOUS
<1>4. \A i \in 1..1 : t[i] = s[i]
  OBVIOUS
<1>5. Len(t) = Len(s) + 1
  BY <1>3
<1>6. t[Len(s) + 1] = b
  BY <1>3
<1>7. \A i \in 1..Len(s) : t[i] = s[i]
  BY <1>3, <1>4
<1> HIDE DEF s, t
<1>8. Append(s, b) = t
  BY <1>1, <1>2, <1>5, <1>6, <1>7, Appended
<1> QED BY <1>8 DEF s, t

LEMMA Triple ==
  ASSUME NEW a, NEW b, NEW c
  PROVE  Append(<<a, b>>, c) = <<a, b, c>>
<1> DEFINE S == {a, b, c}
           s == <<a, b>>
           t == <<a, b, c>>
<1>1. a \in S /\ b \in S /\ c \in S
  OBVIOUS
<1> HIDE DEF S
<1>2. s \in Seq(S) /\ t \in Seq(S)
  BY <1>1
<1>3. Len(s) = 2 /\ Len(t) = 3 /\ t[3] = c
  OBVIOUS
<1>4. \A i \in 1..2 : t[i] = s[i]
  OBVIOUS
<1>5. Len(t) = Len(s) + 1
  BY <1>3
<1>6. t[Len(s) + 1] = c
  BY <1>3
<1>7. \A i \in 1..Len(s) : t[i] = s[i]
  BY <1>3, <1>4
<1> HIDE DEF s, t
<1>8. Append(s, c) = t
  BY <1>1, <1>2, <1>5, <1>6, <1>7, Appended
<1> QED BY <1>8 DEF s, t

LEMMA Quadruple ==
  ASSUME NEW a, NEW b, NEW c, NEW d
  PROVE  Append(<<a, b, c>>, d) = <<a, b, c, d>>
<1> DEFINE S == {a, b, c, d}
           s == <<a, b, c>>
           t == <<a, b, c, d>>
<1>1. a \in S /\ b \in S /\ c \in S /\ d \in S
  OBVIOUS
<1> HIDE DEF S
<1>2. s \in Seq(S) /\ t \in Seq(S)
  BY <1>1
<1>3. Len(s) = 3 /\ Len(t) = 4 /\ t[4] = d
  OBVIOUS
<1>4. \A i \in 1..3 : t[i] = s[i]
  OBVIOUS
<1>5. Len(t) = Len(s) + 1
  BY <1>3
<1>6. t[Len(s) + 1] = d
  BY <1>3
<1>7. \A i \in 1..Len(s) : t[i] = s[i]
  BY <1>3, <1>4
<1> HIDE DEF s, t
<1>8. Append(s, d) = t
  BY <1>1, <1>2, <1>5, <1>6, <1>7, Appended
<1> QED BY <1>8 DEF s, t

LEMMA Quintuple ==
  ASSUME NEW a, NEW b, NEW c, NEW d, NEW e
  PROVE  Append(<<a, b, c, d>>, e) = <<a, b, c, d, e>>
<1> DEFINE S == {a, b, c, d, e}
           s == <<a, b, c, d>>
           t == <<a, b, c, d, e>>
<1>1. a \in S /\ b \in S /\ c \in S /\ d \in S /\ e \in S
  OBVIOUS
<1> HIDE DEF S
<1>2. s \in Seq(S) /\ t \in Seq(S)
  BY <1>1
<1>3. Len(s) = 4 /\ Len(t) = 5 /\ t[5] = e
  OBVIOUS
<1>4. \A i \in 1..4 : t[i] = s[i]
  OBVIOUS
<1>5. Len(t) = Len(s) + 1
  BY <1>3
<1>6. t[Len(s) + 1] = e
  BY <1>3
<1>7. \A i \in 1..Len(s) : t[i] = s[i]
  BY <1>3, <1>4
<1> HIDE DEF s, t
<1>8. Append(s, e) = t
  BY <1>1, <1>2, <1>5, <1>6, <1>7, Appended
<1> QED BY <1>8 DEF s, t

-----------------------------------------------------------------------------
(* nrl_terminfo_string_format *)

FormatStep(fmt, x, y, f, i) ==
  IF i = 0 THEN [out |-> <<>>, stack |-> <<>>, plist |-> <<x, y>>, ok |-> TRUE]
  ELSE LET s == f[i - 1]
       IN  IF s.ok THEN Formatted(s, fmt[i]) ELSE s

(* A state of the formatter that is still good, and what each directive makes *)
(* of it.                                                                     *)
Good(out, stack, x, y) == [out |-> out, stack |-> stack, plist |-> <<x, y>>, ok |-> TRUE]

(* One directive of the format at a time: %i counts from 1, %p1 and %p2 push, *)
(* %d pops, and any other byte is taken as it is.                             *)
LEMMA Incremented ==
  ASSUME NEW out, NEW stack, NEW x, NEW y
  PROVE  Formatted(Good(out, stack, x, y), "%i") = Good(out, stack, x + 1, y + 1)
BY DEF Formatted, Directives, Good

LEMMA Pushed ==
  ASSUME NEW out, NEW stack, NEW x, NEW y
  PROVE  /\ Formatted(Good(out, stack, x, y), "%p1") = Good(out, Append(stack, x), x, y)
         /\ Formatted(Good(out, stack, x, y), "%p2") = Good(out, Append(stack, y), x, y)
<1> DEFINE s == Good(out, stack, x, y)
<1>1. s.plist[1] = x /\ s.plist[2] = y
  BY DEF Good
<1>2. Formatted(s, "%p1") = [s EXCEPT !.stack = Append(@, s.plist[1])]
  BY DEF Formatted, Directives
<1>3. Formatted(s, "%p2") = [s EXCEPT !.stack = Append(@, s.plist[2])]
  BY DEF Formatted, Directives
<1> QED BY <1>1, <1>2, <1>3 DEF Good

LEMMA Popped ==
  ASSUME NEW out, NEW stack, NEW x, NEW y, NEW v, stack = <<v>>
  PROVE  Formatted(Good(out, stack, x, y), "%d") = Good(Append(out, v), <<>>, x, y)
<1> DEFINE s == Good(out, stack, x, y)
<1>1. s.stack = stack /\ stack # <<>> /\ Last(stack) = v /\ Front(stack) = <<>>
  BY DEF Good, Last, Front
<1>2. Formatted(s, "%d") = [s EXCEPT !.out = Append(@, Last(s.stack)), !.stack = Front(@)]
  BY <1>1 DEF Formatted, Directives
<1> QED BY <1>1, <1>2 DEF Good

LEMMA Literal ==
  ASSUME NEW out, NEW stack, NEW x, NEW y, NEW v, v \notin Directives
  PROVE  Formatted(Good(out, stack, x, y), v) = Good(Append(out, v), stack, x, y)
BY DEF Formatted, Directives, Good

(* A motion is the two numbers, from 1, between the letters. *)
LEMMA FormatsXterm ==
  ASSUME NEW A, NEW B, NEW C, A \notin Directives, B \notin Directives, C \notin Directives,
         NEW x, NEW y
  PROVE  FormatString(<<A, "%i", "%p1", "%d", B, "%p2", "%d", C>>, x, y).out
           = <<A, x + 1, B, y + 1, C>>
<1> DEFINE fmt == <<A, "%i", "%p1", "%d", B, "%p2", "%d", C>>
           i == x + 1
           j == y + 1
           t0 == <<>>
           t1 == <<A>>
           t2 == <<A, i>>
           t3 == <<A, i, B>>
           t4 == <<A, i, B, j>>
           t5 == <<A, i, B, j, C>>
           p == <<i>>
           q == <<j>>
           s0 == Good(t0, t0, x, y)
           s1 == Good(t1, t0, x, y)
           s2 == Good(t1, t0, i, j)
           s3 == Good(t1, p, i, j)
           s4 == Good(t2, t0, i, j)
           s5 == Good(t3, t0, i, j)
           s6 == Good(t3, q, i, j)
           s7 == Good(t4, t0, i, j)
           s8 == Good(t5, t0, i, j)
           run == <<s1, s2, s3, s4, s5, s6, s7, s8>>
           f == [k \in 0..8 |-> IF k = 0 THEN s0 ELSE run[k]]
           iter == CHOOSE g : g = [k \in 0..8 |-> FormatStep(fmt, x, y, g, k)]
<1>b. /\ t1 = Append(t0, A) /\ t2 = Append(t1, i) /\ t3 = Append(t2, B) /\ t4 = Append(t3, j)
      /\ t5 = Append(t4, C)
  <2> HIDE DEF i, j
  <2>1. t1 = Append(t0, A)
    OBVIOUS
  <2>2. t2 = Append(t1, i)
    BY Pair
  <2>3. t3 = Append(t2, B)
    BY Triple
  <2>4. t4 = Append(t3, j)
    BY Quadruple
  <2>5. t5 = Append(t4, C)
    BY Quintuple
  <2> QED BY <2>1, <2>2, <2>3, <2>4, <2>5
<1>c. p = Append(t0, i) /\ q = Append(t0, j)
  OBVIOUS
<1>d. p = <<i>> /\ q = <<j>> /\ t0 = <<>>
  OBVIOUS
<1>e. s0 = [out |-> <<>>, stack |-> <<>>, plist |-> <<x, y>>, ok |-> TRUE]
  BY DEF Good
<1>2. Formatted(s1, "%i") = s2
  BY Incremented
<1> HIDE DEF t0, t1, t2, t3, t4, t5, p, q, i, j
<1>1. Formatted(s0, A) = s1
  BY <1>b, Literal
<1>3. Formatted(s2, "%p1") = s3
  BY <1>c, Pushed
<1>4. Formatted(s3, "%d") = s4
  BY <1>b, <1>d, Popped
<1>5. Formatted(s4, B) = s5
  BY <1>b, Literal
<1>6. Formatted(s5, "%p2") = s6
  BY <1>c, Pushed
<1>7. Formatted(s6, "%d") = s7
  BY <1>b, <1>d, Popped
<1>8. Formatted(s7, C) = s8
  BY <1>b, Literal
<1>9. Len(fmt) = 8
  OBVIOUS
<1>10. s0.ok /\ s1.ok /\ s2.ok /\ s3.ok /\ s4.ok /\ s5.ok /\ s6.ok /\ s7.ok /\ s8.out = t5
  BY DEF Good
<1>11. /\ fmt[1] = A /\ fmt[2] = "%i" /\ fmt[3] = "%p1" /\ fmt[4] = "%d"
       /\ fmt[5] = B /\ fmt[6] = "%p2" /\ fmt[7] = "%d" /\ fmt[8] = C
  OBVIOUS
<1>12. FormatString(fmt, x, y) = iter[Len(fmt)]
  BY <1>9 DEF FormatString, FormatStep
<1> HIDE DEF s0, s1, s2, s3, s4, s5, s6, s7, s8, fmt
<1>14. \A g : g = [k \in 0..8 |-> FormatStep(fmt, x, y, g, k)] => g[8] = s8
  <2> TAKE g
  <2> HAVE g = [k \in 0..8 |-> FormatStep(fmt, x, y, g, k)]
  <2>0. \A k \in 0..8 : g[k] = FormatStep(fmt, x, y, g, k)
    OBVIOUS
  <2>1. g[0] = s0
    BY <2>0, <1>e DEF FormatStep
  <2>2. g[1] = s1
    <3>1. g[1] = FormatStep(fmt, x, y, g, 1)
      BY <2>0
    <3>2. g[1] = Formatted(g[0], fmt[1])
      BY <3>1, <2>1, <1>10 DEF FormatStep
    <3> QED BY <3>2, <2>1, <1>1, <1>11
  <2>3. g[2] = s2
    <3>1. g[2] = FormatStep(fmt, x, y, g, 2)
      BY <2>0
    <3>2. g[2] = Formatted(g[1], fmt[2])
      BY <3>1, <2>2, <1>10 DEF FormatStep
    <3> QED BY <3>2, <2>2, <1>2, <1>11
  <2>4. g[3] = s3
    <3>1. g[3] = FormatStep(fmt, x, y, g, 3)
      BY <2>0
    <3>2. g[3] = Formatted(g[2], fmt[3])
      BY <3>1, <2>3, <1>10 DEF FormatStep
    <3> QED BY <3>2, <2>3, <1>3, <1>11
  <2>5. g[4] = s4
    <3>1. g[4] = FormatStep(fmt, x, y, g, 4)
      BY <2>0
    <3>2. g[4] = Formatted(g[3], fmt[4])
      BY <3>1, <2>4, <1>10 DEF FormatStep
    <3> QED BY <3>2, <2>4, <1>4, <1>11
  <2>6. g[5] = s5
    <3>1. g[5] = FormatStep(fmt, x, y, g, 5)
      BY <2>0
    <3>2. g[5] = Formatted(g[4], fmt[5])
      BY <3>1, <2>5, <1>10 DEF FormatStep
    <3> QED BY <3>2, <2>5, <1>5, <1>11
  <2>7. g[6] = s6
    <3>1. g[6] = FormatStep(fmt, x, y, g, 6)
      BY <2>0
    <3>2. g[6] = Formatted(g[5], fmt[6])
      BY <3>1, <2>6, <1>10 DEF FormatStep
    <3> QED BY <3>2, <2>6, <1>6, <1>11
  <2>8. g[7] = s7
    <3>1. g[7] = FormatStep(fmt, x, y, g, 7)
      BY <2>0
    <3>2. g[7] = Formatted(g[6], fmt[7])
      BY <3>1, <2>7, <1>10 DEF FormatStep
    <3> QED BY <3>2, <2>7, <1>7, <1>11
  <2>9. g[8] = s8
    <3>1. g[8] = FormatStep(fmt, x, y, g, 8)
      BY <2>0
    <3>2. g[8] = Formatted(g[7], fmt[8])
      BY <3>1, <2>8, <1>10 DEF FormatStep
    <3> QED BY <3>2, <2>8, <1>8, <1>11
  <2> QED BY <2>9
<1>15. \E g : g = [k \in 0..8 |-> FormatStep(fmt, x, y, g, k)]
  <2>1. \A k \in 0..8 : f[k] = FormatStep(fmt, x, y, f, k)
    <3>1. f[0] = s0 /\ f[1] = s1 /\ f[2] = s2 /\ f[3] = s3 /\ f[4] = s4 /\ f[5] = s5 /\ f[6] = s6
          /\ f[7] = s7 /\ f[8] = s8
      OBVIOUS
    <3> HIDE DEF f
    <3>2. f[0] = FormatStep(fmt, x, y, f, 0)
      BY <3>1, <1>e DEF FormatStep
    <3>3. f[1] = FormatStep(fmt, x, y, f, 1)
      BY <3>1, <1>1, <1>10, <1>11 DEF FormatStep
    <3>4. f[2] = FormatStep(fmt, x, y, f, 2)
      BY <3>1, <1>2, <1>10, <1>11 DEF FormatStep
    <3>5. f[3] = FormatStep(fmt, x, y, f, 3)
      BY <3>1, <1>3, <1>10, <1>11 DEF FormatStep
    <3>6. f[4] = FormatStep(fmt, x, y, f, 4)
      BY <3>1, <1>4, <1>10, <1>11 DEF FormatStep
    <3>7. f[5] = FormatStep(fmt, x, y, f, 5)
      BY <3>1, <1>5, <1>10, <1>11 DEF FormatStep
    <3>8. f[6] = FormatStep(fmt, x, y, f, 6)
      BY <3>1, <1>6, <1>10, <1>11 DEF FormatStep
    <3>9. f[7] = FormatStep(fmt, x, y, f, 7)
      BY <3>1, <1>7, <1>10, <1>11 DEF FormatStep
    <3>10. f[8] = FormatStep(fmt, x, y, f, 8)
      BY <3>1, <1>8, <1>10, <1>11 DEF FormatStep
    <3> QED BY <3>2, <3>3, <3>4, <3>5, <3>6, <3>7, <3>8, <3>9, <3>10
  <2>2. f = [k \in 0..8 |-> FormatStep(fmt, x, y, f, k)]
    BY <2>1
  <2> HIDE DEF f
  <2> QED BY <2>2
<1>16. iter = [k \in 0..8 |-> FormatStep(fmt, x, y, iter, k)]
  BY <1>15
<1> HIDE DEF iter
<1>17. iter[8] = s8
  BY <1>14, <1>16
<1> QED BY <1>9, <1>10, <1>12, <1>17 DEF fmt, t5, i, j
-----------------------------------------------------------------------------
(* nrl_terminfo_string_parse2 *)

ParseStep(fmt, text, f, k) ==
  IF k = 0 THEN [data |-> text, found |-> <<>>, i_flag |-> FALSE, ok |-> TRUE]
  ELSE LET s == f[k - 1]
       IN  IF s.ok THEN Matched(s, fmt[k]) ELSE s

(* A state of the parser that has not failed. *)
Reading(data, found, i_flag) == [data |-> data, found |-> found, i_flag |-> i_flag, ok |-> TRUE]

(* One directive of user6 at a time. *)
LEMMA MatchesFlag ==
  ASSUME NEW data, NEW found, NEW flag, data # <<>>
  PROVE  Matched(Reading(data, found, flag), "%i") = Reading(data, found, TRUE)
BY DEF Matched, Reading

LEMMA MatchesLiteral ==
  ASSUME NEW data, NEW found, NEW flag, NEW c, data # <<>>, c \notin Directives, c = Head(data)
  PROVE  Matched(Reading(data, found, flag), c) = Reading(Tail(data), found, flag)
<1> DEFINE s == Reading(data, found, flag)
<1>1. s.data = data
  BY DEF Reading
<1>2. c \notin {"%i", "%d"} /\ c # "%i" /\ c # "%d"
  BY DEF Directives
<1>3. Matched(s, c) = [s EXCEPT !.ok = (c = Head(s.data)), !.data = Tail(@)]
  BY <1>1, <1>2 DEF Matched
<1>4. [s EXCEPT !.ok = (c = Head(s.data)), !.data = Tail(@)] = [s EXCEPT !.ok = TRUE, !.data = Tail(@)]
  BY <1>1
<1> QED BY <1>3, <1>4 DEF Reading

LEMMA MatchesNumber ==
  ASSUME NEW data, NEW found, NEW flag, NEW n \in Int, data # <<>>, n = Head(data), n # 0,
         Len(found) # 2
  PROVE  Matched(Reading(data, found, flag), "%d") = Reading(Tail(data), Append(found, n), flag)
<1> DEFINE s == Reading(data, found, flag)
<1>1. s.data = data /\ s.found = found
  BY DEF Reading
<1>2. Matched(s, "%d") = Scanned(s)
  BY <1>1 DEF Matched
<1>3. Scanned(s) = [s EXCEPT !.found = Append(@, n), !.ok = TRUE, !.data = Tail(@)]
  BY <1>1 DEF Scanned
<1> QED BY <1>1, <1>2, <1>3 DEF Reading

(* What the formatter makes of user6's numbers is found again. *)
LEMMA ParsesXterm ==
  ASSUME NEW A, NEW B, NEW C, A \notin Directives, B \notin Directives, C \notin Directives,
         NEW x \in Nat, NEW y \in Nat
  PROVE  Parse2(<<A, "%i", "%d", B, "%d", C>>, <<A, x + 1, B, y + 1, C>>) = <<x, y>>
<1> DEFINE fmt == <<A, "%i", "%d", B, "%d", C>>
           i == x + 1
           j == y + 1
           d0 == <<>>
           d1 == <<C>>
           d2 == <<j, C>>
           d3 == <<B, j, C>>
           d4 == <<i, B, j, C>>
           d5 == <<A, i, B, j, C>>
           f0 == <<>>
           f1 == <<i>>
           f2 == <<i, j>>
           s0 == Reading(d5, f0, FALSE)
           s1 == Reading(d4, f0, FALSE)
           s2 == Reading(d4, f0, TRUE)
           s3 == Reading(d3, f1, TRUE)
           s4 == Reading(d2, f1, TRUE)
           s5 == Reading(d1, f2, TRUE)
           s6 == Reading(d0, f2, TRUE)
           run == <<s1, s2, s3, s4, s5, s6>>
           f == [k \in 0..6 |-> IF k = 0 THEN s0 ELSE run[k]]
           iter == CHOOSE g : g = [k \in 0..6 |-> ParseStep(fmt, d5, g, k)]
<1>a. /\ d4 = Tail(d5) /\ d3 = Tail(d4) /\ d2 = Tail(d3) /\ d1 = Tail(d2) /\ d0 = Tail(d1)
      /\ d1 # <<>> /\ d2 # <<>> /\ d3 # <<>> /\ d4 # <<>> /\ d5 # <<>>
  OBVIOUS
<1>b. A = Head(d5) /\ i = Head(d4) /\ B = Head(d3) /\ j = Head(d2) /\ C = Head(d1)
  OBVIOUS
<1>c. /\ i \in Int /\ i # 0 /\ j \in Int /\ j # 0
      /\ Len(f0) # 2 /\ Len(f1) # 2
      /\ i - 1 = x /\ j - 1 = y
  OBVIOUS
<1>d. f1 = Append(f0, i)
  OBVIOUS
<1>e. f2 = Append(f1, j)
  BY Pair
<1>f. s0 = [data |-> d5, found |-> <<>>, i_flag |-> FALSE, ok |-> TRUE]
  BY DEF Reading
<1>g. DOMAIN f2 = 1..2 /\ f2[1] = i /\ f2[2] = j
  OBVIOUS
<1> HIDE DEF d0, d1, d2, d3, d4, d5, f0, f1, f2, i, j
<1>1. Matched(s0, A) = s1
  BY <1>a, <1>b, MatchesLiteral
<1>2. Matched(s1, "%i") = s2
  BY <1>a, MatchesFlag
<1>3. Matched(s2, "%d") = s3
  BY <1>a, <1>b, <1>c, <1>d, MatchesNumber
<1>4. Matched(s3, B) = s4
  BY <1>a, <1>b, MatchesLiteral
<1>5. Matched(s4, "%d") = s5
  <2>1. d2 # <<>> /\ j = Head(d2) /\ j \in Int /\ j # 0 /\ Len(f1) # 2
    BY <1>a, <1>b, <1>c
  <2>2. Matched(s4, "%d") = Reading(Tail(d2), Append(f1, j), TRUE)
    BY <2>1, MatchesNumber
  <2>3. d1 = Tail(d2)
    BY <1>a
  <2> QED BY <1>e, <2>2, <2>3
<1>6. Matched(s5, C) = s6
  <2>1. d1 # <<>> /\ C = Head(d1)
    BY <1>a, <1>b
  <2>2. Matched(s5, C) = Reading(Tail(d1), f2, TRUE)
    BY <2>1, MatchesLiteral
  <2>3. d0 = Tail(d1)
    BY <1>a
  <2> QED BY <2>2, <2>3
<1>9. Len(fmt) = 6
  OBVIOUS
<1>10. s0.ok /\ s1.ok /\ s2.ok /\ s3.ok /\ s4.ok /\ s5.ok /\ s6.ok /\ s6.i_flag /\ s6.found = f2
  BY DEF Reading
<1>11. /\ fmt[1] = A /\ fmt[2] = "%i" /\ fmt[3] = "%d"
       /\ fmt[4] = B /\ fmt[5] = "%d" /\ fmt[6] = C
  OBVIOUS
<1>12. Parsed(fmt, d5) = iter[Len(fmt)]
  BY <1>9 DEF Parsed, ParseStep
<1> HIDE DEF s0, s1, s2, s3, s4, s5, s6, fmt
<1>14. \A g : g = [k \in 0..6 |-> ParseStep(fmt, d5, g, k)] => g[6] = s6
  <2> TAKE g
  <2> HAVE g = [k \in 0..6 |-> ParseStep(fmt, d5, g, k)]
  <2>0. \A k \in 0..6 : g[k] = ParseStep(fmt, d5, g, k)
    OBVIOUS
  <2>1. g[0] = s0
    BY <2>0, <1>f DEF ParseStep
  <2>2. g[1] = s1
    <3>1. g[1] = ParseStep(fmt, d5, g, 1)
      BY <2>0
    <3>2. g[1] = Matched(g[0], fmt[1])
      BY <3>1, <2>1, <1>10 DEF ParseStep
    <3> QED BY <3>2, <2>1, <1>1, <1>11
  <2>3. g[2] = s2
    <3>1. g[2] = ParseStep(fmt, d5, g, 2)
      BY <2>0
    <3>2. g[2] = Matched(g[1], fmt[2])
      BY <3>1, <2>2, <1>10 DEF ParseStep
    <3> QED BY <3>2, <2>2, <1>2, <1>11
  <2>4. g[3] = s3
    <3>1. g[3] = ParseStep(fmt, d5, g, 3)
      BY <2>0
    <3>2. g[3] = Matched(g[2], fmt[3])
      BY <3>1, <2>3, <1>10 DEF ParseStep
    <3> QED BY <3>2, <2>3, <1>3, <1>11
  <2>5. g[4] = s4
    <3>1. g[4] = ParseStep(fmt, d5, g, 4)
      BY <2>0
    <3>2. g[4] = Matched(g[3], fmt[4])
      BY <3>1, <2>4, <1>10 DEF ParseStep
    <3> QED BY <3>2, <2>4, <1>4, <1>11
  <2>6. g[5] = s5
    <3>1. g[5] = ParseStep(fmt, d5, g, 5)
      BY <2>0
    <3>2. g[5] = Matched(g[4], fmt[5])
      BY <3>1, <2>5, <1>10 DEF ParseStep
    <3> QED BY <3>2, <2>5, <1>5, <1>11
  <2>7. g[6] = s6
    <3>1. g[6] = ParseStep(fmt, d5, g, 6)
      BY <2>0
    <3>2. g[6] = Matched(g[5], fmt[6])
      BY <3>1, <2>6, <1>10 DEF ParseStep
    <3> QED BY <3>2, <2>6, <1>6, <1>11
  <2> QED BY <2>7
<1>15. \E g : g = [k \in 0..6 |-> ParseStep(fmt, d5, g, k)]
  <2>1. \A k \in 0..6 : f[k] = ParseStep(fmt, d5, f, k)
    <3>1. f[0] = s0 /\ f[1] = s1 /\ f[2] = s2 /\ f[3] = s3 /\ f[4] = s4 /\ f[5] = s5 /\ f[6] = s6
      OBVIOUS
    <3> HIDE DEF f
    <3>2. f[0] = ParseStep(fmt, d5, f, 0)
      BY <3>1, <1>f DEF ParseStep
    <3>3. f[1] = ParseStep(fmt, d5, f, 1)
      BY <3>1, <1>1, <1>10, <1>11 DEF ParseStep
    <3>4. f[2] = ParseStep(fmt, d5, f, 2)
      BY <3>1, <1>2, <1>10, <1>11 DEF ParseStep
    <3>5. f[3] = ParseStep(fmt, d5, f, 3)
      BY <3>1, <1>3, <1>10, <1>11 DEF ParseStep
    <3>6. f[4] = ParseStep(fmt, d5, f, 4)
      BY <3>1, <1>4, <1>10, <1>11 DEF ParseStep
    <3>7. f[5] = ParseStep(fmt, d5, f, 5)
      BY <3>1, <1>5, <1>10, <1>11 DEF ParseStep
    <3>8. f[6] = ParseStep(fmt, d5, f, 6)
      BY <3>1, <1>6, <1>10, <1>11 DEF ParseStep
    <3> QED BY <3>2, <3>3, <3>4, <3>5, <3>6, <3>7, <3>8
  <2>2. f = [k \in 0..6 |-> ParseStep(fmt, d5, f, k)]
    BY <2>1
  <2> HIDE DEF f
  <2> QED BY <2>2
<1>16. iter = [k \in 0..6 |-> ParseStep(fmt, d5, iter, k)]
  BY <1>15
<1> HIDE DEF iter
<1>17. Parsed(fmt, d5) = s6
  BY <1>9, <1>12, <1>14, <1>16
<1>18. Parse2(fmt, d5) = [k \in 1..2 |-> f2[k] - 1]
  BY <1>10, <1>17, <1>g DEF Parse2
<1>19. [k \in 1..2 |-> f2[k] - 1] = <<x, y>>
  BY <1>c, <1>g
<1>20. Parse2(fmt, d5) = <<x, y>>
  BY <1>18, <1>19
<1> QED BY <1>20 DEF fmt, d5, i, j

-----------------------------------------------------------------------------
(* Commands and reports *)

Coordinates == [row : Nat, col : Nat]
Addresses   == {Command(p) : p \in Coordinates}
Commands    == Addresses \cup {User7}

Spot == [row : 0..(Far - 1), col : 0..(Far - 1)]
Answer(p) == <<User6[1], p.row + 1, User6[4], p.col + 1, User6[6]>>
Aim(c) == [row |-> c[2] - 1, col |-> c[4] - 1]

(* A motion says where the cursor is to go, and is not the request. *)
LEMMA CommandIs ==
  ASSUME XtermStrings, NEW p \in Coordinates
  PROVE  /\ Command(p) \in Addresses /\ Command(p) # User7
         /\ Aim(Command(p)) = p
<1> DEFINE A == CursorAddress[1]
           B == CursorAddress[5]
           C == CursorAddress[8]
           x == p.row
           y == p.col
<1>1. x \in Nat /\ y \in Nat /\ p = [row |-> x, col |-> y]
  BY DEF Coordinates
<1>2. A \notin Directives /\ B \notin Directives /\ C \notin Directives /\ Last(User7) # C
  BY DEF XtermStrings
<1>3. Command(p) = FormatString(CursorAddress, x, y).out
  BY DEF Command
<1>4. CursorAddress = <<A, "%i", "%p1", "%d", B, "%p2", "%d", C>>
  BY DEF XtermStrings
<1> HIDE DEF A, B, C, x, y
<1>5. FormatString(<<A, "%i", "%p1", "%d", B, "%p2", "%d", C>>, x, y).out = <<A, x + 1, B, y + 1, C>>
  BY <1>2, FormatsXterm
<1>6. Command(p) = <<A, x + 1, B, y + 1, C>>
  BY <1>3, <1>4, <1>5
<1>7. Aim(Command(p)) = p
  BY <1>1, <1>6 DEF Aim
<1>8. Last(Command(p)) = C
  BY <1>6 DEF Last
<1>9. Command(p) # User7
  BY <1>2, <1>8
<1> QED BY <1>7, <1>9 DEF Addresses

(* The terminal answers where its cursor is. *)
LEMMA ReportIs ==
  ASSUME XtermStrings
  PROVE  Report = Answer(at) /\ Last(User6) = User6[6]
<1>1. Len(User6) = 6
  BY DEF XtermStrings
<1> QED BY <1>1 DEF Report, Answer, Last

(* The library finds in an answer the place the terminal meant. *)
LEMMA AnswerFound ==
  ASSUME XtermStrings, NEW p \in Spot
  PROVE  Parse2(User6, Answer(p)) = <<p.row, p.col>>
<1> DEFINE A == User6[1]
           B == User6[4]
           C == User6[6]
           x == p.row
           y == p.col
<1>1. x \in Nat /\ y \in Nat
  BY DEF Spot
<1>2. A \notin Directives /\ B \notin Directives /\ C \notin Directives
  BY DEF XtermStrings
<1>3. User6 = <<A, "%i", "%d", B, "%d", C>> /\ Answer(p) = <<A, x + 1, B, y + 1, C>>
  BY DEF XtermStrings, Answer
<1> HIDE DEF A, B, C, x, y
<1>4. Parse2(<<A, "%i", "%d", B, "%d", C>>, <<A, x + 1, B, y + 1, C>>) = <<x, y>>
  BY <1>1, <1>2, ParsesXterm
<1> QED BY <1>3, <1>4 DEF x, y

(* Of a report only the whole ends with the last byte of user6, which no key *)
(* is.                                                                       *)
Keys == {Text, Motion}
Byte == {User6[1], User6[4], User6[6]} \cup Keys \cup Int

LEMMA AnswerType ==
  ASSUME XtermStrings, NEW p \in Spot
  PROVE  /\ Answer(p) \in Seq(Byte) /\ Len(Answer(p)) = 5
         /\ \A i \in 1..5 : Answer(p)[i] = User6[6] <=> i = 5
<1> DEFINE a == User6[1]
           b == p.row + 1
           c == User6[4]
           d == p.col + 1
           e == User6[6]
<1>1. /\ b \in Int /\ d \in Int
  BY QueryAssumption DEF Spot
<1>2. a # e /\ c # e /\ e \notin Int
  BY DEF XtermStrings
<1>3. {a, b, c, d, e} \subseteq Byte
  BY <1>1 DEF Byte
<1>4. Answer(p) = <<a, b, c, d, e>>
  BY DEF Answer
<1>5. b # e /\ d # e
  BY <1>1, <1>2
<1> HIDE DEF a, b, c, d, e
<1>6. Answer(p) \in Seq(Byte) /\ Len(Answer(p)) = 5
  BY <1>3, <1>4
<1>7. /\ Answer(p)[1] = a /\ Answer(p)[2] = b /\ Answer(p)[3] = c
      /\ Answer(p)[4] = d /\ Answer(p)[5] = e
  BY <1>4
<1>8. \A i \in 1..5 : Answer(p)[i] = e <=> i = 5
  BY <1>2, <1>5, <1>7
<1> QED BY <1>6, <1>8 DEF e

LEMMA KeysAreBytes == Keys \subseteq Byte /\ Seq(Keys) \subseteq Seq(Byte)
BY DEF Byte

LEMMA KeyIsNoEnd == XtermStrings => User6[6] \notin Keys
BY DEF XtermStrings, Keys

(* The places of the screens are coordinates. *)
LEMMA SpotIsCoordinates == Spot \subseteq Coordinates
BY QueryAssumption DEF Spot, Coordinates

(* A cursor sent to the far corner shows how large the screen is; one sent   *)
(* to a place of the screen is there.                                        *)
LEMMA ScreenIsSpot ==
  ASSUME NEW s \in Sizes
  PROVE  /\ OnScreen(s) \subseteq Spot
         /\ s.row \in 1..Far /\ s.col \in 1..Far /\ s = [row |-> s.row, col |-> s.col]
         /\ \A p \in Coordinates : Clamped(p, s) \in OnScreen(s)
         /\ \A p \in OnScreen(s) : Clamped(p, s) = p
         /\ Clamped([row |-> Far, col |-> Far], s) = [row |-> s.row - 1, col |-> s.col - 1]
<1>1. s \in [row : 1..Far, col : 1..Far] /\ Far \in Nat
  BY QueryAssumption
<1>2. s.row \in 1..Far /\ s.col \in 1..Far /\ s = [row |-> s.row, col |-> s.col]
  BY <1>1
<1>3. OnScreen(s) \subseteq Spot
  BY <1>1, <1>2 DEF OnScreen, Spot
<1>4. ASSUME NEW p \in Coordinates PROVE Clamped(p, s) \in OnScreen(s)
  <2>1. p.row \in Nat /\ p.col \in Nat
    BY DEF Coordinates
  <2>2. Min2(p.row, s.row - 1) \in 0..(s.row - 1) /\ Min2(p.col, s.col - 1) \in 0..(s.col - 1)
    BY <1>1, <1>2, <2>1 DEF Min2
  <2> QED BY <2>2 DEF Clamped, OnScreen
<1>5. ASSUME NEW p \in OnScreen(s) PROVE Clamped(p, s) = p
  <2>1. p.row \in 0..(s.row - 1) /\ p.col \in 0..(s.col - 1) /\ p = [row |-> p.row, col |-> p.col]
    BY DEF OnScreen
  <2>2. Min2(p.row, s.row - 1) = p.row /\ Min2(p.col, s.col - 1) = p.col
    BY <1>1, <1>2, <2>1 DEF Min2
  <2> QED BY <2>1, <2>2 DEF Clamped
<1>6. Clamped([row |-> Far, col |-> Far], s) = [row |-> s.row - 1, col |-> s.col - 1]
  <2>1. Min2(Far, s.row - 1) = s.row - 1 /\ Min2(Far, s.col - 1) = s.col - 1
    BY <1>1, <1>2 DEF Min2
  <2> QED BY <2>1 DEF Clamped
<1> QED BY <1>2, <1>3, <1>4, <1>5, <1>6

LEMMA ScreenType ==
  ASSUME NEW s \in Sizes \cup Coordinates
  PROVE  s \in Coordinates /\ OnScreen(s) \subseteq Coordinates
<1>1. s \in Coordinates
  BY QueryAssumption DEF Coordinates
<1>2. s.row \in Nat /\ s.col \in Nat
  BY <1>1 DEF Coordinates
<1>3. 0..(s.row - 1) \subseteq Nat /\ 0..(s.col - 1) \subseteq Nat
  BY <1>2
<1> QED BY <1>1, <1>3 DEF OnScreen, Coordinates

(* Where counting starts. *)
LEMMA EmptyText == <<>> \in Seq(Byte) /\ <<>> \in Seq(Keys) /\ <<>> \in Seq(Commands) /\ Len(<<>>) = 0
OBVIOUS

-----------------------------------------------------------------------------
(* Types, whatever comes between a query and its answer *)

(* Numbers are found in any text. *)
Parsing == [data : Seq(Byte), found : Seq(Int), i_flag : BOOLEAN, ok : BOOLEAN]
Then(s, c) == IF s.ok THEN Matched(s, c) ELSE s

LEMMA ThenType == ASSUME NEW s \in Parsing, NEW c PROVE Then(s, c) \in Parsing
<1>1. /\ s.data \in Seq(Byte) /\ s.found \in Seq(Int) /\ s.i_flag \in BOOLEAN /\ s.ok \in BOOLEAN
      /\ s = [data |-> s.data, found |-> s.found, i_flag |-> s.i_flag, ok |-> s.ok]
  BY DEF Parsing
<1>2. ASSUME s.data = <<>> PROVE Matched(s, c) \in Parsing
  <2>1. Matched(s, c) = [s EXCEPT !.ok = FALSE]
    BY <1>2 DEF Matched
  <2> QED BY <1>1, <2>1 DEF Parsing
<1>3. ASSUME s.data # <<>> PROVE Matched(s, c) \in Parsing
  <2>1. Tail(s.data) \in Seq(Byte)
    BY <1>1, <1>3, HeadTailProperties
  <2>2. CASE c = "%i"
    <3>1. Matched(s, c) = [s EXCEPT !.i_flag = TRUE]
      BY <1>3, <2>2 DEF Matched
    <3> QED BY <1>1, <3>1 DEF Parsing
  <2>3. CASE c = "%d"
    <3>1. Matched(s, c) = Scanned(s)
      BY <1>3, <2>3 DEF Matched
    <3>2. CASE Len(s.found) = 2
      BY <1>1, <3>1, <3>2 DEF Parsing, Scanned
    <3>3. CASE Len(s.found) # 2
      <4> DEFINE number == Head(s.data) \in Int
                 v == IF number THEN Head(s.data) ELSE 0
                 rest == IF number THEN Tail(s.data) ELSE s.data
      <4>1. Scanned(s) = [s EXCEPT !.found = Append(@, v), !.ok = (v # 0), !.data = rest]
        BY <3>3 DEF Scanned
      <4>2. v \in Int /\ rest \in Seq(Byte) /\ (v # 0) \in BOOLEAN
        BY <1>1, <2>1
      <4> HIDE DEF number, v, rest
      <4>3. Append(s.found, v) \in Seq(Int)
        BY <1>1, <4>2, AppendProperties
      <4> QED BY <1>1, <3>1, <4>1, <4>2, <4>3 DEF Parsing
    <3> QED BY <3>2, <3>3
  <2>4. CASE c \notin {"%i", "%d"}
    <3>1. Matched(s, c) = [s EXCEPT !.ok = (c = Head(s.data)), !.data = Tail(@)]
      BY <1>3, <2>4 DEF Matched
    <3> QED BY <1>1, <2>1, <3>1 DEF Parsing
  <2> QED BY <2>2, <2>3, <2>4
<1> QED BY <1>2, <1>3 DEF Then

LEMMA ParsedType ==
  ASSUME XtermStrings, NEW text \in Seq(Byte)
  PROVE  Parse2(User6, text) \in Seq(Int)
<1> DEFINE fmt == User6
           s0 == [data |-> text, found |-> <<>>, i_flag |-> FALSE, ok |-> TRUE]
           s1 == Then(s0, fmt[1])
           s2 == Then(s1, fmt[2])
           s3 == Then(s2, fmt[3])
           s4 == Then(s3, fmt[4])
           s5 == Then(s4, fmt[5])
           s6 == Then(s5, fmt[6])
           run == <<s1, s2, s3, s4, s5, s6>>
           f == [k \in 0..6 |-> IF k = 0 THEN s0 ELSE run[k]]
           iter == CHOOSE g : g = [k \in 0..6 |-> ParseStep(fmt, text, g, k)]
<1>1. s0 \in Parsing
  BY DEF Parsing
<1>2. Len(fmt) = 6
  BY DEF XtermStrings
<1> HIDE DEF fmt
<1>3. Parsed(fmt, text) = iter[6]
  BY <1>2 DEF Parsed, ParseStep
<1>4. s6 \in Parsing
  <2>1. s1 \in Parsing
    BY <1>1, ThenType
  <2>2. s2 \in Parsing
    BY <2>1, ThenType
  <2>3. s3 \in Parsing
    BY <2>2, ThenType
  <2>4. s4 \in Parsing
    BY <2>3, ThenType
  <2>5. s5 \in Parsing
    BY <2>4, ThenType
  <2> QED BY <2>5, ThenType
<1>5. \A g : g = [k \in 0..6 |-> ParseStep(fmt, text, g, k)] => g[6] = s6
  <2> TAKE g
  <2> HAVE g = [k \in 0..6 |-> ParseStep(fmt, text, g, k)]
  <2>0. \A k \in 0..6 : g[k] = ParseStep(fmt, text, g, k)
    OBVIOUS
  <2>1. g[0] = s0
    BY <2>0 DEF ParseStep
  <2>2. \A k \in 1..6 : g[k] = Then(g[k - 1], fmt[k])
    BY <2>0 DEF ParseStep, Then
  <2> HIDE DEF s0
  <2>3. /\ g[1] = Then(g[0], fmt[1]) /\ g[2] = Then(g[1], fmt[2]) /\ g[3] = Then(g[2], fmt[3])
        /\ g[4] = Then(g[3], fmt[4]) /\ g[5] = Then(g[4], fmt[5]) /\ g[6] = Then(g[5], fmt[6])
    BY <2>2
  <2> QED BY <2>1, <2>3
<1>6. \E g : g = [k \in 0..6 |-> ParseStep(fmt, text, g, k)]
  <2>1. f[0] = s0 /\ f[1] = s1 /\ f[2] = s2 /\ f[3] = s3 /\ f[4] = s4 /\ f[5] = s5 /\ f[6] = s6
    OBVIOUS
  <2>2. DOMAIN f = 0..6 /\ f = [k \in 0..6 |-> f[k]]
    OBVIOUS
  <2> HIDE DEF f
  <2>3. f[0] = ParseStep(fmt, text, f, 0)
    BY <2>1 DEF ParseStep
  <2>4. \A k \in 1..6 : f[k] = Then(f[k - 1], fmt[k]) => f[k] = ParseStep(fmt, text, f, k)
    BY DEF ParseStep, Then
  <2> HIDE DEF s0
  <2>5. /\ f[1] = Then(f[0], fmt[1]) /\ f[2] = Then(f[1], fmt[2]) /\ f[3] = Then(f[2], fmt[3])
        /\ f[4] = Then(f[3], fmt[4]) /\ f[5] = Then(f[4], fmt[5]) /\ f[6] = Then(f[5], fmt[6])
    BY <2>1
  <2>6. \A k \in 1..6 : f[k] = Then(f[k - 1], fmt[k])
    BY <2>5
  <2>7. \A k \in 0..6 : f[k] = ParseStep(fmt, text, f, k)
    BY <2>3, <2>4, <2>6
  <2>8. f = [k \in 0..6 |-> ParseStep(fmt, text, f, k)]
    BY <2>2, <2>7
  <2> QED BY <2>8
<1>7. iter = [k \in 0..6 |-> ParseStep(fmt, text, iter, k)]
  BY <1>6
<1> HIDE DEF iter, s6
<1>8. Parsed(fmt, text) \in Parsing
  BY <1>3, <1>4, <1>5, <1>7
<1>9. \A s \in Parsing : s.found \in Seq(Int) /\ [i \in DOMAIN s.found |-> s.found[i] - 1] \in Seq(Int)
  <2> TAKE s \in Parsing
  <2>1. s.found \in Seq(Int)
    BY DEF Parsing
  <2>2. Len(s.found) \in Nat /\ DOMAIN s.found = 1..Len(s.found)
        /\ \A i \in 1..Len(s.found) : s.found[i] \in Int
    BY <2>1, LenProperties, ElementOfSeq
  <2>3. [i \in 1..Len(s.found) |-> s.found[i] - 1] \in Seq(Int)
    BY <2>2, IsASeq
  <2> QED BY <2>1, <2>2, <2>3
<1> QED BY <1>8, <1>9 DEF Parse2, fmt

(* Two texts, one behind the other. *)
LEMMA Joined ==
  ASSUME NEW S, NEW s \in Seq(S), NEW t \in Seq(S)
  PROVE  /\ s \o t \in Seq(S) /\ Len(s \o t) = Len(s) + Len(t)
         /\ \A i \in 1..Len(s) : (s \o t)[i] = s[i]
         /\ \A i \in 1..Len(t) : (s \o t)[Len(s) + i] = t[i]
<1>1. Len(s) \in Nat /\ Len(t) \in Nat
  BY LenProperties
<1>2. /\ s \o t \in Seq(S) /\ Len(s \o t) = Len(s) + Len(t)
      /\ \A i \in 1..(Len(s) + Len(t)) : (s \o t)[i] = IF i <= Len(s) THEN s[i] ELSE t[i - Len(s)]
  BY ConcatProperties
<1> DEFINE m == Len(s)
           n == Len(t)
           j == s \o t
<1> HIDE DEF m, n, j
<1>3. \A i \in 1..m : j[i] = s[i]
  BY <1>1, <1>2 DEF m, n, j
<1>4. \A i \in 1..n : j[m + i] = t[i]
  <2> TAKE i \in 1..n
  <2>1. m + i \in 1..(m + n) /\ ~(m + i <= m) /\ (m + i) - m = i
    BY <1>1 DEF m, n
  <2>2. j[m + i] = t[(m + i) - m]
    BY <1>2, <2>1 DEF m, n, j
  <2> QED BY <2>1, <2>2
<1> QED BY <1>2, <1>3, <1>4 DEF m, n, j

(* A text of bytes that are all in a set. *)
LEMMA TextOf ==
  ASSUME NEW S, NEW s \in Seq(Byte), \A i \in 1..Len(s) : s[i] \in S
  PROVE  s \in Seq(S)
<1>1. Len(s) \in Nat /\ s = [i \in 1..Len(s) |-> s[i]]
  BY LenProperties
<1>2. [i \in 1..Len(s) |-> s[i]] \in Seq(S)
  BY <1>1, IsASeq
<1> QED BY <1>1, <1>2

Pcs == {"request", "await", "parse", "idle", "redraw", "draw", "failed", "lost"}

Typed ==
  /\ pc \in Pcs
  /\ asking \in {"cursor_pos", "saved_pos", "end_pos"}
  /\ resize_flag \in BOOLEAN /\ begun \in BOOLEAN
  /\ {cursor_pos, saved_pos, term_size} \subseteq Coordinates
  /\ size \in Sizes /\ at \in OnScreen(size) /\ ioctl \in BOOLEAN
  /\ input \in Seq(Byte) /\ res_buf \in Seq(Byte) /\ typed \in Seq(Byte)
  /\ buffered \in Seq(Commands) /\ output \in Seq(Commands)

LEMMA OriginType == Origin \in Coordinates
BY DEF Origin, Coordinates

(* The state nrl_render_init starts from. *)
LEMMA TypedInit == Init => Typed
<1> SUFFICES ASSUME Init PROVE Typed
  OBVIOUS
<1>1. size \in Sizes /\ at \in OnScreen(size) /\ ioctl \in BOOLEAN /\ input \in Seq(Byte)
  BY QueryAssumption, KeysAreBytes DEF Init, Keys
<1>2. {cursor_pos, saved_pos, term_size} \subseteq Coordinates
  BY OriginType DEF Init
<1> QED BY <1>1, <1>2, EmptyText DEF Init, Typed, Pcs

(* What a write makes of the two buffers. *)
LEMMA WriteType ==
  ASSUME Typed, NEW c \in Commands
  PROVE  /\ Append(buffered, c) \in Seq(Commands)
         /\ output \o Append(buffered, c) \in Seq(Commands)
<1>1. buffered \in Seq(Commands) /\ output \in Seq(Commands)
  BY DEF Typed
<1>2. Append(buffered, c) \in Seq(Commands)
  BY <1>1, AppendProperties
<1> QED BY <1>1, <1>2, ConcatProperties

LEMMA SentType ==
  ASSUME Typed, NEW c \in Commands, Sent(c)
  PROVE  buffered' \in Seq(Commands) /\ output' \in Seq(Commands)
BY WriteType, EmptyText DEF Sent, Flushed

LEMMA UnsentType ==
  ASSUME Typed, NEW c \in Commands, Unsent(c)
  PROVE  buffered' \in Seq(Commands) /\ output' \in Seq(Commands)
BY WriteType DEF Unsent, Typed

LEMMA LateType ==
  ASSUME Typed, NEW p \in Coordinates, MoveLate(p)
  PROVE  buffered' \in Seq(Commands) /\ output' \in Seq(Commands)
<1>1. Command(p) \in Commands
  BY DEF Commands, Addresses
<1>2. CASE Unsent(Command(p))
  BY <1>1, <1>2, UnsentType
<1>3. CASE Fault(FailAt) /\ Flushed(Command(p))
  BY <1>1, <1>3, WriteType, EmptyText DEF Flushed
<1> QED BY <1>2, <1>3 DEF MoveLate

LEMMA MotionType ==
  ASSUME Typed, NEW p \in Coordinates, MoveCursor2d(p) \/ MoveFails(p)
  PROVE  /\ buffered' \in Seq(Commands) /\ output' \in Seq(Commands)
         /\ cursor_pos' \in Coordinates
<1>1. Command(p) \in Commands
  BY DEF Commands, Addresses
<1>2. CASE MoveCursor2d(p)
  BY <1>1, <1>2, SentType DEF MoveCursor2d
<1>3. CASE MoveFails(p)
  BY <1>1, <1>3, UnsentType DEF MoveFails, Typed
<1> QED BY <1>2, <1>3

(* The ways query_size begins and ends. *)
LEMMA SizeType ==
  ASSUME Typed, QuerySize \/ QueryFails
  PROVE  /\ term_size' \in Coordinates /\ begun' \in BOOLEAN
         /\ asking' \in {"cursor_pos", "saved_pos", "end_pos"}
         /\ pc' \in Pcs
<1>1. size \in Coordinates /\ term_size \in Coordinates
  BY ScreenType DEF Typed
<1>2. CASE QuerySize
  BY <1>1, <1>2 DEF QuerySize, Finish, Ask, Typed, Pcs
<1>3. CASE QueryFails
  BY <1>1, <1>2, <1>3 DEF QueryFails, GiveUp, Finish, Typed, Pcs
<1> QED BY <1>2, <1>3

LEMMA RequestTyped == Typed /\ Request => Typed'
<1> SUFFICES ASSUME Typed, Request PROVE Typed'
  OBVIOUS
<1>1. res_buf' = <<>> /\ UNCHANGED <<cursor_pos, resize_flag, saved_pos, input, at, size, ioctl, typed>>
  BY DEF Request, Cleared, terminal, bounds
<1>2. User7 \in Commands
  BY DEF Commands
<1>3. CASE Sent(User7) /\ pc' = "await" /\ UNCHANGED <<asking, term_size, begun>>
  BY <1>1, <1>2, <1>3, SentType, EmptyText DEF Typed, Pcs
<1>4. CASE Unsent(User7) /\ QueryFails
  BY <1>1, <1>2, <1>4, UnsentType, SizeType, EmptyText DEF Typed
<1> QED BY <1>3, <1>4 DEF Request

(* A read takes a beginning of the input. *)
LEMMA ReadType ==
  ASSUME Typed, NEW n \in 0..Len(input)
  PROVE  /\ Upto(input, n) \in Seq(Byte) /\ Len(Upto(input, n)) = n
         /\ Beyond(input, n) \in Seq(Byte) /\ Len(Beyond(input, n)) = Len(input) - n
         /\ res_buf \o Upto(input, n) \in Seq(Byte)
         /\ Upto(input, n) \o Beyond(input, n) = input
<1>1. input \in Seq(Byte) /\ res_buf \in Seq(Byte)
  BY DEF Typed
<1>2. /\ Upto(input, n) \in Seq(Byte) /\ Len(Upto(input, n)) = n
      /\ Beyond(input, n) \in Seq(Byte) /\ Len(Beyond(input, n)) = Len(input) - n
  BY <1>1, CutType
<1>3. Upto(input, n) \o Beyond(input, n) = input
  BY <1>1, CutJoin
<1> QED BY <1>1, <1>2, <1>3, ConcatProperties

LEMMA ReadableCount == Typed => Readable \subseteq 0..Len(input)
<1> SUFFICES ASSUME Typed, NEW n \in Readable PROVE n \in 0..Len(input)
  OBVIOUS
<1>1. Len(input) \in Nat
  BY LenProperties DEF Typed
<1> QED BY <1>1, QueryAssumption DEF Readable, Min2

LEMMA ReadReportTyped == Typed /\ ReadReport => Typed'
<1> SUFFICES ASSUME Typed, ReadReport PROVE Typed'
  OBVIOUS
<1>1. UNCHANGED <<cursor_pos, term_size, resize_flag, asking, saved_pos, buffered, output, at, size,
                  ioctl, begun, typed>>
  BY DEF ReadReport, known, terminal, bounds
<1>2. PICK n \in Readable : res_buf' = res_buf \o Upto(input, n) /\ input' = Beyond(input, n)
  BY DEF ReadReport, Upto, Beyond
<1>3. res_buf' \in Seq(Byte) /\ input' \in Seq(Byte)
  BY <1>2, ReadableCount, ReadType
<1>4. pc' \in Pcs
  BY DEF ReadReport, Strayed, Pcs
<1> QED BY <1>1, <1>3, <1>4 DEF Typed

(* Whatever was read, the place found is a pair of numbers, and of natural ones *)
(* where the program goes on.                                                   *)
LEMMA AnsweredPlace ==
  ASSUME XtermStrings, Typed, Answered
  PROVE  \/ /\ pc' = "lost"
            /\ UNCHANGED <<cursor_pos, term_size, asking, saved_pos, buffered, output, begun, faults>>
         \/ \E pos \in Coordinates : GotCursor(pos) \/ GotSaved(pos) \/ GotEnd(pos)
<1>1. PICK row \in Garbage, col \in Garbage :
        IF Negative(Parsed2d(row, col))
        THEN /\ pc' = "lost"
             /\ UNCHANGED <<cursor_pos, term_size, asking, saved_pos, buffered, output, begun, faults>>
        ELSE GotCursor(Parsed2d(row, col)) \/ GotSaved(Parsed2d(row, col)) \/ GotEnd(Parsed2d(row, col))
  BY DEF Answered
<1> DEFINE pos == Parsed2d(row, col)
<1>2. Parse2(User6, res_buf) \in Seq(Int)
  BY ParsedType DEF Typed
<1>3. \A found \in Seq(Int) :
        [row |-> IF Len(found) > 0 THEN found[1] ELSE row,
         col |-> IF Len(found) > 1 THEN found[2] ELSE col] \in [row : Int, col : Int]
  <2> TAKE found \in Seq(Int)
  <2>1. Len(found) \in Nat /\ row \in Int /\ col \in Int
    BY LenProperties, QueryAssumption
  <2>2. Len(found) > 0 => found[1] \in Int
    BY <2>1, ElementOfSeq
  <2>3. Len(found) > 1 => found[2] \in Int
    BY <2>1, ElementOfSeq
  <2> QED BY <2>1, <2>2, <2>3
<1>4. pos \in [row : Int, col : Int]
  BY <1>2, <1>3 DEF Parsed2d
<1> HIDE DEF pos
<1>5. CASE Negative(pos)
  BY <1>1, <1>5 DEF pos
<1>6. CASE ~Negative(pos)
  <2>1. pos \in Coordinates
    BY <1>4, <1>6 DEF Negative, Coordinates
  <2>2. GotCursor(pos) \/ GotSaved(pos) \/ GotEnd(pos)
    BY <1>1, <1>6 DEF pos
  <2> QED BY <2>1, <2>2
<1> QED BY <1>5, <1>6

LEMMA GrowType == \A p \in Coordinates : Grow(p) \in Coordinates
BY DEF Grow, Coordinates

LEMMA FarIsPlace == [row |-> Far, col |-> Far] \in Coordinates
BY QueryAssumption DEF Coordinates

LEMMA AnsweredTyped == XtermStrings /\ Typed /\ Answered => Typed'
<1> SUFFICES ASSUME XtermStrings, Typed, Answered PROVE Typed'
  OBVIOUS
<1>1. UNCHANGED <<resize_flag, res_buf, input, at, size, ioctl, typed>>
  BY DEF Answered, terminal, bounds
<1>2. CASE /\ pc' = "lost"
           /\ UNCHANGED <<cursor_pos, term_size, asking, saved_pos, buffered, output, begun, faults>>
  BY <1>1, <1>2 DEF Typed, Pcs
<1>3. ASSUME NEW pos \in Coordinates, GotCursor(pos) PROVE Typed'
  <2>1. cursor_pos' = pos /\ QuerySize /\ UNCHANGED <<saved_pos, buffered, output>>
    BY <1>3 DEF GotCursor
  <2> QED BY <1>1, <2>1, SizeType DEF Typed
<1>4. ASSUME NEW pos \in Coordinates, GotSaved(pos) PROVE Typed'
  <2> DEFINE end_pos == [row |-> Far, col |-> Far]
  <2>1. /\ saved_pos' = pos /\ UNCHANGED term_size
        /\ \/ MoveCursor2d(end_pos) /\ Ask("end_pos") /\ UNCHANGED begun
           \/ MoveFails(end_pos) /\ GiveUp /\ UNCHANGED asking
    BY <1>4 DEF GotSaved
  <2>2. /\ buffered' \in Seq(Commands) /\ output' \in Seq(Commands)
        /\ cursor_pos' \in Coordinates
    BY <2>1, FarIsPlace, MotionType
  <2>3. /\ pc' \in Pcs /\ begun' \in BOOLEAN
        /\ asking' \in {"cursor_pos", "saved_pos", "end_pos"}
    BY <2>1 DEF Ask, GiveUp, Finish, Typed, Pcs
  <2> QED BY <1>1, <2>1, <2>2, <2>3 DEF Typed
<1>5. ASSUME NEW pos \in Coordinates, GotEnd(pos) PROVE Typed'
  <2>1. /\ UNCHANGED <<asking, saved_pos>>
        /\ \/ MoveCursor2d(saved_pos) /\ term_size' = Grow(pos) /\ Finish
           \/ MoveFails(saved_pos) /\ term_size' = pos /\ GiveUp
    BY <1>5 DEF GotEnd
  <2>2. saved_pos \in Coordinates
    BY DEF Typed
  <2>3. /\ buffered' \in Seq(Commands) /\ output' \in Seq(Commands)
        /\ cursor_pos' \in Coordinates
    BY <2>1, <2>2, MotionType
  <2>4. /\ pc' \in Pcs /\ begun' \in BOOLEAN /\ term_size' \in Coordinates
    BY <2>1, GrowType DEF GiveUp, Finish, Typed, Pcs
  <2> QED BY <1>1, <2>1, <2>2, <2>3, <2>4 DEF Typed
<1> QED BY <1>2, <1>3, <1>4, <1>5, AnsweredPlace

LEMMA InterruptedTyped == Typed /\ Interrupted => Typed'
<1> SUFFICES ASSUME Typed, Interrupted PROVE Typed'
  OBVIOUS
<1>1. QueryFails /\ UNCHANGED <<cursor_pos, resize_flag, saved_pos, res_buf, buffered, output, input,
                                at, size, ioctl, typed>>
  BY DEF Interrupted, channel, terminal, bounds
<1> QED BY <1>1, SizeType DEF Typed

LEMMA ReadKeysTyped == Typed /\ ReadKeys => Typed'
<1> SUFFICES ASSUME Typed, ReadKeys PROVE Typed'
  OBVIOUS
<1>1. UNCHANGED <<term_size, resize_flag, asking, saved_pos, res_buf, at, size, ioctl, begun>>
  BY DEF ReadKeys, local, terminal
<1>2. PICK n \in 1..Len(input) :
        /\ typed' = typed \o Upto(input, n)
        /\ input' = Beyond(input, n)
        /\ \/ \E pos \in OnScreen(term_size) :
                MoveCursor2d(pos) \/ (MoveLate(pos) /\ UNCHANGED cursor_pos)
           \/ UNCHANGED <<buffered, output, cursor_pos, faults>>
        /\ pc' \in {"idle", "redraw"}
  BY DEF ReadKeys, Upto, Beyond
<1>3. n \in 0..Len(input)
  OBVIOUS
<1>4. typed' \in Seq(Byte) /\ input' \in Seq(Byte)
  BY <1>2, <1>3, ReadType, ConcatProperties DEF Typed
<1>5. buffered' \in Seq(Commands) /\ output' \in Seq(Commands) /\ cursor_pos' \in Coordinates
  <2>1. CASE UNCHANGED <<buffered, output, cursor_pos, faults>>
    BY <2>1 DEF Typed
  <2>2. ASSUME NEW pos \in OnScreen(term_size),
               MoveCursor2d(pos) \/ (MoveLate(pos) /\ UNCHANGED cursor_pos)
        PROVE  buffered' \in Seq(Commands) /\ output' \in Seq(Commands) /\ cursor_pos' \in Coordinates
    <3>1. pos \in Coordinates
      BY ScreenType DEF Typed
    <3> QED BY <2>2, <3>1, MotionType, LateType DEF Typed
  <2> QED BY <1>2, <2>1, <2>2
<1> QED BY <1>1, <1>2, <1>4, <1>5 DEF Typed, Pcs

LEMMA RedrawTyped == Typed /\ (Redraw \/ DrawNowhere) => Typed'
<1> SUFFICES ASSUME Typed, Redraw \/ DrawNowhere PROVE Typed'
  OBVIOUS
<1>1. UNCHANGED <<cursor_pos, term_size, resize_flag, saved_pos, res_buf, buffered, output, input, at,
                  size, ioctl, begun, typed>>
  BY DEF Redraw, DrawNowhere, known, local, channel, terminal, bounds
<1>2. asking' \in {"cursor_pos", "saved_pos", "end_pos"} /\ pc' \in Pcs
  BY DEF Redraw, DrawNowhere, local, Ask, Typed, Pcs
<1> QED BY <1>1, <1>2 DEF Typed

LEMMA DrawTyped == Typed /\ Draw => Typed'
<1> SUFFICES ASSUME Typed, Draw PROVE Typed'
  OBVIOUS
<1>1. /\ resize_flag' = FALSE /\ pc' = "idle"
      /\ UNCHANGED <<term_size, asking, saved_pos, res_buf, input, at, size, ioctl, begun, typed>>
  BY DEF Draw, local, terminal, bounds
<1>2. PICK pos \in OnScreen(term_size) :
        MoveCursor2d(pos) \/ (MoveLate(pos) /\ cursor_pos' \in OnScreen(term_size))
  BY DEF Draw
<1>3. OnScreen(term_size) \subseteq Coordinates
  BY ScreenType DEF Typed
<1>4. buffered' \in Seq(Commands) /\ output' \in Seq(Commands) /\ cursor_pos' \in Coordinates
  BY <1>2, <1>3, MotionType, LateType
<1> QED BY <1>1, <1>4 DEF Typed, Pcs

(* The first command leaves. *)
LEMMA OneLess ==
  ASSUME Typed, output # <<>>, output' = Tail(output)
  PROVE  /\ output' \in Seq(Commands)
         /\ Len(output) \in Nat /\ Len(output) > 0 /\ Len(output') = Len(output) - 1
         /\ Head(output) = output[1] /\ output[1] \in Commands
         /\ \A i \in 1..(Len(output) - 1) : output'[i] = output[i + 1]
<1>1. output \in Seq(Commands)
  BY DEF Typed
<1>2. /\ output' \in Seq(Commands)
      /\ Len(output') = Len(output) - 1
      /\ Head(output) = output[1] /\ output[1] \in Commands
      /\ \A i \in 1..(Len(output) - 1) : output'[i] = output[i + 1]
  BY <1>1, HeadTailProperties
<1>3. Len(output) \in Nat /\ Len(output) > 0
  BY <1>1, EmptySeq
<1> QED BY <1>2, <1>3

(* The terminal moves where a command says. *)
LEMMA ObeyedMotion ==
  ASSUME XtermStrings, Typed, Obey, output[1] \in Addresses
  PROVE  at' = Clamped(Aim(output[1]), size) /\ at' \in OnScreen(size) /\ input' = input
<1>1. Head(output) = output[1] /\ output # <<>>
  BY OneLess DEF Obey
<1>2. PICK p \in Coordinates : output[1] = Command(p)
  BY DEF Addresses
<1>3. output[1] # User7 /\ Aim(output[1]) = p
  BY <1>2, CommandIs
<1>4. at' = Clamped(Aim(output[1]), size) /\ input' = input
  BY <1>1, <1>3 DEF Obey, Aim
<1>5. Clamped(p, size) \in OnScreen(size)
  BY ScreenIsSpot DEF Typed
<1> QED BY <1>3, <1>4, <1>5

(* And answers where it is, unless the keys come from a pipe. *)
LEMMA ObeyedRequest ==
  ASSUME XtermStrings, Typed, Obey, output[1] = User7
  PROVE  /\ at' = at /\ at \in Spot /\ input' \in Seq(Byte)
         /\ input' = IF Pipe THEN input ELSE input \o Answer(at)
<1>1. Head(output) = User7
  BY OneLess DEF Obey
<1>2. at' = at /\ input' = IF Pipe THEN input ELSE input \o Answer(at)
  BY <1>1, ReportIs DEF Obey
<1>3. at \in Spot
  BY ScreenIsSpot DEF Typed
<1>4. Answer(at) \in Seq(Byte)
  BY <1>3, AnswerType
<1> QED BY <1>2, <1>3, <1>4, ConcatProperties DEF Typed

LEMMA ObeyTyped == XtermStrings /\ Typed /\ Obey => Typed'
<1> SUFFICES ASSUME XtermStrings, Typed, Obey PROVE Typed'
  OBVIOUS
<1>1. /\ output # <<>> /\ output' = Tail(output)
      /\ UNCHANGED <<cursor_pos, term_size, resize_flag, asking, saved_pos, res_buf, pc, buffered, size,
                     ioctl, begun, typed>>
  BY DEF Obey, known, local, bounds
<1>2. output' \in Seq(Commands) /\ output[1] \in Commands
  BY <1>1, OneLess
<1>3. at' \in OnScreen(size) /\ input' \in Seq(Byte)
  <2>1. CASE output[1] \in Addresses
    BY <2>1, ObeyedMotion DEF Typed
  <2>2. CASE output[1] = User7
    BY <2>2, ObeyedRequest DEF Typed
  <2> QED BY <1>2, <2>1, <2>2 DEF Commands
<1> QED BY <1>1, <1>2, <1>3 DEF Typed

(* Resizes and keys may come at any time. *)
LEMMA ResizedAt ==
  ASSUME Typed, Resize
  PROVE  size' \in Sizes /\ at' = Clamped(at, size') /\ at' \in OnScreen(size')
<1>1. size' \in Sizes /\ at' = Clamped(at, size')
  BY DEF Resize
<1>2. at \in Coordinates
  BY ScreenIsSpot, SpotIsCoordinates DEF Typed
<1> QED BY <1>1, <1>2, ScreenIsSpot

LEMMA UserTyped == Typed /\ (Resize \/ Type) => Typed'
<1> SUFFICES ASSUME Typed, Resize \/ Type PROVE Typed'
  OBVIOUS
<1>1. CASE Resize
  <2>1. /\ resize_flag' = TRUE
        /\ UNCHANGED <<cursor_pos, term_size, asking, saved_pos, res_buf, pc, buffered, output, input,
                       ioctl, begun, typed>>
    BY <1>1 DEF Resize, local, channel
  <2> QED BY <1>1, <2>1, ResizedAt DEF Typed
<1>2. CASE Type
  <2>1. UNCHANGED <<cursor_pos, term_size, resize_flag, asking, saved_pos, res_buf, pc, buffered, output,
                    at, size, ioctl, begun, typed>>
    BY <1>2 DEF Type, known, local, terminal
  <2>2. PICK key \in Keys : input' = Append(input, key)
    BY <1>2 DEF Type, Keys
  <2>3. input' \in Seq(Byte)
    BY <2>2, KeysAreBytes, AppendProperties DEF Typed
  <2> QED BY <2>1, <2>3 DEF Typed
<1> QED BY <1>1, <1>2

LEMMA StutterTyped == Typed /\ UNCHANGED vars => Typed'
BY DEF Typed, vars, known, local, channel, terminal, bounds

(* Every step keeps the types. *)
LEMMA TypedNext == XtermStrings /\ Typed /\ [Next]_vars => Typed'
<1> SUFFICES ASSUME XtermStrings, Typed, [Next]_vars PROVE Typed'
  OBVIOUS
<1>1. CASE Library
  BY <1>1, RequestTyped, ReadReportTyped, AnsweredTyped, ReadKeysTyped, RedrawTyped, DrawTyped DEF Library
<1>2. CASE Interrupted
  BY <1>2, InterruptedTyped
<1>3. CASE Obey
  BY <1>3, ObeyTyped
<1>4. CASE Resize \/ Type
  BY <1>4, UserTyped
<1>5. CASE UNCHANGED vars
  BY <1>5, StutterTyped
<1> QED BY <1>1, <1>2, <1>3, <1>4, <1>5 DEF Next

(* Whatever the garbage in query_cursor's int32_t holds, and whatever keys,  *)
(* resizes, signals and failing writes come between a query and its answer,  *)
(* no position the renderer keeps is negative.                               *)
THEOREM QueryTypeCorrect ==
  ASSUME XtermStrings
  PROVE  Spec => []TypeOK
<1>1. Init => Typed
  BY TypedInit
<1>2. Typed /\ [Next]_vars => Typed'
  BY TypedNext
<1>3. Typed => TypeOK
  BY DEF Typed, TypeOK, Coordinates, Pcs
<1> QED BY <1>1, <1>2, <1>3, PTL DEF Spec

-----------------------------------------------------------------------------
(* Where every request is sent and every answer waited for *)

(* A report is somewhere in the input, behind keys and before keys; or no more *)
(* than keys are left of what was there.                                       *)
EndAt(s, k) ==
  /\ \A i \in 1..Len(s) : i < k => s[i] # User6[6]
  /\ k > 0 => s[k] = User6[6]
  /\ \A i \in 1..Len(s) : i > k => s[i] \in Keys

(* The motions the terminal has yet to make: all that is on its way but the  *)
(* request for the report that is awaited.                                   *)
Pending == IF pc = "await" THEN Len(output) - 1 ELSE Len(output)

Stopped == pc \in {"failed", "lost"}

AheadInv ==
  /\ ~closed /\ typed \in Seq(Keys)
  /\ ~Stopped =>
       /\ buffered = <<>>
       /\ \A i \in 1..Pending : output[i] \in Addresses
       /\ pc # "await" => input \in Seq(Keys)
       /\ pc = "await" /\ output # <<>> => output[Len(output)] = User7 /\ input \in Seq(Keys)
       /\ pc = "await" /\ output = <<>> => \E k \in 0..Len(input) : EndAt(input, k)

(* The channel to the terminal, counted. *)
LEMMA OutputLength ==
  ASSUME Typed
  PROVE  /\ Len(output) \in Nat /\ Pending \in Int
         /\ output = <<>> <=> Len(output) = 0
<1>1. Len(output) \in Nat
  BY LenProperties DEF Typed
<1>2. output = <<>> <=> Len(output) = 0
  BY EmptySeq DEF Typed
<1> QED BY <1>1, <1>2 DEF Pending

(* One more command behind the motions. *)
LEMMA OneMore ==
  ASSUME Typed, buffered = <<>>, NEW c \in Commands, Sent(c)
  PROVE  /\ buffered' = <<>> /\ output' = Append(output, c) /\ Len(output') = Len(output) + 1
         /\ output' # <<>> /\ output'[Len(output')] = c
         /\ \A i \in 1..Len(output) : output'[i] = output[i]
<1>1. output \in Seq(Commands) /\ Len(output) \in Nat
  BY OutputLength DEF Typed
<1>2. buffered' = <<>> /\ output' = output \o Append(<<>>, c)
  BY DEF Sent, Flushed
<1>3. Append(<<>>, c) = <<c>>
  OBVIOUS
<1>4. output' = Append(output, c)
  BY <1>1, <1>2, <1>3, AppendIsConcat
<1>5. /\ Append(output, c) \in Seq(Commands) /\ Len(Append(output, c)) = Len(output) + 1
      /\ Append(output, c)[Len(output) + 1] = c
      /\ \A i \in 1..Len(output) : Append(output, c)[i] = output[i]
  BY <1>1, AppendProperties
<1>6. output' # <<>>
  BY <1>1, <1>4, <1>5, EmptySeq
<1> QED BY <1>2, <1>4, <1>5, <1>6

(* Where keys and resizes may come. *)
LEMMA PlaceIs ==
  ASSUME Typed
  PROVE  /\ place \in Places
         /\ place = "init" => ~begun
         /\ place = "idle" => begun /\ pc = "idle" /\ input = <<>>
         /\ place = "redraw" => begun /\ pc = "redraw"
BY DEF place, Places, Typed

(* A step without a fault, on a terminal. *)
Faultless == ~Pipe /\ faults \in Nat /\ faults' = faults

LEMMA NoFault ==
  ASSUME Faultless
  PROVE  /\ ~Fault(FailAt) /\ ~Fault(InterruptAt)
         /\ \A c : ~Unsent(c)
         /\ \A p : ~MoveFails(p)
         /\ \A p : ~MoveLate(p)
<1>1. ~Fault(FailAt) /\ ~Fault(InterruptAt)
  BY DEF Faultless, Fault
<1> QED BY <1>1 DEF Unsent, MoveFails, MoveLate

(* Motions and no request. *)
LEMMA MotionsOnly ==
  ASSUME XtermStrings, Typed, AheadInv, NEW p \in Coordinates, MoveCursor2d(p),
         pc \notin {"await", "failed", "lost"}, pc' \notin {"await", "failed", "lost"}
  PROVE  /\ buffered' = <<>> /\ cursor_pos' = p
         /\ output' = Append(output, Command(p)) /\ Pending' = Len(output')
         /\ \A i \in 1..Pending' : output'[i] \in Addresses
<1>1. Sent(Command(p)) /\ cursor_pos' = p
  BY DEF MoveCursor2d
<1>2. Command(p) \in Commands /\ Command(p) \in Addresses
  BY CommandIs DEF Commands
<1>3. /\ buffered = <<>> /\ Pending = Len(output) /\ Pending' = Len(output')
      /\ \A i \in 1..Pending : output[i] \in Addresses
  BY DEF AheadInv, Stopped, Pending
<1>4. /\ buffered' = <<>> /\ output' = Append(output, Command(p)) /\ Len(output') = Len(output) + 1
      /\ output'[Len(output')] = Command(p)
      /\ \A i \in 1..Len(output) : output'[i] = output[i]
  BY <1>1, <1>2, <1>3, OneMore
<1>5. Len(output) \in Nat
  BY OutputLength
<1>6. \A i \in 1..Pending' : output'[i] \in Addresses
  <2> TAKE i \in 1..Pending'
  <2>1. CASE i = Len(output')
    BY <1>2, <1>4, <2>1
  <2>2. CASE i # Len(output')
    <3>1. i \in 1..Len(output)
      BY <1>3, <1>4, <1>5, <2>2
    <3> QED BY <1>3, <1>4, <3>1
  <2> QED BY <2>1, <2>2
<1> QED BY <1>1, <1>3, <1>4, <1>6

LEMMA AheadInit == ~Pipe /\ Init => AheadInv
<1> SUFFICES ASSUME ~Pipe, Init PROVE AheadInv
  OBVIOUS
<1>1. output = <<>> /\ pc = "request" /\ buffered = <<>> /\ typed = <<>> /\ ~closed
  BY DEF Init
<1>2. Len(output) = 0 /\ Pending = 0
  BY <1>1 DEF Pending
<1>3. input \in Seq(Keys)
  BY QueryAssumption DEF Init, Keys
<1> QED BY <1>1, <1>2, <1>3, EmptyText DEF AheadInv

(* Where the program stops, only what was typed matters. *)
LEMMA AheadStops ==
  ASSUME AheadInv, Stopped', UNCHANGED <<closed, typed>>
  PROVE  AheadInv'
BY DEF AheadInv

LEMMA RequestAhead == XtermStrings /\ Faultless /\ Typed /\ AheadInv /\ Request => AheadInv'
<1> SUFFICES ASSUME Faultless, Typed, AheadInv, Request PROVE AheadInv'
  OBVIOUS
<1>1. pc = "request" /\ UNCHANGED <<input, closed, typed>>
  BY DEF Request, bounds
<1>2. CASE Unsent(User7) /\ QueryFails
  BY <1>2, NoFault
<1>3. CASE Sent(User7) /\ pc' = "await"
  <2>1. /\ buffered = <<>> /\ input \in Seq(Keys) /\ ~closed /\ typed \in Seq(Keys)
        /\ \A i \in 1..Len(output) : output[i] \in Addresses
    BY <1>1 DEF AheadInv, Stopped, Pending
  <2>2. /\ buffered' = <<>> /\ Len(output') = Len(output) + 1
        /\ output' # <<>> /\ output'[Len(output')] = User7
        /\ \A i \in 1..Len(output) : output'[i] = output[i]
    BY <1>3, <2>1, OneMore DEF Commands
  <2>3. Pending' = Len(output)
    BY <1>3, <2>2, OutputLength DEF Pending
  <2> QED BY <1>1, <1>3, <2>1, <2>2, <2>3 DEF AheadInv
<1> QED BY <1>2, <1>3 DEF Request

(* Reads stop behind the last byte of the report, or do not stop. *)
LEMMA ReadReportAhead == XtermStrings /\ Typed /\ AheadInv /\ ReadReport => AheadInv'
<1> SUFFICES ASSUME XtermStrings, Typed, AheadInv, ReadReport PROVE AheadInv'
  OBVIOUS
<1>1. pc = "await" /\ UNCHANGED <<buffered, output, closed, typed>>
  BY DEF ReadReport, bounds
<1>2. PICK n \in Readable : res_buf' = res_buf \o Upto(input, n) /\ input' = Beyond(input, n)
  BY DEF ReadReport, Upto, Beyond
<1>3. Len(input) \in Nat /\ Len(res_buf) \in Nat /\ input \in Seq(Byte) /\ res_buf \in Seq(Byte)
  BY LenProperties DEF Typed
<1>4. n \in 1..Len(input)
  <2>1. ~closed
    BY DEF AheadInv
  <2>2. n \in 0..Len(input)
    BY <1>2, ReadableCount
  <2>3. n >= 1
    BY <1>2, <1>3, <2>1, QueryAssumption DEF Readable, Min2
  <2> QED BY <2>2, <2>3
<1> DEFINE head == Upto(input, n)
           rest == Beyond(input, n)
<1>5. /\ head \in Seq(Byte) /\ Len(head) = n /\ rest \in Seq(Byte) /\ Len(rest) = Len(input) - n
      /\ head \o rest = input
  <2>1. n \in 0..Len(input)
    BY <1>4
  <2> QED BY <2>1, ReadType
<1>6. /\ \A i \in 1..n : head[i] = input[i]
      /\ \A i \in 1..Len(rest) : rest[i] = input[n + i]
  <2> HIDE DEF head, rest
  <2>1. head \in Seq(Byte) /\ rest \in Seq(Byte)
    BY <1>5
  <2>2. \A i \in 1..Len(head) : (head \o rest)[i] = head[i]
    BY <2>1, Joined
  <2>3. \A i \in 1..Len(rest) : (head \o rest)[Len(head) + i] = rest[i]
    BY <2>1, Joined
  <2> QED BY <1>5, <2>2, <2>3
<1>7. res_buf' = res_buf \o head /\ input' = rest
  BY <1>2
<1> HIDE DEF head, rest
<1>8. res_buf' # <<>> /\ Last(res_buf') = input[n]
  <2>1. /\ Len(res_buf \o head) = Len(res_buf) + n
        /\ (res_buf \o head)[Len(res_buf) + n] = head[n]
    <3>1. \A i \in 1..Len(head) : (res_buf \o head)[Len(res_buf) + i] = head[i]
      BY <1>3, <1>5, Joined
    <3>2. Len(res_buf \o head) = Len(res_buf) + Len(head)
      BY <1>3, <1>5, Joined
    <3> QED BY <1>4, <1>5, <3>1, <3>2
  <2>2. Len(res_buf') # 0
    BY <1>3, <1>4, <1>7, <2>1
  <2>3. head[n] = input[n]
    BY <1>4, <1>6
  <2> QED BY <1>7, <2>1, <2>2, <2>3, EmptyText DEF Last
<1>9. Complete(res_buf') <=> input[n] = User6[6]
  BY <1>8, ReportIs DEF Complete
<1>10. \/ Stopped'
       \/ pc' = "parse" /\ input[n] = User6[6]
       \/ pc' = "await" /\ input[n] # User6[6]
  BY <1>8, <1>9 DEF ReadReport, Strayed, Stopped
<1>11. CASE Stopped'
  BY <1>1, <1>11, AheadStops
<1>12. ASSUME output # <<>>, ~Stopped' PROVE AheadInv'
  <2>1. output[Len(output)] = User7 /\ input \in Seq(Keys)
    BY <1>1, <1>12 DEF AheadInv, Stopped
  <2>2. input[n] \in Keys
    BY <1>4, <2>1, ElementOfSeq
  <2>3. pc' = "await"
    BY <1>10, <1>12, <2>2, KeyIsNoEnd
  <2>4. input' \in Seq(Keys)
    <3>1. n \in 0..Len(input)
      BY <1>4
    <3> QED BY <1>7, <2>1, <3>1, CutType DEF rest
  <2>5. Pending' = Pending
    BY <1>1, <2>3 DEF Pending
  <2> QED BY <1>1, <1>12, <2>1, <2>3, <2>4, <2>5 DEF AheadInv, Stopped
<1>13. ASSUME output = <<>>, ~Stopped' PROVE AheadInv'
  <2>1. PICK k \in 0..Len(input) : EndAt(input, k)
    BY <1>1, <1>13 DEF AheadInv, Stopped
  <2>2. buffered' = <<>> /\ Len(output') = 0 /\ Len(output) = 0
    BY <1>1, <1>13 DEF AheadInv, Stopped
  <2>3. \A i \in 1..Pending' : output'[i] \in Addresses
    BY <2>2 DEF Pending
  <2>4. pc' = "parse" => input' \in Seq(Keys)
    <3> SUFFICES ASSUME pc' = "parse" PROVE input' \in Seq(Keys)
      OBVIOUS
    <3>1. input[n] = User6[6]
      BY <1>10 DEF Stopped
    <3>2. ~(n > k)
      BY <1>4, <2>1, <3>1, KeyIsNoEnd DEF EndAt
    <3>3. ~(n < k)
      BY <1>4, <2>1, <3>1 DEF EndAt
    <3>4. n = k
      BY <1>4, <3>2, <3>3
    <3>5. \A i \in 1..Len(rest) : rest[i] \in Keys
      <4> TAKE i \in 1..Len(rest)
      <4>1. n + i \in 1..Len(input) /\ n + i > k
        BY <1>3, <1>4, <1>5, <3>4
      <4> QED BY <1>6, <2>1, <4>1 DEF EndAt
    <3> QED BY <1>5, <1>7, <3>5, TextOf
  <2>5. pc' = "await" => \E j \in 0..Len(input') : EndAt(input', j)
    <3> SUFFICES ASSUME pc' = "await" PROVE \E j \in 0..Len(input') : EndAt(input', j)
      OBVIOUS
    <3>1. input[n] # User6[6]
      BY <1>10 DEF Stopped
    <3>2. n # k
      BY <1>4, <2>1, <3>1 DEF EndAt
    <3> DEFINE j == IF n < k THEN k - n ELSE 0
    <3>3. j \in 0..Len(rest)
      BY <1>3, <1>4, <1>5
    <3>4. \A i \in 1..Len(rest) : n + i \in 1..Len(input) /\ rest[i] = input[n + i]
      BY <1>3, <1>4, <1>5, <1>6
    <3>5. \A i \in 1..Len(rest) : i < j => rest[i] # User6[6]
      <4> TAKE i \in 1..Len(rest)
      <4> HAVE i < j
      <4>1. n + i < k
        BY <1>4, <3>3
      <4> QED BY <2>1, <3>4, <4>1 DEF EndAt
    <3>6. j > 0 => rest[j] = User6[6]
      <4> HAVE j > 0
      <4>1. n + j = k /\ j \in 1..Len(rest) /\ k > 0
        BY <1>4, <3>3
      <4>2. input[k] = User6[6]
        BY <2>1, <4>1 DEF EndAt
      <4>3. rest[j] = input[n + j]
        BY <3>4, <4>1
      <4> QED BY <4>1, <4>2, <4>3
    <3>7. \A i \in 1..Len(rest) : i > j => rest[i] \in Keys
      <4> TAKE i \in 1..Len(rest)
      <4> HAVE i > j
      <4>1. n + i > k
        BY <1>4, <3>2
      <4> QED BY <2>1, <3>4, <4>1 DEF EndAt
    <3> HIDE DEF j
    <3>8. EndAt(rest, j)
      BY <3>5, <3>6, <3>7 DEF EndAt
    <3> QED BY <1>7, <3>3, <3>8
  <2>6. pc' \in {"parse", "await"}
    BY <1>10, <1>13
  <2> QED BY <1>1, <1>13, <2>2, <2>3, <2>4, <2>5, <2>6 DEF AheadInv, Stopped
<1> QED BY <1>11, <1>12, <1>13

LEMMA AnsweredAhead == XtermStrings /\ Faultless /\ Typed /\ AheadInv /\ Answered => AheadInv'
<1> SUFFICES ASSUME XtermStrings, Faultless, Typed, AheadInv, Answered PROVE AheadInv'
  OBVIOUS
<1>1. pc = "parse" /\ UNCHANGED <<input, closed, typed>>
  BY DEF Answered, bounds
<1>2. /\ buffered = <<>> /\ input \in Seq(Keys) /\ ~closed /\ typed \in Seq(Keys)
      /\ \A i \in 1..Len(output) : output[i] \in Addresses
  BY <1>1 DEF AheadInv, Stopped, Pending
<1>3. CASE pc' = "lost"
  BY <1>1, <1>3, AheadStops DEF Stopped
<1>5. ASSUME pc' \in {"idle", "draw", "request"}, UNCHANGED <<buffered, output>> PROVE AheadInv'
  BY <1>1, <1>2, <1>5 DEF AheadInv, Pending
<1>6. ASSUME NEW p \in Coordinates, MoveCursor2d(p), pc' \in {"idle", "draw", "request"} PROVE AheadInv'
  <2>1. buffered' = <<>> /\ \A i \in 1..Pending' : output'[i] \in Addresses
    BY <1>1, <1>6, MotionsOnly
  <2> QED BY <1>1, <1>2, <1>6, <2>1 DEF AheadInv
<1>7. ASSUME NEW pos \in Coordinates, GotCursor(pos) PROVE AheadInv'
  <2>1. pc' \in {"idle", "draw", "request"} /\ UNCHANGED <<buffered, output>>
    BY <1>7 DEF GotCursor, QuerySize, Finish, Ask
  <2> QED BY <1>5, <2>1
<1>8. ASSUME NEW pos \in Coordinates, GotSaved(pos) PROVE AheadInv'
  <2> DEFINE end_pos == [row |-> Far, col |-> Far]
  <2>1. MoveCursor2d(end_pos) /\ pc' = "request"
    BY <1>8, NoFault DEF GotSaved, Ask
  <2> QED BY <1>6, <2>1, FarIsPlace
<1>9. ASSUME NEW pos \in Coordinates, GotEnd(pos) PROVE AheadInv'
  <2>1. MoveCursor2d(saved_pos) /\ pc' \in {"idle", "draw"}
    BY <1>9, NoFault DEF GotEnd, Finish
  <2>2. saved_pos \in Coordinates
    BY DEF Typed
  <2> QED BY <1>6, <2>1, <2>2
<1> QED BY <1>3, <1>7, <1>8, <1>9, AnsweredPlace

(* Keys are all there is to read while no answer is awaited. *)
LEMMA ReadKeysAhead ==
  XtermStrings /\ Faultless /\ Typed /\ AheadInv /\ begun /\ ReadKeys => AheadInv'
<1> SUFFICES ASSUME XtermStrings, Faultless, Typed, AheadInv, begun, ReadKeys PROVE AheadInv'
  OBVIOUS
<1>1. pc = "idle" /\ closed' = closed
  BY DEF ReadKeys
<1>2. /\ buffered = <<>> /\ input \in Seq(Keys) /\ ~closed /\ typed \in Seq(Keys)
      /\ \A i \in 1..Len(output) : output[i] \in Addresses
  BY <1>1 DEF AheadInv, Stopped, Pending
<1>3. PICK n \in 1..Len(input) :
        /\ typed' = typed \o Upto(input, n)
        /\ input' = Beyond(input, n)
        /\ \/ \E pos \in OnScreen(term_size) :
                MoveCursor2d(pos) \/ (MoveLate(pos) /\ UNCHANGED cursor_pos)
           \/ UNCHANGED <<buffered, output, cursor_pos, faults>>
        /\ pc' \in {"idle", "redraw"}
  BY <1>1 DEF ReadKeys, Upto, Beyond
<1>4. typed' \in Seq(Keys) /\ input' \in Seq(Keys)
  <2>1. n \in 0..Len(input)
    OBVIOUS
  <2>2. Upto(input, n) \in Seq(Keys) /\ Beyond(input, n) \in Seq(Keys)
    BY <1>2, <2>1, CutType
  <2> QED BY <1>2, <1>3, <2>2, ConcatProperties
<1>5. CASE UNCHANGED <<buffered, output>>
  BY <1>1, <1>2, <1>3, <1>4, <1>5 DEF AheadInv, Pending
<1>6. ASSUME NEW pos \in OnScreen(term_size), MoveCursor2d(pos) \/ MoveLate(pos) PROVE AheadInv'
  <2>1. pos \in Coordinates
    BY ScreenType DEF Typed
  <2>2. MoveCursor2d(pos)
    BY <1>6, NoFault
  <2>3. buffered' = <<>> /\ \A i \in 1..Pending' : output'[i] \in Addresses
    BY <1>1, <1>3, <2>1, <2>2, MotionsOnly
  <2> QED BY <1>1, <1>2, <1>3, <1>4, <2>3 DEF AheadInv
<1> QED BY <1>3, <1>5, <1>6

LEMMA DrawAhead ==
  XtermStrings /\ Faultless /\ Typed /\ AheadInv /\ begun /\ Draw => AheadInv'
<1> SUFFICES ASSUME XtermStrings, Faultless, Typed, AheadInv, begun, Draw PROVE AheadInv'
  OBVIOUS
<1>1. pc = "draw" /\ pc' = "idle" /\ UNCHANGED <<input, closed, typed>>
  BY DEF Draw, bounds
<1>2. input \in Seq(Keys) /\ ~closed /\ typed \in Seq(Keys)
  BY <1>1 DEF AheadInv, Stopped
<1>3. PICK pos \in OnScreen(term_size) : MoveCursor2d(pos) \/ MoveLate(pos)
  BY DEF Draw
<1>4. MoveCursor2d(pos) /\ pos \in Coordinates
  BY <1>3, NoFault, ScreenType DEF Typed
<1>5. buffered' = <<>> /\ \A i \in 1..Pending' : output'[i] \in Addresses
  BY <1>1, <1>4, MotionsOnly
<1> QED BY <1>1, <1>2, <1>5 DEF AheadInv

LEMMA RedrawAhead == AheadInv /\ (Redraw \/ DrawNowhere) => AheadInv'
<1> SUFFICES ASSUME AheadInv, Redraw \/ DrawNowhere PROVE AheadInv'
  OBVIOUS
<1>1. UNCHANGED <<buffered, output, input, closed, typed>>
  BY DEF Redraw, DrawNowhere, channel, bounds
<1>2. CASE pc = "redraw" /\ pc' \in {"request", "draw"}
  BY <1>1, <1>2 DEF AheadInv, Pending, Stopped
<1>3. CASE pc' = "lost"
  BY <1>1, <1>3, AheadStops DEF Stopped
<1> QED BY <1>2, <1>3 DEF Redraw, DrawNowhere, Ask

(* The answer comes behind the keys that are there already. *)
LEMMA ObeyAhead == XtermStrings /\ Faultless /\ Typed /\ AheadInv /\ Obey => AheadInv'
<1> SUFFICES ASSUME XtermStrings, Faultless, Typed, AheadInv, Obey PROVE AheadInv'
  OBVIOUS
<1>1. output # <<>> /\ output' = Tail(output) /\ UNCHANGED <<pc, buffered, closed, typed>>
  BY DEF Obey, bounds
<1>2. CASE Stopped
  BY <1>1, <1>2, AheadStops DEF Stopped
<1>3. CASE ~Stopped
  <2>1. /\ Len(output) \in Nat /\ Len(output) > 0 /\ Len(output') = Len(output) - 1
        /\ output[1] \in Commands /\ output' \in Seq(Commands)
        /\ \A i \in 1..(Len(output) - 1) : output'[i] = output[i + 1]
    BY <1>1, OneLess
  <2>2. /\ buffered = <<>> /\ ~closed /\ typed \in Seq(Keys)
        /\ \A i \in 1..Pending : output[i] \in Addresses
    BY <1>3 DEF AheadInv
  <2>3. Pending' = Pending - 1 /\ Pending \in Int /\ Pending <= Len(output)
    BY <1>1, <2>1 DEF Pending
  <2>4. \A i \in 1..Pending' : output'[i] \in Addresses
    <3> TAKE i \in 1..Pending'
    <3>1. i + 1 \in 1..Pending /\ i \in 1..(Len(output) - 1)
      BY <2>1, <2>3
    <3> QED BY <2>1, <2>2, <3>1
  <2>5. ASSUME Pending > 0 PROVE AheadInv'
    <3>1. output[1] \in Addresses
      BY <2>2, <2>3, <2>5
    <3>2. input' = input
      BY <3>1, ObeyedMotion
    <3>3. pc = "await" => output' # <<>> /\ output'[Len(output')] = output[Len(output)]
      <4> HAVE pc = "await"
      <4>1. Len(output) > 1
        BY <2>1, <2>5 DEF Pending
      <4>2. output'[Len(output')] = output[Len(output)]
        BY <2>1, <4>1
      <4> QED BY <2>1, <4>1, <4>2, EmptyText
    <3> QED BY <1>1, <1>3, <2>2, <2>4, <3>2, <3>3 DEF AheadInv, Stopped
  <2>6. ASSUME Pending <= 0 PROVE AheadInv'
    <3>1. pc = "await" /\ Len(output) = 1
      BY <2>1, <2>6 DEF Pending
    <3>2. output[1] = User7 /\ input \in Seq(Keys)
      BY <1>1, <1>3, <3>1 DEF AheadInv
    <3>3. input' = input \o Answer(at) /\ at \in Spot
      BY <3>2, ObeyedRequest DEF Faultless
    <3>4. /\ Answer(at) \in Seq(Byte) /\ Len(Answer(at)) = 5
          /\ \A i \in 1..5 : Answer(at)[i] = User6[6] <=> i = 5
      BY <3>3, AnswerType
    <3> DEFINE m == Len(input)
    <3>5. /\ m \in Nat /\ Len(input') = m + 5
          /\ \A i \in 1..m : input'[i] = input[i]
          /\ \A i \in 1..5 : input'[m + i] = Answer(at)[i]
      <4>1. input \in Seq(Byte) /\ Answer(at) \in Seq(Byte)
        BY <3>4 DEF Typed
      <4>2. Len(input \o Answer(at)) = Len(input) + Len(Answer(at))
        BY <4>1, Joined
      <4>3. \A i \in 1..Len(input) : (input \o Answer(at))[i] = input[i]
        BY <4>1, Joined
      <4>4. \A i \in 1..Len(Answer(at)) : (input \o Answer(at))[Len(input) + i] = Answer(at)[i]
        BY <4>1, Joined
      <4> QED BY <3>3, <3>4, <4>1, <4>2, <4>3, <4>4, LenProperties
    <3>6. \A i \in 1..m : input[i] # User6[6]
      BY <3>2, ElementOfSeq, KeyIsNoEnd
    <3> HIDE DEF m
    <3>7. EndAt(input', m + 5)
      <4>1. ASSUME NEW i \in 1..Len(input'), i < m + 5 PROVE input'[i] # User6[6]
        <5>1. CASE i <= m
          BY <3>5, <3>6, <5>1
        <5>2. CASE i > m
          <6>1. (i - m) \in 1..5 /\ (i - m) # 5 /\ m + (i - m) = i
            BY <3>5, <4>1, <5>2
          <6> QED BY <3>4, <3>5, <6>1
        <5> QED BY <3>5, <5>1, <5>2
      <4>2. input'[m + 5] = User6[6]
        BY <3>4, <3>5
      <4>3. ~ \E i \in 1..Len(input') : i > m + 5
        BY <3>5
      <4> QED BY <4>1, <4>2, <4>3 DEF EndAt
    <3>8. m + 5 \in 0..Len(input')
      BY <3>5
    <3>9. output' = <<>>
      BY <2>1, <3>1, EmptySeq
    <3> QED BY <1>1, <2>2, <2>4, <3>1, <3>7, <3>8, <3>9 DEF AheadInv
  <2> QED BY <2>3, <2>5, <2>6
<1> QED BY <1>2, <1>3

LEMMA TypeAhead == XtermStrings /\ Typed /\ AheadInv /\ Type => AheadInv'
<1> SUFFICES ASSUME XtermStrings, Typed, AheadInv, Type PROVE AheadInv'
  OBVIOUS
<1>1. UNCHANGED <<pc, buffered, output, closed, typed>>
  BY DEF Type
<1>2. PICK key \in Keys : input' = Append(input, key)
  BY DEF Type, Keys
<1>3. input \in Seq(Byte) /\ Len(input) \in Nat
  BY LenProperties DEF Typed
<1>4. /\ Len(input') = Len(input) + 1 /\ input'[Len(input) + 1] = key
      /\ \A i \in 1..Len(input) : input'[i] = input[i]
  BY <1>2, <1>3, KeysAreBytes, AppendProperties
<1>5. input \in Seq(Keys) => input' \in Seq(Keys)
  BY <1>2, AppendProperties
<1>6. \A k \in 0..Len(input) : EndAt(input, k) => EndAt(input', k)
  <2> TAKE k \in 0..Len(input)
  <2> HAVE EndAt(input, k)
  <2>1. \A i \in 1..Len(input') : i < k => input'[i] # User6[6]
    BY <1>3, <1>4 DEF EndAt
  <2>2. k > 0 => input'[k] = User6[6]
    BY <1>3, <1>4 DEF EndAt
  <2>3. \A i \in 1..Len(input') : i > k => input'[i] \in Keys
    <3> TAKE i \in 1..Len(input')
    <3> HAVE i > k
    <3>1. CASE i = Len(input) + 1
      BY <1>2, <1>4, <3>1
    <3>2. CASE i # Len(input) + 1
      <4>1. i \in 1..Len(input)
        BY <1>3, <1>4, <3>2
      <4> QED BY <1>4, <4>1 DEF EndAt
    <3> QED BY <3>1, <3>2
  <2> QED BY <2>1, <2>2, <2>3 DEF EndAt
<1>7. \A k \in 0..Len(input) : k \in 0..Len(input')
  BY <1>3, <1>4
<1>8. Pending' = Pending /\ (Stopped' <=> Stopped)
  BY <1>1 DEF Pending, Stopped
<1> QED BY <1>1, <1>5, <1>6, <1>7, <1>8 DEF AheadInv

LEMMA RestAhead == AheadInv /\ (Resize \/ UNCHANGED vars) => AheadInv'
<1> SUFFICES ASSUME AheadInv, Resize \/ UNCHANGED vars PROVE AheadInv'
  OBVIOUS
<1>1. UNCHANGED <<pc, buffered, output, input, closed, typed>>
  BY DEF Resize, vars, channel, bounds
<1> QED BY <1>1 DEF AheadInv, Pending, Stopped

(* The loop and a redraw come after init. *)
BegunInv == pc \in {"idle", "redraw", "draw"} => begun

LEMMA BegunNext == Typed /\ BegunInv /\ [Next]_vars => BegunInv'
<1> SUFFICES ASSUME Typed, BegunInv, [Next]_vars PROVE BegunInv'
  OBVIOUS
<1>1. CASE UNCHANGED <<pc, begun>>
  BY <1>1 DEF BegunInv
<1>2. CASE pc' \in {"request", "await", "parse", "failed", "lost"}
  BY <1>2 DEF BegunInv
<1>3. CASE Finish
  BY <1>3 DEF Finish, BegunInv
<1>4. CASE UNCHANGED begun /\ pc \in {"idle", "redraw", "draw"}
  BY <1>4 DEF BegunInv
<1>5. CASE QuerySize
  BY <1>2, <1>3, <1>5 DEF QuerySize, Ask
<1>6. CASE GiveUp
  BY <1>2, <1>3, <1>6 DEF GiveUp
<1>7. CASE QueryFails
  BY <1>5, <1>6, <1>7 DEF QueryFails
<1>8. CASE Request \/ ReadReport \/ Interrupted
  BY <1>2, <1>7, <1>8 DEF Request, ReadReport, Strayed, Interrupted
<1>9. CASE Answered
  <2>1. \A pos : GotCursor(pos) \/ GotSaved(pos) \/ GotEnd(pos) => BegunInv'
    <3> TAKE pos
    <3>1. CASE GotCursor(pos)
      BY <1>5, <3>1 DEF GotCursor
    <3>2. CASE GotSaved(pos)
      BY <1>2, <1>6, <3>2 DEF GotSaved, Ask
    <3>3. CASE GotEnd(pos)
      BY <1>3, <1>6, <3>3 DEF GotEnd
    <3> QED BY <3>1, <3>2, <3>3
  <2> QED BY <1>2, <1>9, <2>1 DEF Answered
<1>10. CASE ReadKeys \/ Redraw \/ Draw \/ DrawNowhere
  BY <1>4, <1>10 DEF ReadKeys, Redraw, Draw, DrawNowhere
<1>11. CASE Obey \/ Resize \/ Type \/ UNCHANGED vars
  BY <1>1, <1>11 DEF Obey, Resize, Type, vars
<1> QED BY <1>8, <1>9, <1>10, <1>11 DEF Next, Library

LEMMA AheadNext ==
  XtermStrings /\ Faultless /\ Typed /\ BegunInv /\ AheadInv /\ [Next]_vars => AheadInv'
<1> SUFFICES ASSUME XtermStrings, Faultless, Typed, BegunInv, AheadInv, [Next]_vars PROVE AheadInv'
  OBVIOUS
<1>1. CASE Library
  <2>1. (ReadKeys => begun) /\ (Draw => begun)
    BY DEF ReadKeys, Draw, BegunInv
  <2> QED BY <1>1, <2>1, RequestAhead, ReadReportAhead, AnsweredAhead, ReadKeysAhead, RedrawAhead,
             DrawAhead DEF Library
<1>2. CASE Interrupted
  BY <1>2, NoFault DEF Interrupted
<1>3. CASE Obey
  BY <1>3, ObeyAhead
<1>4. CASE Type
  BY <1>4, TypeAhead
<1>5. CASE Resize \/ UNCHANGED vars
  BY <1>5, RestAhead
<1> QED BY <1>1, <1>2, <1>3, <1>4, <1>5 DEF Next

(* Faults and what crossed a query are never forgotten. *)
LEMMA HistoryGrows ==
  ASSUME faults \in Nat, crossed \in BOOLEAN, [Next]_vars
  PROVE  /\ faults' \in {faults, faults + 1}
         /\ crossed' \in BOOLEAN /\ (crossed => crossed')
<1>1. \A c : Sent(c) \/ Unsent(c) => faults' \in {faults, faults + 1}
  BY DEF Sent, Unsent, Fault
<1>2. \A p : MoveCursor2d(p) \/ MoveFails(p) \/ MoveLate(p) => faults' \in {faults, faults + 1}
  BY <1>1 DEF MoveCursor2d, MoveFails, MoveLate, Fault
<1>3. faults' \in {faults, faults + 1}
  <2>1. CASE Request
    BY <1>1, <2>1 DEF Request
  <2>2. CASE Answered
    <3>1. \A p : GotCursor(p) \/ GotSaved(p) \/ GotEnd(p) => faults' \in {faults, faults + 1}
      BY <1>2 DEF GotCursor, GotSaved, GotEnd
    <3> QED BY <2>2, <3>1 DEF Answered
  <2>3. CASE ReadKeys
    BY <1>2, <2>3 DEF ReadKeys
  <2>4. CASE Draw
    BY <1>2, <2>4 DEF Draw
  <2>5. CASE Interrupted
    BY <2>5 DEF Interrupted, Fault
  <2>6. CASE ReadReport \/ Redraw \/ DrawNowhere \/ Obey \/ Resize \/ Type \/ UNCHANGED vars
    BY <2>6 DEF ReadReport, Redraw, DrawNowhere, Obey, Resize, Type, vars
  <2> QED BY <2>1, <2>2, <2>3, <2>4, <2>5, <2>6 DEF Next, Library
<1>4. crossed' \in BOOLEAN /\ (crossed => crossed')
  <2>1. CASE Resize \/ Type
    BY <2>1 DEF Resize, Type
  <2>2. CASE UNCHANGED crossed
    BY <2>2
  <2>3. CASE Request \/ ReadReport \/ Answered \/ Interrupted \/ Redraw \/ DrawNowhere \/ Draw \/ Obey
    BY <2>2, <2>3 DEF Request, ReadReport, Answered, Interrupted, Redraw, DrawNowhere, Draw, Obey, bounds
  <2>4. CASE ReadKeys \/ UNCHANGED vars
    BY <2>2, <2>4 DEF ReadKeys, vars, bounds
  <2> QED BY <2>1, <2>3, <2>4 DEF Next, Library
<1> QED BY <1>3, <1>4

(* What holds always, and what holds until the first fault. *)
Ever == Typed /\ BegunInv /\ faults \in Nat /\ crossed \in BOOLEAN

LEMMA AheadAlways ==
  ASSUME XtermStrings, ~Pipe
  PROVE  Spec => [](Ever /\ (faults = 0 => AheadInv))
<1>1. Init => Ever /\ AheadInv
  <2> SUFFICES ASSUME Init PROVE Ever /\ AheadInv
    OBVIOUS
  <2>1. pc = "request" /\ faults = 0 /\ crossed = FALSE
    BY DEF Init
  <2>2. Typed /\ AheadInv
    BY TypedInit, AheadInit
  <2> QED BY <2>1, <2>2 DEF BegunInv, Ever
<1>2. Ever /\ (faults = 0 => AheadInv) /\ [Next]_vars => (Ever /\ (faults = 0 => AheadInv))'
  <2> SUFFICES ASSUME Ever, faults = 0 => AheadInv, [Next]_vars
               PROVE  Ever' /\ (faults' = 0 => AheadInv')
    OBVIOUS
  <2>1. faults' \in {faults, faults + 1} /\ crossed' \in BOOLEAN /\ faults \in Nat
    BY HistoryGrows DEF Ever
  <2>2. Ever'
    BY <2>1, TypedNext, BegunNext DEF Ever
  <2>3. ASSUME faults' = 0 PROVE AheadInv'
    <3>1. faults = 0 /\ Faultless
      BY <2>1, <2>3 DEF Faultless
    <3> QED BY <3>1, AheadNext DEF Ever
  <2> QED BY <2>2, <2>3
<1> QED BY <1>1, <1>2, PTL DEF Spec

(* Until a write fails or a read is interrupted, reads of any size take a      *)
(* report off the input whole, whatever keys are in the channel before and     *)
(* behind it and whenever the window is resized: no byte of it comes to the    *)
(* key tree as if the user had typed it.                                       *)
THEOREM ReportsAreNotTyped ==
  ASSUME XtermStrings, ~Pipe
  PROVE  Spec => []ReportNotTyped
<1>1. (faults = 0 => AheadInv) => ReportNotTyped
  BY ElementOfSeq DEF AheadInv, ReportNotTyped, Keys
<1> QED BY <1>1, AheadAlways, PTL

-----------------------------------------------------------------------------
(* How often a byte or a command occurs *)

Where(s, c) == {i \in 1..Len(s) : s[i] = c}
Count(s, c) == Cardinality(Where(s, c))

LEMMA CountType ==
  ASSUME NEW S, NEW s \in Seq(S), NEW c
  PROVE  IsFiniteSet(Where(s, c)) /\ Count(s, c) \in Nat
<1>1. IsFiniteSet(1..Len(s))
  <2>1. Len(s) \in Int
    BY LenProperties
  <2> QED BY <2>1, FS_Interval
<1>2. Where(s, c) \in SUBSET (1..Len(s))
  BY DEF Where
<1>3. IsFiniteSet(Where(s, c))
  BY <1>1, <1>2, FS_Subset
<1> QED BY <1>3, FS_CardinalityType DEF Count

LEMMA CountNone ==
  ASSUME NEW s, NEW c, \A i \in 1..Len(s) : s[i] # c
  PROVE  Count(s, c) = 0
<1>1. Where(s, c) = {}
  BY DEF Where
<1> QED BY <1>1, FS_EmptySet DEF Count

LEMMA CountOne ==
  ASSUME NEW S, NEW c \in S, NEW d \in S
  PROVE  Count(<<d>>, c) = IF d = c THEN 1 ELSE 0
<1>1. Len(<<d>>) = 1 /\ <<d>>[1] = d
  OBVIOUS
<1>2. CASE d = c
  <2>1. Where(<<d>>, c) = {1}
    BY <1>1, <1>2 DEF Where
  <2> QED BY <1>2, <2>1, FS_Singleton DEF Count
<1>3. CASE d # c
  <2>1. \A i \in 1..Len(<<d>>) : <<d>>[i] # c
    BY <1>1, <1>3
  <2> QED BY <1>3, <2>1, CountNone
<1> QED BY <1>2, <1>3

(* Two texts, one behind the other, have what both have. *)
LEMMA CountJoined ==
  ASSUME NEW S, NEW s \in Seq(S), NEW t \in Seq(S), NEW c
  PROVE  Count(s \o t, c) = Count(s, c) + Count(t, c)
<1> DEFINE m == Len(s)
           n == Len(t)
           j == s \o t
           A == Where(s, c)
           B == Where(t, c)
           Moved == {i \in (m + 1)..(m + n) : j[i] = c}
           move == [i \in B |-> m + i]
<1>1. m \in Nat /\ n \in Nat
  BY LenProperties
<1>2. /\ Len(j) = m + n
      /\ \A i \in 1..m : j[i] = s[i]
      /\ \A i \in 1..n : j[m + i] = t[i]
  <2>1. Len(j) = m + n
    BY Joined
  <2>2. \A i \in 1..m : j[i] = s[i]
    BY Joined
  <2>3. \A i \in 1..n : j[m + i] = t[i]
    BY Joined
  <2> QED BY <2>1, <2>2, <2>3
<1>3. A = {i \in 1..m : s[i] = c} /\ B = {i \in 1..n : t[i] = c} /\ Where(j, c) = {i \in 1..Len(j) : j[i] = c}
  BY DEF Where
<1>4. /\ IsFiniteSet(A) /\ Cardinality(A) \in Nat /\ Cardinality(A) = Count(s, c)
      /\ IsFiniteSet(B) /\ Cardinality(B) \in Nat /\ Cardinality(B) = Count(t, c)
  BY CountType DEF Count
<1>5. Cardinality(Where(j, c)) = Count(s \o t, c)
  BY DEF Count
<1> HIDE DEF m, n, j, A, B
<1>6. Where(j, c) = A \cup Moved
  <2>1. ASSUME NEW i \in Where(j, c) PROVE i \in A \cup Moved
    <3>1. i \in 1..(m + n) /\ j[i] = c
      BY <1>2, <1>3
    <3>2. CASE i \in 1..m
      BY <1>2, <1>3, <3>1, <3>2
    <3>3. CASE i \notin 1..m
      BY <1>1, <3>1, <3>3
    <3> QED BY <3>2, <3>3
  <2>2. ASSUME NEW i \in A \cup Moved PROVE i \in Where(j, c)
    <3>1. CASE i \in A
      BY <1>1, <1>2, <1>3, <3>1
    <3>2. CASE i \in Moved
      BY <1>1, <1>2, <1>3, <3>2
    <3> QED BY <3>1, <3>2, <2>2
  <2> QED BY <2>1, <2>2
<1>7. A \cap Moved = {}
  BY <1>1, <1>3
<1>8. ExistsBijection(B, Moved)
  <2>1. move \in [B -> Moved]
    <3>1. \A i \in B : m + i \in (m + 1)..(m + n) /\ j[m + i] = c
      BY <1>1, <1>2, <1>3
    <3> QED BY <3>1
  <2>2. \A a, b \in B : move[a] = move[b] => a = b
    BY <1>1, <1>3
  <2>3. \A x \in Moved : \E i \in B : move[i] = x
    <3> TAKE x \in Moved
    <3>1. x - m \in 1..n /\ m + (x - m) = x
      BY <1>1
    <3>2. t[x - m] = j[m + (x - m)]
      BY <1>2, <3>1
    <3>3. x - m \in B
      BY <1>3, <3>1, <3>2
    <3> QED BY <3>1, <3>3
  <2> HIDE DEF move, Moved
  <2>4. move \in Injection(B, Moved)
    BY <2>1, <2>2 DEF Injection, IsInjective
  <2>5. move \in Surjection(B, Moved)
    BY <2>1, <2>3 DEF Surjection
  <2>6. move \in Bijection(B, Moved)
    BY <2>4, <2>5 DEF Bijection
  <2> QED BY <2>6 DEF ExistsBijection
<1> HIDE DEF Moved
<1>9. IsFiniteSet(Moved) /\ Cardinality(Moved) = Cardinality(B)
  BY <1>4, <1>8, FS_Bijection
<1>10. Cardinality(A \cup Moved) = Cardinality(A) + Cardinality(Moved) - Cardinality({})
  BY <1>4, <1>7, <1>9, FS_Union
<1>11. Cardinality({}) = 0
  BY FS_EmptySet
<1> QED BY <1>4, <1>5, <1>6, <1>9, <1>10, <1>11

LEMMA CountAppended ==
  ASSUME NEW S, NEW s \in Seq(S), NEW d \in S, NEW c \in S
  PROVE  Count(Append(s, d), c) = Count(s, c) + (IF d = c THEN 1 ELSE 0)
<1>1. Append(s, d) = s \o <<d>> /\ <<d>> \in Seq(S)
  BY AppendIsConcat
<1>2. Count(s \o <<d>>, c) = Count(s, c) + Count(<<d>>, c)
  BY <1>1, CountJoined
<1> QED BY <1>1, <1>2, CountOne

LEMMA CountTail ==
  ASSUME NEW S, NEW s \in Seq(S), s # <<>>, NEW c \in S
  PROVE  Count(s, c) = Count(Tail(s), c) + (IF Head(s) = c THEN 1 ELSE 0)
<1>1. Head(s) \in S /\ Tail(s) \in Seq(S)
  BY HeadTailProperties
<1>2. <<Head(s)>> \in Seq(S) /\ s = <<Head(s)>> \o Tail(s)
  <2> DEFINE h == <<Head(s)>>
             t == Tail(s)
  <2>1. h \in Seq(S) /\ Len(h) = 1 /\ h[1] = s[1]
    BY <1>1
  <2>2. Len(s) \in Nat /\ Len(t) = Len(s) - 1 /\ \A i \in 1..Len(t) : t[i] = s[i + 1]
    BY LenProperties, HeadTailProperties
  <2>3. t \in Seq(S)
    BY <1>1
  <2> HIDE DEF h, t
  <2>0. h \in Seq(S) /\ t \in Seq(S)
    BY <2>1, <2>3
  <2>4. h \o t \in Seq(S) /\ Len(h \o t) = Len(s)
    <3>1. h \o t \in Seq(S)
      BY <2>0, Joined
    <3>2. Len(h \o t) = Len(h) + Len(t)
      BY <2>0, Joined
    <3> QED BY <2>1, <2>2, <3>1, <3>2
  <2>5. (h \o t)[1] = s[1]
    <3>1. \A i \in 1..Len(h) : (h \o t)[i] = h[i]
      BY <2>0, Joined
    <3>2. 1 \in 1..Len(h) /\ h[1] = s[1]
      BY <2>1
    <3> QED BY <3>1, <3>2
  <2>6. \A i \in 1..Len(t) : (h \o t)[1 + i] = s[1 + i]
    <3>1. \A i \in 1..Len(t) : (h \o t)[Len(h) + i] = t[i]
      BY <2>0, Joined
    <3>2. Len(h) = 1
      BY <2>1
    <3>3. \A i \in 1..Len(t) : (h \o t)[1 + i] = t[i]
      BY <3>1, <3>2
    <3>4. \A i \in 1..Len(t) : t[i] = s[1 + i]
      BY <2>2
    <3> QED BY <3>3, <3>4
  <2>7. \A i \in 1..Len(s) : (h \o t)[i] = s[i]
    <3> TAKE i \in 1..Len(s)
    <3>1. CASE i = 1
      BY <2>5, <3>1
    <3>2. CASE i # 1
      <4>1. i - 1 \in 1..Len(t) /\ 1 + (i - 1) = i
        BY <2>2, <3>2
      <4> QED BY <2>6, <4>1
    <3> QED BY <3>1, <3>2
  <2>8. h \o t = s
    BY <2>4, <2>7, SeqEqual
  <2> QED BY <2>1, <2>8 DEF h, t
<1>3. Count(s, c) = Count(<<Head(s)>>, c) + Count(Tail(s), c)
  <2> DEFINE h == <<Head(s)>>
             t == Tail(s)
  <2>1. h \in Seq(S) /\ t \in Seq(S) /\ s = h \o t
    BY <1>1, <1>2
  <2> HIDE DEF h, t
  <2>2. Count(h \o t, c) = Count(h, c) + Count(t, c)
    BY <2>1, CountJoined
  <2>3. Count(s, c) = Count(h, c) + Count(t, c)
    BY <2>1, <2>2
  <2> QED BY <2>3 DEF h, t
<1>4. Count(<<Head(s)>>, c) = IF Head(s) = c THEN 1 ELSE 0
  BY <1>1, CountOne
<1>5. Count(Tail(s), c) \in Nat
  BY <1>1, CountType
<1> QED BY <1>3, <1>4, <1>5

-----------------------------------------------------------------------------
(* Whatever comes between a query and its answer: every report has its       *)
(* request, and every request that nobody waits for its fault                *)

End == User6[6]

Reports  == Count(typed, End) + Count(input, End)
Requests == Count(output, User7) + Count(buffered, User7)
Awaited  == IF pc \in {"await", "lost"} THEN 1 ELSE 0

CountInv ==
  /\ closed = FALSE
  /\ faults \in Nat
  /\ Reports + Requests <= faults + Awaited
  /\ Count(typed, End) <= faults

LEMMA CountTypes ==
  ASSUME Typed
  PROVE  /\ Count(typed, End) \in Nat /\ Count(input, End) \in Nat
         /\ Count(output, User7) \in Nat /\ Count(buffered, User7) \in Nat
         /\ Reports \in Nat /\ Requests \in Nat /\ Awaited \in {0, 1}
<1>1. Count(typed, End) \in Nat /\ Count(input, End) \in Nat
  BY CountType DEF Typed
<1>2. Count(output, User7) \in Nat /\ Count(buffered, User7) \in Nat
  BY CountType DEF Typed
<1> QED BY <1>1, <1>2 DEF Reports, Requests, Awaited

LEMMA EndIsByte == End \in Byte /\ User7 \in Commands
BY DEF End, Byte, Commands

LEMMA CountInit == XtermStrings /\ ~Pipe /\ Init => CountInv
<1> SUFFICES ASSUME XtermStrings, ~Pipe, Init PROVE CountInv
  OBVIOUS
<1>1. typed = <<>> /\ output = <<>> /\ buffered = <<>> /\ closed = FALSE /\ faults = 0 /\ pc = "request"
  BY DEF Init
<1>2. input \in Seq(Keys)
  BY QueryAssumption DEF Init, Keys
<1>3. Count(input, End) = 0
  <2>1. \A i \in 1..Len(input) : input[i] # End
    BY <1>2, ElementOfSeq, KeyIsNoEnd DEF End
  <2> QED BY <2>1, CountNone
<1>4. Count(<<>>, End) = 0 /\ Count(<<>>, User7) = 0
  BY EmptyText, CountNone
<1>5. Reports = 0 /\ Requests = 0 /\ Count(typed, End) = 0
  BY <1>1, <1>3, <1>4 DEF Reports, Requests
<1> QED BY <1>1, <1>5 DEF CountInv, Awaited

(* A command that is written adds itself, one way or the other. *)
LEMMA FlushedCount ==
  ASSUME Typed, NEW c \in Commands, Flushed(c)
  PROVE  Requests' = Requests + (IF c = User7 THEN 1 ELSE 0)
<1>1. buffered \in Seq(Commands) /\ output \in Seq(Commands) /\ Append(buffered, c) \in Seq(Commands)
  BY WriteType DEF Typed
<1>2. output' = output \o Append(buffered, c) /\ buffered' = <<>>
  BY DEF Flushed
<1>3. Count(output', User7) = Count(output, User7) + Count(Append(buffered, c), User7)
  BY <1>1, <1>2, CountJoined
<1>4. Count(Append(buffered, c), User7) = Count(buffered, User7) + (IF c = User7 THEN 1 ELSE 0)
  BY <1>1, EndIsByte, CountAppended
<1>5. Count(buffered', User7) = 0
  BY <1>2, EmptyText, CountNone
<1> QED BY <1>3, <1>4, <1>5, CountTypes DEF Requests

LEMMA UnsentCount ==
  ASSUME Typed, NEW c \in Commands, Unsent(c)
  PROVE  Requests' = Requests + (IF c = User7 THEN 1 ELSE 0)
<1>1. buffered \in Seq(Commands)
  BY DEF Typed
<1>2. output' = output /\ buffered' = Append(buffered, c)
  BY DEF Unsent
<1>3. Count(buffered', User7) = Count(buffered, User7) + (IF c = User7 THEN 1 ELSE 0)
  BY <1>1, <1>2, EndIsByte, CountAppended
<1> QED BY <1>2, <1>3, CountTypes DEF Requests

(* A motion brings no request. *)
LEMMA MotionCount ==
  ASSUME XtermStrings, Typed, faults \in Nat, NEW p \in Coordinates,
         MoveCursor2d(p) \/ MoveFails(p) \/ MoveLate(p)
  PROVE  Requests' = Requests /\ faults' \in Nat /\ faults' >= faults
<1>1. Command(p) \in Commands /\ Command(p) # User7
  BY CommandIs DEF Commands
<1>2. Requests \in Nat
  BY CountTypes
<1>3. CASE Flushed(Command(p))
  BY <1>1, <1>2, <1>3, FlushedCount DEF MoveCursor2d, Sent, MoveFails, MoveLate, Unsent, Fault
<1>4. CASE Unsent(Command(p))
  BY <1>1, <1>2, <1>4, UnsentCount DEF Unsent, Fault
<1> QED BY <1>3, <1>4 DEF MoveCursor2d, Sent, MoveFails, MoveLate

LEMMA QuerySizeEnds == QuerySize \/ QueryFails => pc' \notin {"await", "lost"}
BY DEF QuerySize, QueryFails, GiveUp, Finish, Ask

LEMMA RequestCount == XtermStrings /\ Typed /\ CountInv /\ Request => CountInv'
<1> SUFFICES ASSUME XtermStrings, Typed, CountInv, Request PROVE CountInv'
  OBVIOUS
<1>1. pc = "request" /\ UNCHANGED <<input, closed, typed>>
  BY DEF Request, bounds
<1>2. Reports' = Reports /\ Awaited = 0
  BY <1>1 DEF Reports, Awaited
<1>3. CASE Sent(User7) /\ pc' = "await"
  <2>1. Requests' = Requests + 1 /\ faults' = faults
    BY <1>3, EndIsByte, FlushedCount DEF Sent
  <2>2. Awaited' = 1
    BY <1>3 DEF Awaited
  <2> QED BY <1>1, <1>2, <2>1, <2>2, CountTypes DEF CountInv
<1>4. CASE Unsent(User7) /\ QueryFails
  <2>1. Requests' = Requests + 1 /\ faults' = faults + 1
    BY <1>4, EndIsByte, UnsentCount DEF Unsent, Fault
  <2>2. Awaited' = 0
    BY <1>4, QuerySizeEnds DEF Awaited
  <2> QED BY <1>1, <1>2, <2>1, <2>2, CountTypes DEF CountInv
<1> QED BY <1>3, <1>4 DEF Request

(* What a read takes of the input. *)
LEMMA CutCount ==
  ASSUME Typed, NEW n \in 0..Len(input)
  PROVE  /\ Count(input, End) = Count(Upto(input, n), End) + Count(Beyond(input, n), End)
         /\ Count(Upto(input, n), End) \in Nat /\ Count(Beyond(input, n), End) \in Nat
<1>1. /\ Upto(input, n) \in Seq(Byte) /\ Beyond(input, n) \in Seq(Byte)
      /\ Upto(input, n) \o Beyond(input, n) = input
  BY ReadType
<1>2. \A s, t \in Seq(Byte) : Count(s \o t, End) = Count(s, End) + Count(t, End)
  BY CountJoined
<1>3. Count(Upto(input, n) \o Beyond(input, n), End)
        = Count(Upto(input, n), End) + Count(Beyond(input, n), End)
  BY <1>1, <1>2
<1>4. Count(Upto(input, n), End) \in Nat
  BY <1>1, CountType
<1>5. Count(Beyond(input, n), End) \in Nat
  BY <1>1, CountType
<1> QED BY <1>1, <1>3, <1>4, <1>5

(* A read that ends a query takes a report. *)
LEMMA ReadReportCount == XtermStrings /\ Typed /\ CountInv /\ ReadReport => CountInv'
<1> SUFFICES ASSUME XtermStrings, Typed, CountInv, ReadReport PROVE CountInv'
  OBVIOUS
<1>1. pc = "await" /\ UNCHANGED <<buffered, output, closed, typed, faults>>
  BY DEF ReadReport, bounds
<1>2. PICK n \in Readable : res_buf' = res_buf \o Upto(input, n) /\ input' = Beyond(input, n)
  BY DEF ReadReport, Upto, Beyond
<1>3. Len(input) \in Nat /\ Len(res_buf) \in Nat /\ res_buf \in Seq(Byte)
  BY LenProperties DEF Typed
<1>4. n \in 1..Len(input) /\ n \in 0..Len(input)
  <2>1. ~closed
    BY DEF CountInv
  <2>2. n \in 0..Len(input)
    BY <1>2, ReadableCount
  <2>3. n >= 1
    BY <1>2, <1>3, <2>1, QueryAssumption DEF Readable, Min2
  <2> QED BY <2>2, <2>3
<1> DEFINE head == Upto(input, n)
           rest == Beyond(input, n)
<1>5. head \in Seq(Byte) /\ Len(head) = n
  BY <1>4, ReadType
<1>6. /\ Count(input, End) = Count(head, End) + Count(rest, End)
      /\ Count(head, End) \in Nat /\ Count(rest, End) \in Nat
  BY <1>4, CutCount
<1>7. res_buf' = res_buf \o head /\ input' = rest
  BY <1>2
<1> HIDE DEF head, rest
<1>8. res_buf' # <<>> /\ Last(res_buf') = head[n]
  <2>1. \A i \in 1..Len(head) : (res_buf \o head)[Len(res_buf) + i] = head[i]
    BY <1>3, <1>5, Joined
  <2>2. Len(res_buf \o head) = Len(res_buf) + Len(head)
    BY <1>3, <1>5, Joined
  <2>3. Len(res_buf') = Len(res_buf) + n /\ res_buf'[Len(res_buf) + n] = head[n]
    BY <1>4, <1>5, <1>7, <2>1, <2>2
  <2>4. Len(res_buf') # 0
    BY <1>3, <1>4, <2>3
  <2> QED BY <2>3, <2>4, EmptyText DEF Last
<1>9. CASE pc' \in {"await", "lost"}
  <2>1. Awaited' = 1 /\ Awaited = 1 /\ Requests' = Requests
    BY <1>1, <1>9 DEF Awaited, Requests
  <2>2. Reports' <= Reports
    BY <1>1, <1>6, <1>7, CountTypes DEF Reports
  <2>3. Reports' \in Nat
    BY <1>1, <1>6, <1>7, CountTypes DEF Reports
  <2> QED BY <1>1, <2>1, <2>2, <2>3, CountTypes DEF CountInv
<1>10. CASE pc' \notin {"await", "lost"}
  <2>0. Strayed(res_buf') \subseteq {"lost"}
    BY <1>8 DEF Strayed
  <2>1. Complete(res_buf')
    BY <1>10, <2>0 DEF ReadReport
  <2>2. head[n] = End
    BY <1>8, <2>1, ReportIs DEF Complete, End
  <2>3. Count(head, End) # 0
    <3>1. n \in Where(head, End)
      BY <1>4, <1>5, <2>2 DEF Where
    <3>2. IsFiniteSet(Where(head, End))
      BY <1>5, CountType
    <3> QED BY <3>1, <3>2, FS_EmptySet DEF Count
  <2>4. Reports' <= Reports - 1 /\ Reports' \in Nat
    BY <1>1, <1>6, <1>7, <2>3, CountTypes DEF Reports
  <2>5. Awaited' = 0 /\ Awaited = 1 /\ Requests' = Requests
    BY <1>1, <1>10 DEF Awaited, Requests
  <2> QED BY <1>1, <2>4, <2>5, CountTypes DEF CountInv
<1> QED BY <1>9, <1>10

LEMMA AnsweredCount == XtermStrings /\ Typed /\ CountInv /\ Answered => CountInv'
<1> SUFFICES ASSUME XtermStrings, Typed, CountInv, Answered PROVE CountInv'
  OBVIOUS
<1>1. pc = "parse" /\ UNCHANGED <<input, closed, typed>>
  BY DEF Answered, bounds
<1>2. Reports' = Reports /\ Awaited = 0 /\ Awaited' \in {0, 1}
  BY <1>1 DEF Reports, Awaited
<1>3. Requests' = Requests /\ faults' \in Nat /\ faults' >= faults
  <2>1. CASE UNCHANGED <<buffered, output, faults>>
    BY <2>1 DEF Requests, CountInv
  <2>2. ASSUME NEW p \in Coordinates, MoveCursor2d(p) \/ MoveFails(p)
        PROVE  Requests' = Requests /\ faults' \in Nat /\ faults' >= faults
    BY <2>2, MotionCount DEF CountInv
  <2>3. saved_pos \in Coordinates
    BY DEF Typed
  <2>4. \A pos : GotCursor(pos) => UNCHANGED <<buffered, output, faults>>
    BY DEF GotCursor
  <2>5. \A pos : GotSaved(pos) =>
          MoveCursor2d([row |-> Far, col |-> Far]) \/ MoveFails([row |-> Far, col |-> Far])
    BY DEF GotSaved
  <2>6. \A pos : GotEnd(pos) => MoveCursor2d(saved_pos) \/ MoveFails(saved_pos)
    BY DEF GotEnd
  <2> QED BY <2>1, <2>2, <2>3, <2>4, <2>5, <2>6, FarIsPlace, AnsweredPlace
<1> QED BY <1>1, <1>2, <1>3, CountTypes DEF CountInv

(* A query that is given up leaves its report to come. *)
LEMMA InterruptedCount == Typed /\ CountInv /\ Interrupted => CountInv'
<1> SUFFICES ASSUME Typed, CountInv, Interrupted PROVE CountInv'
  OBVIOUS
<1>1. pc = "await" /\ faults' = faults + 1 /\ UNCHANGED <<buffered, output, input, closed, typed>>
  BY DEF Interrupted, Fault, channel, bounds
<1>2. Reports' = Reports /\ Requests' = Requests /\ Awaited = 1
  BY <1>1 DEF Reports, Requests, Awaited
<1>3. Awaited' = 0
  BY QuerySizeEnds DEF Interrupted, Awaited
<1> QED BY <1>1, <1>2, <1>3, CountTypes DEF CountInv

LEMMA ReadKeysCount == XtermStrings /\ Typed /\ CountInv /\ ReadKeys => CountInv'
<1> SUFFICES ASSUME XtermStrings, Typed, CountInv, ReadKeys PROVE CountInv'
  OBVIOUS
<1>1. pc = "idle" /\ closed' = closed
  BY DEF ReadKeys
<1>2. PICK n \in 1..Len(input) :
        /\ typed' = typed \o Upto(input, n)
        /\ input' = Beyond(input, n)
        /\ \/ \E pos \in OnScreen(term_size) :
                MoveCursor2d(pos) \/ (MoveLate(pos) /\ UNCHANGED cursor_pos)
           \/ UNCHANGED <<buffered, output, cursor_pos, faults>>
        /\ pc' \in {"idle", "redraw"}
  BY DEF ReadKeys, Upto, Beyond
<1>3. n \in 0..Len(input)
  OBVIOUS
<1>4. Reports' = Reports /\ Count(typed', End) <= Reports'
  <2>1. typed \in Seq(Byte) /\ Upto(input, n) \in Seq(Byte)
    BY <1>3, ReadType DEF Typed
  <2>2. Count(typed \o Upto(input, n), End) = Count(typed, End) + Count(Upto(input, n), End)
    BY <2>1, CountJoined
  <2>3. /\ Count(input, End) = Count(Upto(input, n), End) + Count(Beyond(input, n), End)
        /\ Count(Upto(input, n), End) \in Nat /\ Count(Beyond(input, n), End) \in Nat
    BY <1>3, CutCount
  <2>4. Reports' = Reports
    BY <1>2, <2>2, <2>3, CountTypes DEF Reports
  <2>5. Count(typed', End) <= Reports'
    BY <1>2, <2>2, <2>3, CountTypes DEF Reports
  <2> QED BY <2>4, <2>5
<1>5. Requests' = Requests /\ faults' \in Nat /\ faults' >= faults
  <2>1. CASE UNCHANGED <<buffered, output, faults>>
    BY <2>1 DEF Requests, CountInv
  <2>2. CASE \E pos \in OnScreen(term_size) : MoveCursor2d(pos) \/ MoveLate(pos)
    <3>1. OnScreen(term_size) \subseteq Coordinates
      BY ScreenType DEF Typed
    <3> QED BY <2>2, <3>1, MotionCount DEF CountInv
  <2> QED BY <1>2, <2>1, <2>2
<1>6. Awaited' = 0 /\ Awaited = 0
  BY <1>1, <1>2 DEF Awaited
<1>7. Reports' + Requests' <= faults'
  BY <1>4, <1>5, <1>6, CountTypes DEF CountInv
<1>8. Reports' \in Nat /\ Requests' \in Nat
  BY <1>4, <1>5, CountTypes
<1>9. Typed'
  BY ReadKeysTyped
<1>10. Count(typed', End) \in Nat
  BY <1>9, CountType DEF Typed
<1>11. Count(typed', End) <= faults'
  BY <1>4, <1>5, <1>7, <1>8, <1>10
<1> QED BY <1>1, <1>5, <1>6, <1>7, <1>11 DEF CountInv

LEMMA RedrawCount == Typed /\ CountInv /\ (Redraw \/ DrawNowhere) => CountInv'
<1> SUFFICES ASSUME Typed, CountInv, Redraw \/ DrawNowhere PROVE CountInv'
  OBVIOUS
<1>1. pc \in {"redraw", "draw"} /\ UNCHANGED <<buffered, output, input, closed, typed, faults>>
  BY DEF Redraw, DrawNowhere, channel, bounds
<1>2. Reports' = Reports /\ Requests' = Requests /\ Awaited = 0 /\ Awaited' \in {0, 1}
  BY <1>1 DEF Reports, Requests, Awaited
<1> QED BY <1>1, <1>2, CountTypes DEF CountInv

LEMMA DrawCount == XtermStrings /\ Typed /\ CountInv /\ Draw => CountInv'
<1> SUFFICES ASSUME XtermStrings, Typed, CountInv, Draw PROVE CountInv'
  OBVIOUS
<1>1. pc = "draw" /\ pc' = "idle" /\ UNCHANGED <<input, closed, typed>>
  BY DEF Draw, bounds
<1>2. PICK pos \in OnScreen(term_size) : MoveCursor2d(pos) \/ MoveLate(pos)
  BY DEF Draw
<1>3. pos \in Coordinates
  BY ScreenType DEF Typed
<1>4. Requests' = Requests /\ faults' \in Nat /\ faults' >= faults
  BY <1>2, <1>3, MotionCount DEF CountInv
<1>5. Reports' = Reports /\ Awaited = 0 /\ Awaited' = 0
  BY <1>1 DEF Reports, Awaited
<1> QED BY <1>1, <1>4, <1>5, CountTypes DEF CountInv

(* A request becomes its report. *)
LEMMA ObeyCount == XtermStrings /\ ~Pipe /\ Typed /\ CountInv /\ Obey => CountInv'
<1> SUFFICES ASSUME XtermStrings, ~Pipe, Typed, CountInv, Obey PROVE CountInv'
  OBVIOUS
<1>1. output # <<>> /\ output' = Tail(output) /\ UNCHANGED <<pc, buffered, closed, typed, faults>>
  BY DEF Obey, bounds
<1>2. output \in Seq(Commands) /\ output[1] \in Commands /\ Head(output) = output[1]
  BY <1>1, OneLess DEF Typed
<1>3. Count(output, User7) = Count(output', User7) + (IF Head(output) = User7 THEN 1 ELSE 0)
  BY <1>1, <1>2, EndIsByte, CountTail
<1>4. Count(output', User7) \in Nat
  <2>1. output' \in Seq(Commands)
    BY <1>1, OneLess
  <2> QED BY <2>1, CountType
<1>5. Awaited' = Awaited
  BY <1>1 DEF Awaited
<1>6. Reports' + Requests' = Reports + Requests
  <2>1. CASE output[1] = User7
    <3>1. input' = input \o Answer(at) /\ at \in Spot
      BY <2>1, ObeyedRequest
    <3>2. /\ Answer(at) \in Seq(Byte) /\ Len(Answer(at)) = 5
          /\ \A i \in 1..5 : Answer(at)[i] = User6[6] <=> i = 5
      BY <3>1, AnswerType
    <3>3. Count(Answer(at), End) = 1
      <4>1. Where(Answer(at), End) = {5}
        BY <3>2 DEF Where, End
      <4> QED BY <4>1, FS_Singleton DEF Count
    <3>4. Count(input', End) = Count(input, End) + 1
      <4>1. input \in Seq(Byte)
        BY DEF Typed
      <4>2. Count(input \o Answer(at), End) = Count(input, End) + Count(Answer(at), End)
        BY <3>2, <4>1, CountJoined
      <4> QED BY <3>1, <3>3, <4>2
    <3>5. Count(output, User7) = Count(output', User7) + 1
      BY <1>2, <1>3, <2>1
    <3> QED BY <1>1, <1>4, <3>4, <3>5, CountTypes DEF Reports, Requests
  <2>2. CASE output[1] \in Addresses
    <3>1. input' = input
      BY <2>2, ObeyedMotion
    <3>2. Head(output) # User7
      BY <1>2, <2>2, CommandIs DEF Addresses
    <3> QED BY <1>1, <1>3, <1>4, <3>1, <3>2, CountTypes DEF Reports, Requests
  <2> QED BY <1>2, <2>1, <2>2 DEF Commands
<1> QED BY <1>1, <1>5, <1>6 DEF CountInv

LEMMA TypeCount == XtermStrings /\ Typed /\ CountInv /\ Type => CountInv'
<1> SUFFICES ASSUME XtermStrings, Typed, CountInv, Type PROVE CountInv'
  OBVIOUS
<1>1. UNCHANGED <<pc, buffered, output, closed, typed, faults>>
  BY DEF Type
<1>2. PICK key \in Keys : input' = Append(input, key)
  BY DEF Type, Keys
<1>3. input \in Seq(Byte) /\ key \in Byte /\ key # End
  BY KeysAreBytes, KeyIsNoEnd DEF Typed, End
<1>4. Count(input', End) = Count(input, End)
  <2>1. Count(Append(input, key), End) = Count(input, End) + (IF key = End THEN 1 ELSE 0)
    BY <1>3, EndIsByte, CountAppended
  <2> QED BY <1>2, <1>3, <2>1, CountTypes
<1> QED BY <1>1, <1>4 DEF CountInv, Reports, Requests, Awaited

LEMMA RestCount == CountInv /\ (Resize \/ UNCHANGED vars) => CountInv'
<1> SUFFICES ASSUME CountInv, Resize \/ UNCHANGED vars PROVE CountInv'
  OBVIOUS
<1>1. UNCHANGED <<pc, buffered, output, input, closed, typed, faults>>
  BY DEF Resize, vars, channel, bounds
<1> QED BY <1>1 DEF CountInv, Reports, Requests, Awaited

LEMMA CountNext == XtermStrings /\ ~Pipe /\ Typed /\ CountInv /\ [Next]_vars => CountInv'
<1> SUFFICES ASSUME XtermStrings, ~Pipe, Typed, CountInv, [Next]_vars PROVE CountInv'
  OBVIOUS
<1>1. CASE Library
  BY <1>1, RequestCount, ReadReportCount, AnsweredCount, ReadKeysCount, RedrawCount, DrawCount DEF Library
<1>2. CASE Interrupted
  BY <1>2, InterruptedCount
<1>3. CASE Obey
  BY <1>3, ObeyCount
<1>4. CASE Type
  BY <1>4, TypeCount
<1>5. CASE Resize \/ UNCHANGED vars
  BY <1>5, RestCount
<1> QED BY <1>1, <1>2, <1>3, <1>4, <1>5 DEF Next

(* However keys, resizes, interrupted reads and failing writes come between a *)
(* query and its answer, no more reports come to the key tree than writes     *)
(* failed and reads were interrupted: keys and resizes alone bring none.      *)
THEOREM ReportsNeedFaults ==
  ASSUME XtermStrings, ~Pipe
  PROVE  Spec => []StraysAreFaults
<1>1. Init => Typed /\ CountInv
  BY TypedInit, CountInit
<1>2. Typed /\ CountInv /\ [Next]_vars => (Typed /\ CountInv)'
  BY TypedNext, CountNext
<1>3. Typed /\ CountInv => StraysAreFaults
  BY ReportIs DEF CountInv, StraysAreFaults, Count, Where, End
<1> QED BY <1>1, <1>2, <1>3, PTL DEF Spec

-----------------------------------------------------------------------------
(* Where nothing comes between a query and its answer *)

Corner(s) == [row |-> s.row - 1, col |-> s.col - 1]

(* Where the motions on their way will leave the terminal's cursor. *)
Target == IF Pending > 0 THEN Clamped(Aim(output[Pending]), size) ELSE at

(* What is in the two channels: nothing but its answer comes before the library *)
(* has it all, and the program is followed to the end.                          *)
ChannelInv ==
  /\ pc # "lost"
  /\ pc = "await" /\ output # <<>> => input = <<>> /\ res_buf = <<>>
  /\ pc = "await" /\ output = <<>> =>
       input # <<>> /\ \E p \in Spot : res_buf \o input = Answer(p)
  /\ pc = "parse" => output = <<>> /\ \E p \in Spot : res_buf = Answer(p)
  /\ pc \in {"request", "parse", "redraw", "draw"} => input = <<>>
  /\ pc = "idle" => Len(input) <= 1

(* A resize is yet to be noticed unless a query has begun since. *)
Steady == ~resize_flag \/ (begun /\ pc \notin {"idle", "redraw"})

ExactInv ==
  Steady =>
    /\ pc \in {"idle", "redraw"} => Target = cursor_pos /\ term_size = size
    /\ pc = "draw" => term_size = size
    /\ pc \in {"request", "await", "parse"} /\ asking = "end_pos" =>
         saved_pos \in OnScreen(size) /\ Target = Corner(size)
    /\ pc = "await" /\ output = <<>> => res_buf \o input = Answer(at)
    /\ pc = "parse" => res_buf = Answer(at)

Base == Typed /\ BegunInv /\ AheadInv
Inv == Base /\ ChannelInv /\ ExactInv

(* A step in which nothing comes between a query and its answer. *)
Undisturbed == RoomForReport /\ Faultless /\ ~crossed'

LEMMA UndisturbedParts == Undisturbed => Faultless /\ ~Pipe /\ 5 < BufSize /\ ~crossed'
BY DEF Undisturbed, RoomForReport, Faultless

(* What holds of a program that has failed. *)
LEMMA FailedInv == pc' = "failed" => ChannelInv' /\ ExactInv'
BY DEF ChannelInv, ExactInv

LEMMA InvInit == ~Pipe /\ Init => ChannelInv /\ ExactInv
<1> SUFFICES ASSUME ~Pipe, Init PROVE ChannelInv /\ ExactInv
  OBVIOUS
<1>1. output = <<>> /\ pc = "request" /\ input = <<>> /\ asking = "cursor_pos"
  BY QueryAssumption DEF Init
<1> QED BY <1>1 DEF ChannelInv, ExactInv

(* The request goes behind all motions. *)
LEMMA RequestInv ==
  XtermStrings /\ Undisturbed /\ Inv /\ Request => ChannelInv' /\ ExactInv'
<1> SUFFICES ASSUME XtermStrings, Undisturbed, Inv, Request PROVE ChannelInv' /\ ExactInv'
  OBVIOUS
<1>1. pc = "request" /\ res_buf' = <<>> /\ UNCHANGED <<resize_flag, saved_pos, input, at, size>>
  BY DEF Request, Cleared, terminal
<1>2. Typed /\ AheadInv
  BY DEF Inv, Base
<1>3. CASE Unsent(User7) /\ QueryFails
  BY <1>3, UndisturbedParts, NoFault
<1>4. CASE Sent(User7) /\ pc' = "await" /\ UNCHANGED <<asking, term_size, begun>>
  <2>1. buffered = <<>>
    BY <1>1, <1>2 DEF AheadInv, Stopped
  <2>2. /\ Len(output') = Len(output) + 1 /\ output' # <<>>
        /\ \A i \in 1..Len(output) : output'[i] = output[i]
    BY <1>2, <1>4, <2>1, OneMore DEF Commands
  <2>3. Len(output) \in Nat /\ Pending = Len(output) /\ Pending' = Pending
    BY <1>1, <1>2, <1>4, <2>2, OutputLength DEF Pending
  <2>4. Target' = Target
    <3>1. Pending > 0 => output'[Pending'] = output[Pending]
      BY <2>2, <2>3
    <3> QED BY <1>1, <2>3, <3>1 DEF Target
  <2>5. input' = <<>>
    BY <1>1 DEF Inv, ChannelInv
  <2>6. ChannelInv'
    BY <1>1, <1>4, <2>2, <2>5 DEF ChannelInv
  <2>7. ExactInv'
    BY <1>1, <1>4, <2>2, <2>4 DEF Inv, ExactInv, Steady
  <2> QED BY <2>6, <2>7
<1> QED BY <1>3, <1>4 DEF Request

LEMMA Regrouped ==
  ASSUME NEW s \in Seq(Byte), NEW t \in Seq(Byte), NEW u \in Seq(Byte)
  PROVE  (s \o t) \o u = s \o (t \o u)
BY ConcatAssociative

(* Reads take the answer in pieces and stop where it ends. *)
LEMMA ReadReportInv ==
  XtermStrings /\ Undisturbed /\ Inv /\ ReadReport => ChannelInv' /\ ExactInv'
<1> SUFFICES ASSUME XtermStrings, Undisturbed, Inv, ReadReport PROVE ChannelInv' /\ ExactInv'
  OBVIOUS
<1>1. /\ pc = "await"
      /\ UNCHANGED <<cursor_pos, term_size, resize_flag, asking, saved_pos, output, closed, at, size,
                     ioctl, begun, typed>>
  BY DEF ReadReport, known, terminal, bounds
<1>2. /\ Typed /\ input \in Seq(Byte) /\ res_buf \in Seq(Byte) /\ ~closed
      /\ Len(input) \in Nat /\ Len(res_buf) \in Nat
  BY LenProperties DEF Inv, Base, AheadInv, Typed
<1>3. PICK n \in Readable : res_buf' = res_buf \o Upto(input, n) /\ input' = Beyond(input, n)
  BY DEF ReadReport, Upto, Beyond
<1>4. input # <<>>
  BY <1>2, <1>3 DEF Readable
<1>5. n \in 1..Len(input)
  <2>1. n \in 1..Min2(BufSize, Len(input))
    BY <1>3, <1>4 DEF Readable
  <2> QED BY <1>2, <2>1, QueryAssumption DEF Min2
<1>6. output = <<>>
  BY <1>1, <1>4 DEF Inv, ChannelInv
<1>7. PICK p \in Spot : res_buf \o input = Answer(p) /\ (Steady => p = at)
  <2>1. \E p \in Spot : res_buf \o input = Answer(p)
    BY <1>1, <1>6 DEF Inv, ChannelInv
  <2>2. CASE ~Steady
    BY <2>1, <2>2
  <2>3. CASE Steady
    <3>1. at \in Spot
      BY <1>2, ScreenIsSpot DEF Typed
    <3>2. res_buf \o input = Answer(at)
      BY <1>1, <1>6, <2>3 DEF Inv, ExactInv
    <3> QED BY <3>1, <3>2
  <2> QED BY <2>2, <2>3
<1> DEFINE head == Upto(input, n)
           rest == Beyond(input, n)
<1>8. /\ head \in Seq(Byte) /\ Len(head) = n /\ rest \in Seq(Byte) /\ Len(rest) = Len(input) - n
      /\ head \o rest = input
  <2>1. n \in 0..Len(input)
    BY <1>2, <1>5
  <2> QED BY <1>2, <2>1, ReadType
<1>9. res_buf' = res_buf \o head /\ input' = rest
  BY <1>3
<1> HIDE DEF head, rest
<1>10. /\ res_buf' \in Seq(Byte) /\ Len(res_buf') = Len(res_buf) + n
       /\ input' \in Seq(Byte) /\ Len(input') = Len(input) - n
  BY <1>2, <1>8, <1>9, ConcatProperties
<1>11. res_buf' \o input' = Answer(p)
  <2>1. (res_buf \o head) \o rest = res_buf \o (head \o rest)
    BY <1>2, <1>8, Regrouped
  <2> QED BY <1>7, <1>8, <1>9, <2>1
<1>12. /\ Len(res_buf') + Len(input') = 5 /\ Len(res_buf') \in 1..5
       /\ Len(input') \in Nat /\ Len(res_buf') \in Nat
  <2>1. Len(res_buf' \o input') = Len(res_buf') + Len(input')
    BY <1>10, ConcatProperties
  <2>2. Len(res_buf') + Len(input') = 5
    BY <1>11, <2>1, AnswerType
  <2>3. Len(input') \in Nat /\ Len(res_buf') \in Nat
    BY <1>10, LenProperties
  <2>4. Len(res_buf) \in Nat /\ n \in Nat /\ n > 0 /\ Len(res_buf') = Len(res_buf) + n
    BY <1>2, <1>5, <1>10, LenProperties
  <2>5. Len(res_buf') \in 1..5
    BY <2>2, <2>3, <2>4
  <2> QED BY <2>2, <2>3, <2>5
<1>13. res_buf' # <<>> /\ (Complete(res_buf') <=> Len(res_buf') = 5)
  <2>0. Len(res_buf') \in Nat /\ Len(res_buf') > 0
    BY <1>12
  <2>1. res_buf' # <<>>
    BY <2>0, EmptyText
  <2>2. \A i \in 1..Len(res_buf') : res_buf'[i] = Answer(p)[i]
    BY <1>10, <1>11, ConcatProperties
  <2>3. Last(res_buf') = Answer(p)[Len(res_buf')]
    <3>1. Len(res_buf') \in 1..Len(res_buf')
      BY <2>0
    <3> QED BY <2>2, <3>1 DEF Last
  <2>4. Last(res_buf') = User6[6] <=> Len(res_buf') = 5
    BY <1>12, <2>3, AnswerType
  <2> QED BY <2>1, <2>4, ReportIs DEF Complete
<1>14. pc' = IF Len(res_buf') = 5 THEN "parse" ELSE "await"
  <2>1. Len(res_buf') < BufSize
    BY <1>12, UndisturbedParts, QueryAssumption
  <2>2. Strayed(res_buf') = {}
    BY <1>13, <2>1 DEF Strayed
  <2>3. pc' \in {IF Complete(res_buf') THEN "parse" ELSE "await"} \cup Strayed(res_buf')
    BY DEF ReadReport
  <2> QED BY <1>13, <2>2, <2>3
<1>15. pc' = "parse" => input' = <<>> /\ res_buf' = Answer(p)
  <2> SUFFICES ASSUME pc' = "parse" PROVE input' = <<>> /\ res_buf' = Answer(p)
    OBVIOUS
  <2>1. Len(res_buf') = 5
    BY <1>14
  <2>2. Len(input') = 0
    BY <1>12, <2>1
  <2>3. input' = <<>>
    BY <1>10, <2>2, EmptySeq
  <2>4. res_buf' \o <<>> = res_buf'
    BY <1>10, ConcatEmptySeq
  <2> QED BY <1>11, <2>3, <2>4
<1>16. pc' = "await" => input' # <<>>
  <2> SUFFICES ASSUME pc' = "await", input' = <<>> PROVE FALSE
    OBVIOUS
  <2>1. Len(input') = 0
    BY EmptyText
  <2>2. Len(res_buf') # 5
    BY <1>14
  <2> QED BY <1>12, <2>1, <2>2
<1>17. Steady' => Steady
  BY <1>1 DEF Steady
<1>18. Target' = at /\ Target = at
  <2>1. Len(output) = 0
    BY <1>6
  <2>2. ~(Pending > 0) /\ ~(Pending' > 0)
    BY <1>1, <2>1 DEF Pending
  <2> QED BY <1>1, <2>2 DEF Target
<1>19. ChannelInv'
  <2>1. pc' = "await" => input' # <<>> /\ res_buf' \o input' = Answer(p)
    BY <1>11, <1>16
  <2>2. pc' \in {"await", "parse"} /\ output' = <<>>
    BY <1>1, <1>6, <1>14
  <2> QED BY <1>15, <2>1, <2>2 DEF ChannelInv
<1>20. ExactInv'
  <2> SUFFICES ASSUME Steady' PROVE ExactInv'
    BY DEF ExactInv
  <2>1. p = at /\ at' = at
    BY <1>1, <1>7, <1>17
  <2>2. asking' = "end_pos" => saved_pos' \in OnScreen(size') /\ Target' = Corner(size')
    BY <1>1, <1>17, <1>18 DEF Inv, ExactInv
  <2>3. pc' \in {"await", "parse"}
    BY <1>14
  <2> QED BY <1>11, <1>15, <2>1, <2>2, <2>3 DEF ExactInv
<1> QED BY <1>19, <1>20

(* A motion to a place of the screen.  It is the last of those pending, and  *)
(* leaves the cursor there.                                                  *)
LEMMA MotionTarget ==
  ASSUME XtermStrings, Base, NEW pos \in Coordinates, MoveCursor2d(pos), size' = size,
         pc \notin {"await", "failed", "lost"}, pc' \notin {"await", "failed", "lost"}
  PROVE  cursor_pos' = pos /\ Target' = Clamped(pos, size)
<1>1. Typed /\ AheadInv
  BY DEF Base
<1>2. cursor_pos' = pos /\ output' = Append(output, Command(pos)) /\ Pending' = Len(output')
  BY <1>1, MotionsOnly
<1>3. Command(pos) \in Commands /\ Aim(Command(pos)) = pos
  BY CommandIs DEF Commands
<1>4. output \in Seq(Commands) /\ Len(output) \in Nat
  BY <1>1, OutputLength DEF Typed
<1>5. Len(output') = Len(output) + 1 /\ output'[Len(output) + 1] = Command(pos)
  BY <1>2, <1>3, <1>4, AppendProperties
<1>6. Pending' > 0 /\ output'[Pending'] = Command(pos)
  BY <1>2, <1>4, <1>5
<1> QED BY <1>2, <1>3, <1>6 DEF Target

(* The three places that wait for an answer, when it is there. *)
LEMMA AnsweredStep ==
  ASSUME XtermStrings, Inv, Answered
  PROVE  \E p \in Spot :
           /\ res_buf = Answer(p) /\ (Steady => p = at)
           /\ GotCursor(p) \/ GotSaved(p) \/ GotEnd(p)
<1>1. pc = "parse"
  BY DEF Answered
<1>2. PICK p \in Spot : res_buf = Answer(p) /\ (Steady => p = at)
  <2>1. CASE ~Steady
    BY <1>1, <2>1 DEF Inv, ChannelInv
  <2>2. CASE Steady
    <3>1. at \in Spot
      BY ScreenIsSpot DEF Inv, Base, Typed
    <3> QED BY <1>1, <2>2, <3>1 DEF Inv, ExactInv
  <2> QED BY <2>1, <2>2
<1>3. p.row \in Nat /\ p.col \in Nat /\ p = [row |-> p.row, col |-> p.col]
  BY QueryAssumption DEF Spot
<1>4. Parse2(User6, res_buf) = <<p.row, p.col>>
  BY <1>2, AnswerFound
<1>5. PICK row \in Garbage, col \in Garbage :
        ~Negative(Parsed2d(row, col)) =>
          GotCursor(Parsed2d(row, col)) \/ GotSaved(Parsed2d(row, col)) \/ GotEnd(Parsed2d(row, col))
  BY DEF Answered
<1>6. Parsed2d(row, col) = p
  BY <1>3, <1>4 DEF Parsed2d
<1>7. ~Negative(p)
  BY <1>3 DEF Negative
<1>8. GotCursor(p) \/ GotSaved(p) \/ GotEnd(p)
  BY <1>5, <1>6, <1>7
<1> QED BY <1>2, <1>8

(* query_size leaves cursor and size as the terminal has them. *)
LEMMA AnsweredInv ==
  XtermStrings /\ Undisturbed /\ Inv /\ Answered => ChannelInv' /\ ExactInv'
<1> SUFFICES ASSUME XtermStrings, Undisturbed, Inv, Answered PROVE ChannelInv' /\ ExactInv'
  OBVIOUS
<1>1. /\ pc = "parse" /\ output = <<>> /\ input = <<>>
      /\ UNCHANGED <<resize_flag, res_buf, input, at, size>>
  BY DEF Answered, terminal, Inv, ChannelInv
<1>2. PICK p \in Spot : /\ res_buf = Answer(p) /\ (Steady => p = at)
                        /\ GotCursor(p) \/ GotSaved(p) \/ GotEnd(p)
  BY AnsweredStep
<1>3. p \in Coordinates /\ [row |-> Far, col |-> Far] \in Coordinates
  BY SpotIsCoordinates, FarIsPlace
<1>4. Base /\ Typed
  BY DEF Inv, Base
<1>5. Len(output) = 0 /\ Pending = 0 /\ Target = at
  BY <1>1 DEF Pending, Target
<1>6. \A pos : ~MoveFails(pos)
  BY <1>4, UndisturbedParts, NoFault
<1>7. CASE pc' = "failed"
  BY <1>7, FailedInv
<1>10. CASE GotCursor(p)
  <2>1. /\ asking = "cursor_pos" /\ cursor_pos' = p /\ UNCHANGED <<saved_pos, output>>
        /\ \/ /\ term_size' = size /\ begun' = TRUE /\ asking' = asking
              /\ pc' = IF begun THEN "draw" ELSE "idle"
           \/ /\ asking' = "saved_pos" /\ pc' = "request"
              /\ UNCHANGED <<term_size, begun>>
    BY <1>10 DEF GotCursor, QuerySize, Finish, Ask
  <2>2. pc' \in {"draw", "idle", "request"} /\ asking' # "end_pos"
    BY <2>1
  <2>3. Pending' = 0 /\ Target' = at
    BY <1>1, <1>5, <2>1, <2>2 DEF Pending, Target
  <2>4. ChannelInv'
    BY <1>1, <2>1, <2>2, EmptyText DEF ChannelInv
  <2>5. Steady' => Steady
    BY <1>1, <2>1 DEF Steady
  <2>6. ExactInv'
    BY <1>1, <1>2, <2>1, <2>2, <2>3, <2>5 DEF ExactInv
  <2> QED BY <2>4, <2>6
<1>11. CASE GotSaved(p) /\ pc' # "failed"
  <2>1. /\ asking = "saved_pos" /\ saved_pos' = p /\ MoveCursor2d([row |-> Far, col |-> Far])
        /\ asking' = "end_pos" /\ pc' = "request" /\ UNCHANGED begun
    BY <1>6, <1>11 DEF GotSaved, Ask, GiveUp
  <2>2. Target' = Clamped([row |-> Far, col |-> Far], size)
    BY <1>1, <1>3, <1>4, <2>1, MotionTarget
  <2>3. ChannelInv'
    BY <1>1, <2>1 DEF ChannelInv
  <2>4. Steady' => Steady
    BY <1>1, <2>1 DEF Steady
  <2>5. Target' = Corner(size)
    BY <1>4, <2>2, ScreenIsSpot DEF Typed, Corner
  <2>6. ExactInv'
    BY <1>1, <1>2, <1>4, <2>1, <2>4, <2>5 DEF ExactInv, Typed
  <2> QED BY <2>3, <2>6
<1>12. CASE GotEnd(p) /\ pc' # "failed"
  <2>1. /\ asking = "end_pos" /\ term_size' = Grow(p) /\ MoveCursor2d(saved_pos)
        /\ begun' = TRUE /\ pc' = (IF begun THEN "draw" ELSE "idle")
    BY <1>6, <1>12 DEF GotEnd, Finish, GiveUp
  <2>2. pc' \in {"draw", "idle"}
    BY <2>1
  <2>3. saved_pos \in Coordinates
    BY <1>4 DEF Typed
  <2>4. cursor_pos' = saved_pos /\ Target' = Clamped(saved_pos, size)
    BY <1>1, <1>4, <2>1, <2>2, <2>3, MotionTarget
  <2>5. ChannelInv'
    BY <1>1, <2>1, <2>2, EmptyText DEF ChannelInv
  <2>6. Steady' => Steady
    BY <1>1, <2>1 DEF Steady
  <2>7. Steady => term_size' = size /\ Target' = saved_pos
    <3> SUFFICES ASSUME Steady PROVE term_size' = size /\ Target' = saved_pos
      OBVIOUS
    <3>1. saved_pos \in OnScreen(size) /\ at = Corner(size) /\ p = at
      BY <1>1, <1>2, <1>5, <2>1 DEF Inv, ExactInv
    <3>2. Grow(Corner(size)) = size
      <4>1. size.row \in 1..Far /\ size.col \in 1..Far /\ size = [row |-> size.row, col |-> size.col]
        BY <1>4, ScreenIsSpot DEF Typed
      <4>2. size.row - 1 + 1 = size.row /\ size.col - 1 + 1 = size.col
        BY <4>1
      <4> QED BY <4>1, <4>2 DEF Grow, Corner
    <3>3. Clamped(saved_pos, size) = saved_pos
      BY <1>4, <3>1, ScreenIsSpot DEF Typed
    <3> QED BY <2>1, <2>4, <3>1, <3>2, <3>3
  <2>8. ExactInv'
    BY <1>1, <2>1, <2>2, <2>4, <2>6, <2>7 DEF ExactInv
  <2> QED BY <2>5, <2>8
<1> QED BY <1>2, <1>7, <1>10, <1>11, <1>12

(* Keys move the cursor within the screen the library knows. *)
LEMMA ReadKeysInv ==
  XtermStrings /\ Undisturbed /\ Inv /\ ReadKeys => ChannelInv' /\ ExactInv'
<1> SUFFICES ASSUME XtermStrings, Undisturbed, Inv, ReadKeys PROVE ChannelInv' /\ ExactInv'
  OBVIOUS
<1>1. pc = "idle" /\ begun /\ UNCHANGED <<term_size, resize_flag, at, size, begun>>
  BY DEF ReadKeys, terminal, Inv, Base, BegunInv
<1>2. Base /\ Typed /\ input \in Seq(Byte) /\ Len(input) \in Nat /\ Len(input) <= 1
  BY <1>1, LenProperties DEF Inv, Base, Typed, ChannelInv
<1>3. PICK n \in 1..Len(input) :
        /\ input' = Beyond(input, n)
        /\ \/ \E pos \in OnScreen(term_size) :
                MoveCursor2d(pos) \/ (MoveLate(pos) /\ UNCHANGED cursor_pos)
           \/ UNCHANGED <<buffered, output, cursor_pos, faults>>
        /\ pc' \in {"idle", "redraw"}
  BY DEF ReadKeys, Beyond
<1>4. input' = <<>>
  <2>1. n \in 0..Len(input) /\ n = Len(input)
    BY <1>2
  <2>2. Beyond(input, n) \in Seq(Byte) /\ Len(Beyond(input, n)) = Len(input) - n
    BY <1>2, <2>1, CutType
  <2> QED BY <1>2, <1>3, <2>1, <2>2, EmptySeq
<1>5. Target = cursor_pos /\ term_size = size => Target' = cursor_pos'
  <2>1. CASE UNCHANGED <<output, cursor_pos>>
    <3>1. Pending' = Pending /\ Target' = Target
      BY <1>1, <1>3, <2>1 DEF Pending, Target
    <3> QED BY <2>1, <3>1
  <2>2. ASSUME NEW pos \in OnScreen(term_size), MoveCursor2d(pos) \/ MoveLate(pos)
        PROVE  Target = cursor_pos /\ term_size = size => Target' = cursor_pos'
    <3>1. pos \in Coordinates
      BY <1>2, ScreenType DEF Typed
    <3>2. MoveCursor2d(pos)
      BY <1>1, <1>2, <2>2, UndisturbedParts, NoFault
    <3>3. cursor_pos' = pos /\ Target' = Clamped(pos, size)
      BY <1>1, <1>2, <1>3, <3>1, <3>2, MotionTarget
    <3>4. term_size = size => Clamped(pos, size) = pos
      BY <1>2, ScreenIsSpot DEF Typed
    <3> QED BY <3>3, <3>4
  <2> QED BY <1>3, <2>1, <2>2
<1>6. ChannelInv'
  BY <1>3, <1>4, EmptyText DEF ChannelInv
<1>7. Steady' => Steady
  BY <1>1, <1>3 DEF Steady
<1>8. ExactInv'
  BY <1>1, <1>3, <1>5, <1>7 DEF Inv, ExactInv
<1> QED BY <1>6, <1>8

(* A redraw asks again after a resize. *)
LEMMA RedrawInv == Inv /\ Redraw => ChannelInv' /\ ExactInv'
<1> SUFFICES ASSUME Inv, Redraw PROVE ChannelInv' /\ ExactInv'
  OBVIOUS
<1>1. /\ pc = "redraw"
      /\ \/ resize_flag /\ asking' = "cursor_pos" /\ pc' = "request"
         \/ ~resize_flag /\ pc' = "draw" /\ asking' = asking
      /\ UNCHANGED <<cursor_pos, term_size, resize_flag, saved_pos, res_buf, output, input, at, size, begun>>
  BY DEF Redraw, Ask, known, channel, terminal
<1>2. Pending' = Pending /\ Target' = Target
  BY <1>1 DEF Pending, Target
<1>3. ChannelInv'
  BY <1>1, <1>2 DEF Inv, ChannelInv
<1>4. ExactInv'
  BY <1>1 DEF Inv, ExactInv, Steady
<1> QED BY <1>3, <1>4

(* And draws on the screen as it is. *)
LEMMA DrawInv ==
  XtermStrings /\ Undisturbed /\ Inv /\ (Draw \/ DrawNowhere) => ChannelInv' /\ ExactInv'
<1> SUFFICES ASSUME XtermStrings, Undisturbed, Inv, Draw \/ DrawNowhere
             PROVE  ChannelInv' /\ ExactInv'
  OBVIOUS
<1>1. pc = "draw" /\ begun /\ input = <<>> /\ Base /\ Typed
  BY DEF Draw, DrawNowhere, Inv, Base, BegunInv, ChannelInv
<1>2. term_size = size
  BY <1>1 DEF Inv, ExactInv, Steady
<1>3. ~DrawNowhere
  <2>1. Clamped(Origin, size) \in OnScreen(size)
    BY <1>1, OriginType, ScreenIsSpot DEF Typed
  <2> QED BY <1>2, <2>1 DEF DrawNowhere
<1>4. pc' = "idle" /\ resize_flag' = FALSE /\ UNCHANGED <<term_size, input, size>>
  BY <1>3 DEF Draw, terminal
<1>5. PICK pos \in OnScreen(term_size) : MoveCursor2d(pos) \/ MoveLate(pos)
  BY <1>3 DEF Draw
<1>6. MoveCursor2d(pos) /\ pos \in Coordinates
  BY <1>1, <1>5, UndisturbedParts, NoFault, ScreenType DEF Typed
<1>7. cursor_pos' = pos /\ Target' = Clamped(pos, size)
  BY <1>1, <1>4, <1>6, MotionTarget
<1>8. Clamped(pos, size) = pos
  BY <1>1, <1>2, <1>5, ScreenIsSpot DEF Typed
<1>9. ChannelInv'
  BY <1>1, <1>4, EmptyText DEF ChannelInv
<1>10. ExactInv'
  BY <1>2, <1>4, <1>7, <1>8 DEF ExactInv
<1> QED BY <1>9, <1>10

(* The terminal obeys: what is pending gets shorter, and leads to the same   *)
(* place; the request is answered with that place.                           *)
LEMMA ObeyInv ==
  XtermStrings /\ Undisturbed /\ Inv /\ Obey => ChannelInv' /\ ExactInv'
<1> SUFFICES ASSUME XtermStrings, Undisturbed, Inv, Obey PROVE ChannelInv' /\ ExactInv'
  OBVIOUS
<1>1. /\ output # <<>> /\ output' = Tail(output)
      /\ UNCHANGED <<cursor_pos, term_size, resize_flag, asking, saved_pos, res_buf, pc, size, begun>>
  BY DEF Obey, known, local
<1>2. Typed /\ AheadInv
  BY DEF Inv, Base
<1>3. /\ Len(output) \in Nat /\ Len(output) > 0 /\ Len(output') = Len(output) - 1
      /\ \A i \in 1..(Len(output) - 1) : output'[i] = output[i + 1]
  BY <1>1, <1>2, OneLess
<1>4. Pending' = Pending - 1 /\ Pending \in Int
  BY <1>1, <1>3 DEF Pending
<1>5. pc # "lost" /\ pc # "parse"
  BY <1>1 DEF Inv, ChannelInv
<1>6. CASE pc = "failed"
  BY <1>1, <1>6, FailedInv
<1>7. ASSUME pc # "failed", Pending > 0 PROVE ChannelInv' /\ ExactInv'
  <2>1. \A i \in 1..Pending : output[i] \in Addresses
    BY <1>2, <1>5, <1>7 DEF AheadInv, Stopped
  <2>2. output[1] \in Addresses
    BY <1>4, <1>7, <2>1
  <2>3. at' = Clamped(Aim(output[1]), size) /\ input' = input
    BY <1>2, <2>2, ObeyedMotion
  <2>4. Pending <= Len(output)
    BY <1>3 DEF Pending
  <2>5. \A i \in 1..Pending' : output'[i] = output[i + 1]
    BY <1>3, <1>4, <2>4
  <2>6. Target' = Target
    <3>1. CASE Pending = 1
      <4>1. ~(Pending' > 0) /\ Pending > 0 /\ output[Pending] = output[1]
        BY <1>4, <3>1
      <4>2. Target' = at'
        BY <4>1 DEF Target
      <4>3. Target = Clamped(Aim(output[1]), size)
        BY <4>1 DEF Target
      <4> QED BY <2>3, <4>2, <4>3
    <3>2. CASE Pending > 1
      <4>1. Pending' > 0 /\ Pending' \in 1..Pending' /\ Pending' + 1 = Pending
        BY <1>4, <3>2
      <4>2. output'[Pending'] = output[Pending]
        BY <2>5, <4>1
      <4>3. Target' = Clamped(Aim(output[Pending]), size)
        BY <1>1, <4>1, <4>2 DEF Target
      <4>4. Target = Clamped(Aim(output[Pending]), size)
        BY <1>7 DEF Target
      <4> QED BY <4>3, <4>4
    <3> QED BY <1>4, <1>7, <3>1, <3>2
  <2>7. pc = "await" => output' # <<>>
    <3> HAVE pc = "await"
    <3>1. Len(output') > 0
      BY <1>3, <1>7 DEF Pending
    <3> QED BY <3>1, EmptyText
  <2>8. ChannelInv'
    BY <1>1, <1>5, <2>3, <2>7 DEF Inv, ChannelInv
  <2>9. ExactInv'
    BY <1>1, <1>5, <2>6, <2>7 DEF Inv, ExactInv, Steady
  <2> QED BY <2>8, <2>9
<1>8. ASSUME Pending <= 0 PROVE ChannelInv' /\ ExactInv'
  <2>1. pc = "await" /\ Len(output) = 1
    BY <1>3, <1>8 DEF Pending
  <2>2. output[1] = User7 /\ input = <<>> /\ res_buf = <<>>
    BY <1>1, <1>2, <2>1 DEF Inv, ChannelInv, AheadInv, Stopped
  <2>3. at' = at /\ input' = input \o Answer(at) /\ at \in Spot
    BY <1>2, <2>2, UndisturbedParts, ObeyedRequest
  <2>4. Answer(at) \in Seq(Byte) /\ Len(Answer(at)) = 5
    BY <2>3, AnswerType
  <2>5. input' = Answer(at) /\ res_buf' = <<>>
    BY <1>1, <2>2, <2>3, <2>4, ConcatEmptySeq
  <2>6. res_buf' \o input' = Answer(at) /\ input' # <<>>
    BY <2>4, <2>5, ConcatEmptySeq, EmptyText
  <2>7. output' = <<>>
    <3>1. output' \in Seq(Commands) /\ Len(output') = 0
      BY <1>1, <1>2, <1>3, <2>1, OneLess
    <3> QED BY <3>1, EmptySeq
  <2>8. Target' = Target
    <3>1. ~(Pending > 0) /\ ~(Pending' > 0)
      BY <1>4, <1>8
    <3> QED BY <2>3, <3>1 DEF Target
  <2>9. ChannelInv'
    BY <1>1, <2>1, <2>3, <2>6, <2>7 DEF ChannelInv
  <2>10. ExactInv'
    BY <1>1, <2>1, <2>3, <2>6, <2>7, <2>8 DEF Inv, ExactInv, Steady
  <2> QED BY <2>9, <2>10
<1> QED BY <1>4, <1>6, <1>7, <1>8

(* A resize is noticed before anything is asked of the terminal. *)
LEMMA ResizeInv == Undisturbed /\ Inv /\ Resize => ChannelInv' /\ ExactInv'
<1> SUFFICES ASSUME Undisturbed, Inv, Resize PROVE ChannelInv' /\ ExactInv'
  OBVIOUS
<1>1. resize_flag' = TRUE /\ UNCHANGED <<res_buf, pc, output, input, begun>>
  BY DEF Resize, local, channel
<1>2. ~begun \/ pc \in {"idle", "redraw"}
  BY UndisturbedParts, PlaceIs DEF Places, Inv, Base, Resize
<1>3. ChannelInv'
  BY <1>1 DEF Inv, ChannelInv
<1>4. ExactInv'
  BY <1>1, <1>2 DEF ExactInv, Steady
<1> QED BY <1>3, <1>4

(* A key is typed when no answer is awaited. *)
LEMMA TypeInv == Undisturbed /\ Inv /\ Type => ChannelInv' /\ ExactInv'
<1> SUFFICES ASSUME Undisturbed, Inv, Type PROVE ChannelInv' /\ ExactInv'
  OBVIOUS
<1>1. PICK key \in Keys : input' = Append(input, key)
  BY DEF Type, Keys
<1>2. UNCHANGED <<cursor_pos, term_size, resize_flag, asking, saved_pos, res_buf, pc, output, at, size, begun>>
  BY DEF Type, known, local, terminal
<1>3. begun /\ pc = "idle" /\ input = <<>>
  BY UndisturbedParts, PlaceIs DEF Inv, Base, Type
<1>4. Len(input') = 1
  BY <1>1, <1>3, EmptyText, AppendProperties
<1>5. Pending' = Pending /\ Target' = Target
  BY <1>2 DEF Pending, Target
<1>6. ChannelInv'
  BY <1>2, <1>3, <1>4 DEF ChannelInv
<1>7. ExactInv'
  BY <1>2, <1>3, <1>5 DEF Inv, ExactInv, Steady
<1> QED BY <1>6, <1>7

LEMMA StutterInv == Inv /\ UNCHANGED vars => ChannelInv' /\ ExactInv'
<1> SUFFICES ASSUME Inv, UNCHANGED vars PROVE ChannelInv' /\ ExactInv'
  OBVIOUS
<1>1. UNCHANGED <<cursor_pos, term_size, resize_flag, asking, saved_pos, res_buf, pc, output, input,
                  at, size, begun>>
  BY DEF vars, known, local, channel, terminal
<1>2. Pending' = Pending /\ Target' = Target
  BY <1>1 DEF Pending, Target
<1> QED BY <1>1, <1>2 DEF Inv, ChannelInv, ExactInv, Steady

(* Every step keeps the invariants. *)
LEMMA InvNext ==
  XtermStrings /\ Undisturbed /\ Inv /\ [Next]_vars => ChannelInv' /\ ExactInv'
<1> SUFFICES ASSUME XtermStrings, Undisturbed, Inv, [Next]_vars PROVE ChannelInv' /\ ExactInv'
  OBVIOUS
<1>1. CASE Library
  BY <1>1, RequestInv, ReadReportInv, AnsweredInv, ReadKeysInv, RedrawInv, DrawInv DEF Library
<1>2. CASE Interrupted
  BY <1>2, UndisturbedParts, NoFault DEF Interrupted
<1>3. CASE Obey
  BY <1>3, ObeyInv
<1>4. CASE Resize
  BY <1>4, ResizeInv
<1>5. CASE Type
  BY <1>5, TypeInv
<1>6. CASE UNCHANGED vars
  BY <1>6, StutterInv
<1> QED BY <1>1, <1>2, <1>3, <1>4, <1>5, <1>6 DEF Next

LEMMA InvAlways ==
  ASSUME XtermStrings, ~Pipe, RoomForReport
  PROVE  Spec => [](Quiet => Inv)
<1> DEFINE Ahead == Ever /\ (faults = 0 => AheadInv)
<1>1. Spec => []Ahead
  BY AheadAlways
<1>2. Init /\ Ahead => (Quiet => Inv)
  BY InvInit DEF Inv, Base, Quiet, Ever
<1>3. Ahead /\ Ahead' /\ (Quiet => Inv) /\ [Next]_vars => (Quiet => Inv)'
  <2> SUFFICES ASSUME Ahead, Ahead', Quiet => Inv, [Next]_vars, Quiet' PROVE Inv'
    OBVIOUS
  <2>1. faults' \in {faults, faults + 1} /\ (crossed => crossed') /\ faults \in Nat /\ faults' = 0 /\ ~crossed'
    BY HistoryGrows DEF Ever, Quiet
  <2>2. Quiet /\ Undisturbed
    BY <2>1 DEF Quiet, Undisturbed, Faultless
  <2>3. ChannelInv' /\ ExactInv'
    BY <2>2, InvNext
  <2> QED BY <2>1, <2>3 DEF Inv, Base, Ever
<1> HIDE DEF Ahead
<1> QED BY <1>1, <1>2, <1>3, PTL DEF Spec

(* While nothing comes between a query and its answer, the answer fits res_buf *)
(* with its terminator, in whatever pieces it is read, although every read is  *)
(* offered the whole buffer.                                                   *)
THEOREM ReportsFit ==
  ASSUME XtermStrings, ~Pipe, RoomForReport
  PROVE  Spec => []ReportFits
<1>1. (Quiet => Inv) => ReportFits
  <2> SUFFICES ASSUME Inv, pc = "parse" PROVE Len(res_buf) < BufSize
    BY DEF ReportFits
  <2>1. PICK p \in Spot : res_buf = Answer(p)
    BY DEF Inv, ChannelInv
  <2> QED BY <2>1, AnswerType DEF RoomForReport
<1> QED BY <1>1, InvAlways, PTL

(* While the main loop waits for a key and no resize is unnoticed, cursor_pos *)
(* and term_size are those of the terminal, whether TIOCGWINSZ works or the   *)
(* far corner is asked for, and however resizes and keys alternate, as long   *)
(* as nothing comes between a query and its answer.                           *)
THEOREM PositionIsTrue ==
  ASSUME XtermStrings, ~Pipe, RoomForReport
  PROVE  Spec => []PositionTrue
<1>1. (Quiet => Inv) => PositionTrue
  <2> SUFFICES ASSUME Inv, pc = "idle", ~resize_flag, output = <<>>
               PROVE  cursor_pos = at /\ term_size = size
    BY DEF PositionTrue
  <2>1. Target = cursor_pos /\ term_size = size
    BY DEF Inv, ExactInv, Steady
  <2>2. Target = at
    BY EmptyText DEF Target, Pending
  <2> QED BY <2>1, <2>2
<1> QED BY <1>1, InvAlways, PTL
=============================================================================
