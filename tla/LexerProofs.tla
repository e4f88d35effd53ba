---------------------------- MODULE LexerProofs ----------------------------
(***************************************************************************)
(* Theorems about the lexer, for every text: its tokens are the text, its  *)
(* DEDENTs close the blocks that its INDENTs opened, and the blocks are    *)
(* those that the columns of its lines say.                                *)
(***************************************************************************)
EXTENDS Texts, FiniteSetTheorems, WellFoundedInduction, TLAPS

-----------------------------------------------------------------------------
\* A set of natural numbers has a least member.
LEMMA Least ==
  ASSUME NEW S, S \subseteq Nat, S # {}
  PROVE  \E m \in S : \A k \in S : m <= k
<1> DEFINE R == {ss \in Nat \X Nat : ss[1] < ss[2]}
<1>1. IsWellFoundedOn(R, Nat)
  BY NatLessThanWellFounded DEF OpToRel
<1>2. PICK m \in S : \A k \in S : ~(<<k, m>> \in R)
  <2> HIDE DEF R
  <2> QED
    BY <1>1, WFMin
<1>3. ASSUME NEW k \in S PROVE m <= k
  <2>1. <<k, m>> \in R <=> k < m
    OBVIOUS
  <2> QED
    BY <1>2, <2>1
<1> QED
  BY <1>3

\* Among the places from one to another, the first that is in a set.
LEMMA First ==
  ASSUME NEW a \in Nat, NEW b \in Nat, NEW S, NEW c \in a..b, c \in S
  PROVE  \E k \in a..b : k \in S /\ k <= c /\ \A m \in a..k - 1 : m \notin S
<1> DEFINE T == S \cap (a..b)
<1>1. PICK k \in T : \A m \in T : k <= m
  <2>1. T \subseteq Nat /\ c \in T
    OBVIOUS
  <2> HIDE DEF T
  <2> QED
    BY <2>1, Least
<1>2. k \in a..b /\ k \in S /\ k <= c
  BY <1>1
<1>3. \A m \in a..k - 1 : m \notin S
  BY <1>1
<1> QED
  BY <1>2, <1>3

\* What is true of 0, and of the next number if of one, is true of all.
LEMMA Induction ==
  ASSUME NEW S, 0 \in S, \A n \in Nat : n \in S => n + 1 \in S
  PROVE  Nat \subseteq S
<1> SUFFICES ASSUME NEW x \in Nat, x \notin S PROVE FALSE
  OBVIOUS
<1>1. PICK m \in Nat \ S : \A k \in Nat \ S : m <= k
  BY Least
<1>2. m # 0 /\ m - 1 \in Nat /\ m - 1 \in S
  BY <1>1
<1> QED
  BY <1>1, <1>2

-----------------------------------------------------------------------------
\* A character is none at the end of the text.
LEMMA AtIs ==
  ASSUME NEW tx \in Seq(Char), NEW p \in Nat \ {0}
  PROVE  /\ p <= Len(tx) => At(tx, p) = tx[p] /\ tx[p] \in Char
         /\ p > Len(tx) => At(tx, p) = "eof"
         /\ "eof" \notin Char
         /\ At(tx, p) # "eof" => p <= Len(tx)
BY DEF At, Char

\* eat_while ends at the first character outside the set.
LEMMA SkipIs ==
  ASSUME NEW tx \in Seq(Char), NEW p \in 1..Len(tx) + 1, NEW chars, "eof" \notin chars
  PROVE  /\ Skip(tx, p, chars) \in p..Len(tx) + 1
         /\ At(tx, Skip(tx, p, chars)) \notin chars
         /\ \A j \in p..Skip(tx, p, chars) - 1 : tx[j] \in chars
<1> DEFINE n == Len(tx)
           S == {k \in p..n + 1 : At(tx, k) \notin chars}
<1>1. n \in Nat /\ n + 1 \in Nat /\ p \in Nat \ {0} /\ n + 1 \in p..n + 1 /\ n + 1 \in S
  BY AtIs
<1>2. PICK k \in p..n + 1 : k \in S /\ \A m \in p..k - 1 : m \notin S
  <2> DEFINE last == n + 1
  <2>1. p \in Nat /\ last \in Nat /\ last \in p..last /\ last \in S
    BY <1>1
  <2> HIDE DEF S, last, n
  <2>2. \E k \in p..last : k \in S /\ k <= last /\ \A m \in p..k - 1 : m \notin S
    BY <2>1, First
  <2> QED
    BY <2>2 DEF last
<1>3. ASSUME NEW m \in p..k - 1 PROVE tx[m] \in chars
  BY <1>1, <1>2, AtIs
<1> QED
  BY <1>2, <1>3 DEF Skip

\* A continuation is in the text.
LEMMA ContinuationIs ==
  ASSUME NEW tx \in Seq(Char), NEW p \in Nat \ {0}
  PROVE  /\ Continuation(tx, p) \in {0, 2, 3}
         /\ Continuation(tx, p) > 0 => /\ At(tx, p) = "\\"
                                       /\ p + Continuation(tx, p) <= Len(tx) + 1
<1>1. CASE Reads(tx, p, <<"\\", "nl">>)
  <2>1. At(tx, p) = "\\" /\ At(tx, p + 1) = "nl"
    BY <1>1 DEF Reads
  <2>2. p + 1 <= Len(tx)
    BY <2>1, AtIs
  <2> QED
    BY <1>1, <2>1, <2>2 DEF Continuation
<1>2. CASE ~Reads(tx, p, <<"\\", "nl">>) /\ Reads(tx, p, <<"\\", "cr", "nl">>)
  <2>1. At(tx, p) = "\\" /\ At(tx, p + 2) = "nl"
    BY <1>2 DEF Reads
  <2>2. p + 2 <= Len(tx)
    BY <2>1, AtIs
  <2> QED
    BY <1>2, <2>1, <2>2 DEF Continuation
<1> QED
  BY <1>1, <1>2 DEF Continuation

\* eat_whitespace ends in the text.
LEMMA EatWhitespaceIs ==
  ASSUME NEW tx \in Seq(Char), NEW p \in 1..Len(tx) + 1, NEW newline_allowed \in BOOLEAN
  PROVE  EatWhitespace(tx, p, newline_allowed) \in p..Len(tx) + 1
<1> DEFINE n == Len(tx)
           White(k) == At(tx, k) \in Blank \/ (newline_allowed /\ At(tx, k) = "nl")
           Stops(k) == /\ ~White(k) /\ Continuation(tx, k) = 0
                       /\ \A m \in p..k - 1 : m + Continuation(tx, m) <= k
           S == {k \in p..n + 1 : Stops(k)}
<1>1. n \in Nat /\ n + 1 \in Nat /\ p \in Nat \ {0} /\ n + 1 \in p..n + 1
  OBVIOUS
<1>2. ~White(n + 1) /\ Continuation(tx, n + 1) = 0
  <2>1. At(tx, n + 1) = "eof"
    BY AtIs
  <2> QED
    BY <2>1, ContinuationIs DEF Blank
<1>3. \A m \in p..n : m + Continuation(tx, m) <= n + 1
  BY <1>1, ContinuationIs
<1>4. n + 1 \in S
  BY <1>1, <1>2, <1>3
<1>5. PICK k \in p..n + 1 : k \in S /\ \A m \in p..k - 1 : m \notin S
  <2>1. n + 1 \in p..n + 1 /\ n + 1 \in S /\ p \in Nat /\ n + 1 \in Nat
    BY <1>1, <1>4
  <2> HIDE DEF S, n, White, Stops
  <2> QED
    BY <2>1, First
<1>6. \A m \in p..k - 1 : m \in p..n + 1
  BY <1>1
<1>7. Stops(k) /\ \A m \in p..k - 1 : ~Stops(m)
  BY <1>5, <1>6
<1> QED
  BY <1>7 DEF EatWhitespace

-----------------------------------------------------------------------------
(***************************************************************************)
(* A string ends in the text.  From is recursive, and its values are those *)
(* of a function that is built from the end of the text on.                *)
(***************************************************************************)
\* A place with what is known there is an end, or leads to a later place.
MovesOn(n, K, ends, next) ==
  \A s \in (1..n) \X K : ~ends[s] => next[s] \in (1..n) \X K /\ next[s][1] > s[1]

\* f gives what is at the end.
Follows(n, K, f, ends, end, next) ==
  \A s \in (1..n) \X K : f[s] = IF ends[s] THEN end[s] ELSE f[next[s]]

\* There is such a function: it is built from the last places on.
LEMMA TailRecursion ==
  ASSUME NEW n \in Nat, NEW K, NEW ends, NEW end, NEW next, MovesOn(n, K, ends, next)
  PROVE  \E f : f = [s \in (1..n) \X K |-> f[s]] /\ Follows(n, K, f, ends, end, next)
<1> DEFINE S == (1..n) \X K
           From(m) == {s \in S : s[1] > n - m}
           Good(f, m) == \A s \in From(m) : f[s] = IF ends[s] THEN end[s] ELSE f[next[s]]
           Ok == {m \in Nat : m <= n => \E f : f = [s \in S |-> f[s]] /\ Good(f, m)}
<1>1. 0 \in Ok
  <2>1. From(0) = {}
    OBVIOUS
  <2> DEFINE f == [s \in S |-> end[s]]
  <2>2. Good(f, 0) /\ f = [s \in S |-> f[s]]
    BY <2>1
  <2> QED
    BY <2>2
<1>2. ASSUME NEW m \in Nat, m \in Ok PROVE m + 1 \in Ok
  <2> SUFFICES ASSUME m + 1 <= n PROVE \E f : f = [s \in S |-> f[s]] /\ Good(f, m + 1)
    OBVIOUS
  <2>1. PICK f : f = [s \in S |-> f[s]] /\ Good(f, m)
    BY <1>2
  <2> DEFINE g == [s \in S |-> IF s[1] = n - m THEN (IF ends[s] THEN end[s] ELSE f[next[s]])
                                                 ELSE f[s]]
  <2>2. g = [s \in S |-> g[s]]
    OBVIOUS
  <2>3. ASSUME NEW s \in From(m + 1) PROVE g[s] = IF ends[s] THEN end[s] ELSE g[next[s]]
    <3>1. s \in S /\ s[1] \in 1..n /\ s[1] > n - (m + 1) /\ (~ends[s] => next[s] \in S /\ next[s][1] > s[1])
      BY DEF MovesOn
    <3>2. CASE ends[s]
      <4>1. CASE s[1] = n - m
        BY <3>1, <3>2, <4>1
      <4>2. CASE s[1] # n - m
        <5>0. s[1] > n - m
          <6> DEFINE k == s[1]
          <6>1. k \in Int /\ k > n - (m + 1) /\ k # n - m
            BY <3>1, <4>2
          <6> HIDE DEF k
          <6> QED
            BY <6>1 DEF k
        <5>1. s \in From(m)
          BY <3>1, <5>0
        <5> QED
          BY <2>1, <3>1, <3>2, <4>2, <5>1
      <4> QED
        BY <4>1, <4>2
    <3>3. CASE ~ends[s]
      <4>1. next[s] \in S /\ next[s][1] > s[1] /\ next[s][1] \in 1..n /\ next[s][1] # n - m
        BY <3>1, <3>3
      <4>2. g[next[s]] = f[next[s]]
        BY <3>1, <4>1
      <4>3. CASE s[1] = n - m
        BY <3>1, <3>3, <4>2, <4>3
      <4>4. CASE s[1] # n - m
        <5>0. s[1] > n - m
          <6> DEFINE k == s[1]
          <6>1. k \in Int /\ k > n - (m + 1) /\ k # n - m
            BY <3>1, <4>4
          <6> HIDE DEF k
          <6> QED
            BY <6>1 DEF k
        <5>1. s \in From(m)
          BY <3>1, <5>0
        <5>2. f[s] = f[next[s]]
          BY <2>1, <3>3, <5>1
        <5> QED
          BY <3>1, <3>3, <4>2, <4>4, <5>2
      <4> QED
        BY <4>3, <4>4
    <3> QED
      BY <3>2, <3>3
  <2> QED
    BY <2>2, <2>3
<1>3. n \in Ok
  <2> HIDE DEF Ok
  <2> QED
    BY <1>1, <1>2, Induction
<1>4. PICK f : f = [s \in S |-> f[s]] /\ Good(f, n)
  BY <1>3
<1>5. From(n) = S
  OBVIOUS
<1> QED
  BY <1>4, <1>5 DEF Follows

\* The ends of a place are those that it may have, and so are the next one's.
Narrows(n, K, ends, end, next, V) ==
  \A s \in (1..n) \X K : IF ends[s] THEN end[s] \in V[s] ELSE V[next[s]] \subseteq V[s]

\* Then every place leads to an end that it may have.
LEMMA TailStays ==
  ASSUME NEW n \in Nat, NEW K, NEW f, NEW ends, NEW end, NEW next,
         MovesOn(n, K, ends, next), Follows(n, K, f, ends, end, next),
         NEW V, Narrows(n, K, ends, end, next, V)
  PROVE  \A s \in (1..n) \X K : f[s] \in V[s]
<1> DEFINE S == (1..n) \X K
           Ok == {m \in Nat : \A s \in S : s[1] > n - m => f[s] \in V[s]}
<1>1. 0 \in Ok
  OBVIOUS
<1>2. ASSUME NEW m \in Nat, m \in Ok PROVE m + 1 \in Ok
  <2> SUFFICES ASSUME NEW s \in S, s[1] > n - (m + 1) PROVE f[s] \in V[s]
    OBVIOUS
  <2>1. CASE ends[s]
    BY <2>1 DEF Follows, Narrows
  <2>2. CASE ~ends[s]
    <3>1. next[s] \in S /\ next[s][1] > s[1] /\ V[next[s]] \subseteq V[s]
      BY <2>2 DEF MovesOn, Narrows
    <3>2. next[s][1] \in 1..n /\ s[1] \in 1..n
      BY <3>1
    <3>3. next[s][1] > n - m
      BY <3>1, <3>2
    <3>4. f[next[s]] \in V[next[s]]
      BY <1>2, <3>1, <3>3
    <3>5. f[s] = f[next[s]]
      BY <2>2 DEF Follows
    <3> QED
      BY <3>1, <3>4, <3>5
  <2> QED
    BY <2>1, <2>2
<1>3. n + 1 \in Ok
  <2>1. Nat \subseteq Ok
    <3> HIDE DEF Ok
    <3> QED
      BY <1>1, <1>2, Induction
  <2> QED
    BY <2>1
<1>4. \A s \in S : s[1] > n - (n + 1)
  OBVIOUS
<1> QED
  BY <1>3, <1>4

\* A character of a string that does not end there leads to a later place.
LEMMA NextInStringIs ==
  ASSUME NEW tx \in Seq(Char), NEW s \in (1..Len(tx) + 1) \X (0..2), s[1] <= Len(tx),
         At(tx, s[1]) = "quote" => s[2] # 2
  PROVE  /\ NextInString(tx, s) \in (1..Len(tx) + 1) \X (0..2)
         /\ NextInString(tx, s)[1] > s[1]
<1> DEFINE k == s[1]
           q == s[2]
           escaped == IF Continuation(tx, k) > 0 THEN Continuation(tx, k)
                      ELSE IF At(tx, k + 1) \in {"\\", "quote"} THEN 2 ELSE 0
<1>1. k \in 1..Len(tx) /\ q \in 0..2 /\ Len(tx) \in Nat /\ k \in Nat \ {0} /\ k + 1 \in Nat \ {0}
  OBVIOUS
<1>2. escaped \in Nat /\ k + escaped \in Nat /\ (escaped > 0 => k + escaped \in 1..Len(tx) + 1)
  <2>1. CASE Continuation(tx, k) > 0
    BY <1>1, <2>1, ContinuationIs
  <2>2. CASE ~(Continuation(tx, k) > 0) /\ At(tx, k + 1) \in {"\\", "quote"}
    <3>1. k + 1 <= Len(tx)
      BY <1>1, <2>2, AtIs
    <3> QED
      BY <1>1, <2>2, <3>1
  <2>3. CASE ~(Continuation(tx, k) > 0) /\ At(tx, k + 1) \notin {"\\", "quote"}
    BY <1>1, <2>3
  <2> QED
    BY <2>1, <2>2, <2>3
<1>3. NextInString(tx, s) = IF At(tx, k) = "\\" /\ escaped > 0 THEN <<k + escaped, q>>
                            ELSE <<k + 1, IF At(tx, k) = "quote" THEN q + 1 ELSE 0>>
  BY DEF NextInString
<1>4. k + 1 \in 1..Len(tx) + 1 /\ (At(tx, k) = "quote" => q + 1 \in 0..2)
  BY <1>1
<1> HIDE DEF escaped
<1>5. CASE At(tx, k) = "\\" /\ escaped > 0
  BY <1>1, <1>2, <1>3, <1>5
<1>6. CASE ~(At(tx, k) = "\\" /\ escaped > 0)
  BY <1>1, <1>3, <1>4, <1>6
<1> QED
  BY <1>5, <1>6

\* A string ends in the text, at or after the place that follows its quote.
LEMMA StringIs ==
  ASSUME NEW tx \in Seq(Char), NEW p \in 1..Len(tx) + 1
  PROVE  String(tx, p).next \in p..Len(tx) + 1
<1> DEFINE n == Len(tx) + 1
           K == 0..2
           S == (1..n) \X K
           triple == Reads(tx, p, <<"quote", "quote">>)
           Breaks(k) == ~triple /\ AtNewline(tx, k)
           Body(f) == [s \in S |->
             LET c == At(tx, s[1])
                 next == NextInString(tx, s)
             IN  CASE c = "eof" -> Literal(s[1], FALSE, triple)
                   [] c = "quote" /\ (~triple \/ s[2] = 2) -> Literal(s[1] + 1, TRUE, triple)
                   [] OTHER -> IF Breaks(next[1]) THEN Literal(next[1], FALSE, triple)
                               ELSE f[next]]
           From == CHOOSE f : f = Body(f)
           AtEnd(s) == At(tx, s[1]) = "eof"
           Closes(s) == ~AtEnd(s) /\ At(tx, s[1]) = "quote" /\ (~triple \/ s[2] = 2)
           Broken(s) == ~AtEnd(s) /\ ~Closes(s) /\ Breaks(NextInString(tx, s)[1])
           ends == [s \in S |-> AtEnd(s) \/ Closes(s) \/ Broken(s)]
           place(s) == IF AtEnd(s) THEN s[1] ELSE IF Closes(s) THEN s[1] + 1
                       ELSE NextInString(tx, s)[1]
           end == [s \in S |-> Literal(place(s), Closes(s), triple)]
           next == [s \in S |-> IF AtEnd(s) \/ Closes(s) THEN s ELSE NextInString(tx, s)]
           R == [next : 1..n, terminated : BOOLEAN, triple_quoted : BOOLEAN]
           V == [s \in S |-> {r \in R : r.next >= s[1]}]
<1>1. n \in Nat /\ Len(tx) \in Nat /\ p \in 1..n /\ triple \in BOOLEAN
  BY DEF Reads
<1>2. \A s \in S : /\ s[1] \in 1..n /\ s[2] \in 0..2
                   /\ ~AtEnd(s) => s[1] <= Len(tx) /\ s[1] + 1 \in 1..n
                   /\ AtEnd(s) \/ Closes(s) \/ (NextInString(tx, s) \in S /\ NextInString(tx, s)[1] > s[1])
  <2> TAKE s \in S
  <2>1. s[1] \in 1..n /\ s[2] \in 0..2 /\ s[1] \in Nat \ {0}
    BY <1>1
  <2>2. ~AtEnd(s) => s[1] <= Len(tx)
    BY <2>1, AtIs
  <2>3. ASSUME ~AtEnd(s), ~Closes(s)
        PROVE  NextInString(tx, s) \in S /\ NextInString(tx, s)[1] > s[1]
    BY <2>1, <2>2, <2>3, NextInStringIs
  <2> QED
    BY <1>1, <2>1, <2>2, <2>3
<1>4. \A s \in S : place(s) \in 1..n /\ place(s) >= s[1]
  <2> TAKE s \in S
  <2> HIDE DEF AtEnd, Closes
  <2> QED
    BY <1>1, <1>2
<1>5. \A s \in S : end[s] \in R /\ end[s] \in V[s]
  <2> TAKE s \in S
  <2>1. end[s] = [next |-> place(s), terminated |-> Closes(s), triple_quoted |-> triple]
    BY DEF Literal
  <2>2. Closes(s) \in BOOLEAN /\ place(s) \in 1..n /\ place(s) >= s[1]
    BY <1>4
  <2> HIDE DEF Closes, place, end, triple
  <2>3. end[s] \in R /\ end[s].next >= s[1]
    BY <1>1, <2>1, <2>2
  <2> QED
    BY <2>3
<1>7. \A s \in S : ~ends[s] => next[s] \in S /\ next[s][1] > s[1] /\ V[next[s]] \subseteq V[s]
  <2> SUFFICES ASSUME NEW s \in S, ~ends[s]
               PROVE  next[s] \in S /\ next[s][1] > s[1] /\ V[next[s]] \subseteq V[s]
    OBVIOUS
  <2>1. next[s] = NextInString(tx, s) /\ next[s] \in S /\ next[s][1] > s[1]
    BY <1>2
  <2>2. next[s][1] \in 1..n /\ s[1] \in 1..n
    BY <1>2, <2>1
  <2> HIDE DEF next
  <2>3. ASSUME NEW r \in V[next[s]] PROVE r \in V[s]
    <3>1. r \in R /\ r.next >= next[s][1] /\ r.next \in 1..n
      BY <2>1
    <3> QED
      BY <1>1, <2>1, <2>2, <3>1
  <2> QED
    BY <2>1, <2>3

<1>6. MovesOn(n, K, ends, next)
  BY <1>7 DEF MovesOn
<1>8. \A f : \A s \in S : Body(f)[s] = IF ends[s] THEN end[s] ELSE f[next[s]]
  <2> SUFFICES ASSUME NEW f, NEW s \in S
               PROVE  Body(f)[s] = IF ends[s] THEN end[s] ELSE f[next[s]]
    OBVIOUS
  <2>1. CASE AtEnd(s)
    BY <2>1 DEF Literal
  <2>2. CASE Closes(s)
    BY <2>2
  <2>3. CASE Broken(s)
    BY <2>3
  <2>4. CASE ~AtEnd(s) /\ ~Closes(s) /\ ~Broken(s)
    BY <2>4
  <2> QED
    BY <2>1, <2>2, <2>3, <2>4
<1>9. \E f : f = Body(f)
  <2>1. PICK f : f = [s \in S |-> f[s]] /\ Follows(n, K, f, ends, end, next)
    <3> HIDE DEF n, K, ends, end, next
    <3> QED
      BY <1>1, <1>6, TailRecursion
  <2>2. \A s \in S : f[s] = Body(f)[s]
    <3> HIDE DEF Body, ends, end, next
    <3> QED
      BY <1>8, <2>1 DEF Follows
  <2>3. Body(f) = [s \in S |-> Body(f)[s]]
    OBVIOUS
  <2> HIDE DEF Body
  <2>4. f = Body(f)
    BY <2>1, <2>2, <2>3
  <2> QED
    BY <2>4
<1>10. From = Body(From)
  <2> HIDE DEF Body
  <2> QED
    BY <1>9
<1>11. \A s \in S : From[s] \in V[s]
  <2>1. Follows(n, K, From, ends, end, next)
    <3> HIDE DEF Body, From, ends, end, next
    <3> QED
      BY <1>8, <1>10 DEF Follows
  <2>2. Narrows(n, K, ends, end, next, V)
    <3> HIDE DEF ends, end, next, V
    <3> QED
      BY <1>5, <1>7 DEF Narrows
  <2> HIDE DEF n, K, From, ends, end, next, V
  <2> QED
    BY <1>1, <1>6, <2>1, <2>2, TailStays
<1>12. \A s \in S : From[s].next \in s[1]..n
  <2> TAKE s \in S
  <2>1. From[s] \in R /\ From[s].next >= s[1] /\ s[1] \in 1..n
    <3> HIDE DEF From
    <3> QED
      BY <1>2, <1>11
  <2>2. From[s].next \in 1..n
    <3> HIDE DEF From
    <3> QED
      BY <2>1
  <2> HIDE DEF From
  <2> QED
    BY <1>1, <2>1, <2>2
<1>13. String(tx, p) = IF Breaks(p) THEN Literal(p, FALSE, triple)
                       ELSE From[IF triple THEN <<p + 2, 0>> ELSE <<p, 0>>]
  BY DEF String
<1>14. triple => <<p + 2, 0>> \in S
  <2> SUFFICES ASSUME triple PROVE p + 1 <= Len(tx)
    BY <1>1
  <2>1. At(tx, p + 1) = "quote"
    BY <1>1 DEF Reads
  <2> QED
    BY <1>1, <2>1, AtIs
<1>15. <<p, 0>> \in S
  BY <1>1
<1> HIDE DEF From, n, Breaks, triple
<1>16. CASE Breaks(p)
  BY <1>1, <1>13, <1>16 DEF Literal, n
<1>17. CASE ~Breaks(p) /\ triple
  BY <1>1, <1>12, <1>13, <1>14, <1>17 DEF n
<1>18. CASE ~Breaks(p) /\ ~triple
  BY <1>1, <1>12, <1>13, <1>15, <1>18 DEF n
<1> QED
  BY <1>16, <1>17, <1>18

-----------------------------------------------------------------------------
(***************************************************************************)
(* What is invariant of the cursor as it moves over a text: the columns of *)
(* the open blocks get deeper along the stack, the blocks of the tokens    *)
(* are those on the stack and those still to be closed, only while closing *)
(* is there white space that no token has yet, and the tokens lie end to   *)
(* end up to where the next begins.                                        *)
(***************************************************************************)
Places == 1..Len(text) + 1

Kind == Char \cup {"Newline", "Whitespace", "Comment", "Literal", "Indent", "Dedent"}

TokenRecord == [kind : Kind, len : Nat, consistent : BOOLEAN]

CursorRecord ==
  [state : {"BeforeLeadingSpaces", "Dedenting", "AfterLeadingSpaces"},
   pos : Places, start : Places, indents : Seq(Nat), closers : Seq({")", "]"}),
   remaining : Nat, consistent : BOOLEAN, tokens : Seq(TokenRecord)]

TypeOK(cu) == text \in Seq(Char) /\ cu \in CursorRecord

Deepen(columns) ==
  \A k \in DOMAIN columns : columns[k] > 0 /\ \A i \in 1..k - 1 : columns[i] < columns[k]

CursorShape(cu) ==
  /\ cu.start <= cu.pos
  /\ cu.start < cu.pos => cu.state = "Dedenting"
  /\ cu.state = "Dedenting" <=> cu.remaining > 0

BlocksAreOpen(cu) ==
  /\ \A i \in 0..Len(cu.tokens) : Depth(cu.tokens, i) >= 0
  /\ Depth(cu.tokens, Len(cu.tokens)) = Len(cu.indents) + cu.remaining

TokensHaveText(cu) ==
  \A i \in DOMAIN cu.tokens : cu.tokens[i].kind # "Dedent" => cu.tokens[i].len > 0

\* The tokens lie end to end, from the beginning of the text to a position.
EndToEnd(tokens, end) ==
  \E at \in [1..Len(tokens) + 1 -> 1..end] :
    /\ at[1] = 1 /\ at[Len(tokens) + 1] = end
    /\ \A i \in DOMAIN tokens : at[i + 1] = at[i] + tokens[i].len

IInv(cu) ==
  /\ TypeOK(cu) /\ Deepen(cu.indents) /\ CursorShape(cu) /\ BlocksAreOpen(cu) /\ TokensHaveText(cu)
  /\ EndToEnd(cu.tokens, cu.start)

\* The calls of the iterator that are left, at most: each takes a character, ends
\* a block, or leaves the beginning of a line.
Counted(cu) == 2 * ((Len(text) + 1) - cu.start) + Len(cu.indents) + cu.remaining
Left(cu) == IF cu.state = "BeforeLeadingSpaces" THEN Counted(cu) + 1 ELSE Counted(cu)

\* A token more leaves the blocks of those before it; it opens or closes one.
LEMMA NestingIs ==
  ASSUME NEW tokens \in Seq(TokenRecord), NEW t \in TokenRecord
  PROVE  /\ \A n \in 0..Len(tokens) : /\ Depth(tokens, n) \in Int
                                      /\ Depth(Append(tokens, t), n) = Depth(tokens, n)
         /\ Depth(Append(tokens, t), Len(tokens) + 1) =
              Depth(tokens, Len(tokens)) + (IF t.kind = "Indent" THEN 1
                                              ELSE IF t.kind = "Dedent" THEN -1 ELSE 0)
<1> DEFINE more == Append(tokens, t)
           m == Len(tokens)
           Among(s, kind, n) == {i \in 1..n : s[i].kind = kind}
           Size(s, kind, n) == Cardinality(Among(s, kind, n))
<1>1. /\ m \in Nat /\ more \in Seq(TokenRecord) /\ Len(more) = m + 1
      /\ more[m + 1] = t /\ \A i \in 1..m : more[i] = tokens[i]
  OBVIOUS
<1> HIDE DEF more, m, Among
<1>2. ASSUME NEW kind, NEW n \in 0..m
      PROVE  /\ Among(more, kind, n) = Among(tokens, kind, n)
             /\ IsFiniteSet(Among(tokens, kind, n)) /\ Size(tokens, kind, n) \in Nat
  <2>1. Among(more, kind, n) = Among(tokens, kind, n)
    BY <1>1 DEF Among
  <2>2. IsFiniteSet(1..n)
    BY <1>1, FS_Interval
  <2>3. Among(tokens, kind, n) \subseteq 1..n
    BY DEF Among
  <2>4. IsFiniteSet(Among(tokens, kind, n))
    BY <2>2, <2>3, FS_Subset
  <2> QED
    BY <2>1, <2>4, FS_CardinalityType
<1>3. ASSUME NEW kind
      PROVE  Size(more, kind, m + 1) = Size(tokens, kind, m) + (IF t.kind = kind THEN 1 ELSE 0)
  <2>1. m \in 0..m /\ m + 1 \notin Among(tokens, kind, m)
    BY <1>1 DEF Among
  <2>2. \A i \in 1..m + 1 : i \in 1..m \/ i = m + 1
    BY <1>1
  <2>3. CASE t.kind = kind
    <3>1. Among(more, kind, m + 1) = Among(tokens, kind, m) \cup {m + 1}
      BY <1>1, <2>2, <2>3 DEF Among
    <3>2. Cardinality(Among(tokens, kind, m) \cup {m + 1}) = Size(tokens, kind, m) + 1
      <4> HIDE DEF Size
      <4>1. IsFiniteSet(Among(tokens, kind, m))
        BY <1>2, <2>1
      <4> QED
        BY <2>1, <4>1, FS_AddElement DEF Size
    <3> QED
      BY <2>3, <3>1, <3>2
  <2>4. CASE t.kind # kind
    <3>1. Among(more, kind, m + 1) = Among(tokens, kind, m)
      BY <1>1, <2>2, <2>4 DEF Among
    <3>2. Size(tokens, kind, m) \in Nat
      BY <1>2, <2>1
    <3> QED
      BY <2>4, <3>1, <3>2
  <2> QED
    BY <2>3, <2>4
<1>4. ASSUME NEW n \in 0..m
      PROVE  Depth(tokens, n) \in Int /\ Depth(more, n) = Depth(tokens, n)
  <2>1. /\ Depth(tokens, n) = Size(tokens, "Indent", n) - Size(tokens, "Dedent", n)
        /\ Depth(more, n) = Size(more, "Indent", n) - Size(more, "Dedent", n)
    BY DEF Depth, Count, Among
  <2> HIDE DEF Size
  <2>2. \A kind : Size(more, kind, n) = Size(tokens, kind, n) /\ Size(tokens, kind, n) \in Nat
    BY <1>2 DEF Size
  <2> QED
    BY <2>1, <2>2
<1>5. Depth(more, m + 1) = Depth(tokens, m) + (IF t.kind = "Indent" THEN 1
                                                   ELSE IF t.kind = "Dedent" THEN -1 ELSE 0)
  <2>1. m \in 0..m /\ "Indent" # "Dedent"
    BY <1>1
  <2>2. Size(tokens, "Indent", m) \in Nat /\ Size(tokens, "Dedent", m) \in Nat
    BY <1>2, <2>1
  <2>3. /\ Size(more, "Indent", m + 1) = Size(tokens, "Indent", m) + (IF t.kind = "Indent" THEN 1 ELSE 0)
        /\ Size(more, "Dedent", m + 1) = Size(tokens, "Dedent", m) + (IF t.kind = "Dedent" THEN 1 ELSE 0)
    BY <1>3
  <2>4. /\ Depth(more, m + 1) = Size(more, "Indent", m + 1) - Size(more, "Dedent", m + 1)
        /\ Depth(tokens, m) = Size(tokens, "Indent", m) - Size(tokens, "Dedent", m)
    BY DEF Depth, Count, Among
  <2> HIDE DEF Size
  <2> QED
    BY <2>1, <2>2, <2>3, <2>4
<1> QED
  BY <1>4, <1>5 DEF more, m

\* A token more lies at the end of the others.
LEMMA EndToEndIs ==
  ASSUME NEW tokens \in Seq(TokenRecord), NEW t \in TokenRecord, NEW end \in Nat \ {0},
         EndToEnd(tokens, end)
  PROVE  EndToEnd(Append(tokens, t), end + t.len)
<1> DEFINE m == Len(tokens)
           more == Append(tokens, t)
<1>1. /\ m \in Nat /\ Len(more) = m + 1 /\ more[m + 1] = t /\ \A i \in 1..m : more[i] = tokens[i]
      /\ DOMAIN tokens = 1..m /\ DOMAIN more = 1..m + 1
  OBVIOUS
<1>2. t.len \in Nat
  BY DEF TokenRecord
<1>3. PICK at \in [1..m + 1 -> 1..end] : /\ at[1] = 1 /\ at[m + 1] = end
                                         /\ \A i \in 1..m : at[i + 1] = at[i] + tokens[i].len
  BY <1>1 DEF EndToEnd
<1> HIDE DEF m, more
<1> DEFINE next == [i \in 1..(m + 1) + 1 |-> IF i = m + 2 THEN end + t.len ELSE at[i]]
<1>4. next \in [1..(m + 1) + 1 -> 1..end + t.len]
  <2>1. ASSUME NEW i \in 1..(m + 1) + 1 PROVE next[i] \in 1..end + t.len
    <3>1. CASE i = m + 2
      BY <1>1, <1>2, <3>1
    <3>2. CASE i # m + 2
      <4>1. i \in 1..m + 1
        BY <1>1, <3>2
      <4> QED
        BY <1>2, <1>3, <3>2, <4>1
    <3> QED
      BY <3>1, <3>2
  <2> QED
    BY <2>1
<1>5. next[1] = 1 /\ next[(m + 1) + 1] = end + t.len
  BY <1>1, <1>3
<1>6. ASSUME NEW i \in 1..m + 1 PROVE next[i + 1] = next[i] + more[i].len
  <2>1. CASE i = m + 1
    BY <1>1, <1>3, <2>1
  <2>2. CASE i # m + 1
    <3>1. i \in 1..m /\ i + 1 \in 1..m + 1 /\ i + 1 # m + 2 /\ i # m + 2
      BY <1>1, <2>2
    <3> QED
      BY <1>1, <1>3, <3>1
  <2> QED
    BY <2>1, <2>2
<1>7. next[Len(more) + 1] = end + t.len /\ next \in [1..Len(more) + 1 -> 1..end + t.len]
  BY <1>1, <1>4, <1>5
<1>8. \A i \in DOMAIN more : next[i + 1] = next[i] + more[i].len
  BY <1>1, <1>6
<1> HIDE DEF next
<1>9. EndToEnd(more, end + t.len)
  BY <1>5, <1>7, <1>8 DEF EndToEnd
<1> QED
  BY <1>9 DEF more

-----------------------------------------------------------------------------
\* The invariant is about the cursor's tokens, columns and places.
LEMMA CursorIs ==
  ASSUME NEW cursor, IInv(cursor)
  PROVE  /\ text \in Seq(Char) /\ cursor \in CursorRecord
         /\ cursor.pos \in Places /\ cursor.start \in Places /\ cursor.start <= cursor.pos
         /\ cursor.pos \in Nat \ {0} /\ cursor.start \in Nat \ {0} /\ Len(text) \in Nat
         /\ cursor.indents \in Seq(Nat) /\ Deepen(cursor.indents) /\ Len(cursor.indents) \in Nat
         /\ cursor.closers \in Seq({")", "]"}) /\ cursor.tokens \in Seq(TokenRecord)
         /\ cursor.remaining \in Nat /\ cursor.consistent \in BOOLEAN
         /\ cursor.state # "Dedenting" => cursor.start = cursor.pos /\ cursor.remaining = 0
         /\ cursor.state = "Dedenting" => cursor.remaining > 0
<1>1. text \in Seq(Char) /\ cursor \in CursorRecord
  BY DEF IInv, TypeOK
<1> QED
  BY <1>1 DEF IInv, CursorShape, CursorRecord, Places

\* The calls that are left, for the numbers that they depend on.
LEMMA LeftIs ==
  ASSUME NEW cursor, IInv(cursor)
  PROVE  /\ Left(cursor) \in Int /\ Counted(cursor) \in Int
         /\ Len(text) \in Nat /\ cursor.start \in Nat /\ Len(cursor.indents) \in Nat
         /\ cursor.remaining \in Nat
<1>1. /\ Len(text) \in Nat /\ cursor.start \in Nat /\ Len(cursor.indents) \in Nat
      /\ cursor.remaining \in Nat
  BY CursorIs
<1>2. Counted(cursor) \in Int
  BY <1>1 DEF Counted
<1>3. CASE cursor.state = "BeforeLeadingSpaces"
  BY <1>1, <1>2, <1>3 DEF Left
<1>4. CASE cursor.state # "BeforeLeadingSpaces"
  BY <1>1, <1>2, <1>4 DEF Left
<1> QED
  BY <1>1, <1>2, <1>3, <1>4

\* What the invariant says of the tokens survives a token more: it takes the
\* text from where the others end, it has text unless it is a DEDENT, and a
\* DEDENT closes what is open.
LEMMA Added ==
  ASSUME NEW cursor, NEW stepped, IInv(cursor), NEW t \in TokenRecord, stepped.tokens = Append(cursor.tokens, t),
         stepped.start = cursor.start + t.len, t.kind # "Dedent" => t.len > 0,
         Len(cursor.indents) + cursor.remaining + (IF t.kind = "Indent" THEN 1
                                                   ELSE IF t.kind = "Dedent" THEN -1 ELSE 0)
           = Len(stepped.indents) + stepped.remaining,
         Len(stepped.indents) + stepped.remaining >= 0
  PROVE  BlocksAreOpen(stepped) /\ TokensHaveText(stepped) /\ EndToEnd(stepped.tokens, stepped.start)
<1> DEFINE tokens == cursor.tokens
           more == Append(tokens, t)
           m == Len(tokens)
<1>1. /\ tokens \in Seq(TokenRecord) /\ cursor.start \in Nat \ {0} /\ m \in Nat
      /\ stepped.tokens = more
  BY DEF IInv, TypeOK, CursorRecord, Places
<1>2. Len(more) = m + 1 /\ more[m + 1] = t /\ \A i \in 1..m : more[i] = tokens[i]
  BY <1>1
<1>3. EndToEnd(more, stepped.start)
  BY <1>1, EndToEndIs DEF IInv
<1>4. TokensHaveText(stepped)
  <2>1. DOMAIN more = 1..m + 1 /\ DOMAIN tokens = 1..m
    BY <1>1, <1>2
  <2> HIDE DEF more, m, tokens
  <2>2. \A i \in 1..m + 1 : i \in 1..m \/ i = m + 1
    BY <1>1
  <2> QED
    BY <1>1, <1>2, <2>1, <2>2 DEF IInv, TokensHaveText, tokens
<1>5. BlocksAreOpen(stepped)
  <2>1. /\ \A n \in 0..m : Depth(tokens, n) >= 0 /\ Depth(more, n) = Depth(tokens, n)
        /\ Depth(tokens, m) = Len(cursor.indents) + cursor.remaining
        /\ Depth(more, m + 1) =
             Depth(tokens, m) + (IF t.kind = "Indent" THEN 1
                                   ELSE IF t.kind = "Dedent" THEN -1 ELSE 0)
    BY <1>1, NestingIs DEF IInv, BlocksAreOpen
  <2> HIDE DEF more, m, tokens
  <2>2. \A i \in 0..m + 1 : i \in 0..m \/ i = m + 1
    BY <1>1
  <2>3. Depth(more, m + 1) = Len(stepped.indents) + stepped.remaining
    BY <2>1
  <2>4. \A i \in 0..m + 1 : Depth(more, i) >= 0
    BY <2>1, <2>2, <2>3
  <2> QED
    BY <1>1, <1>2, <2>3, <2>4 DEF BlocksAreOpen
<1> QED
  BY <1>1, <1>3, <1>4, <1>5

\* The invariant survives a token that is emitted.
LEMMA Emitted ==
  ASSUME NEW cursor, NEW stepped, IInv(cursor), NEW cu \in CursorRecord, NEW kind \in Kind, kind # "Dedent",
         cu.tokens = cursor.tokens, cu.start = cursor.start, cu.remaining = 0,
         cu.state # "Dedenting", kind = "Indent" => cu.state = "AfterLeadingSpaces",
         cursor.remaining = 0, Deepen(cu.indents),
         kind = "Indent" => Len(cu.indents) = Len(cursor.indents) + 1,
         kind # "Indent" => Len(cu.indents) = Len(cursor.indents),
         NEW pos \in Places, pos > cursor.start, stepped = Emit(cu, kind, pos)
  PROVE  IInv(stepped) /\ Left(stepped) < Left(cursor)
<1> DEFINE t == Token(kind, pos - cursor.start, TRUE)
<1>1. cu.tokens \in Seq(TokenRecord) /\ cursor.start \in Places /\ pos \in Nat /\ cursor.start \in Nat
  BY DEF IInv, TypeOK, CursorRecord, Places
<1>2. t \in TokenRecord /\ t.kind = kind /\ t.len = pos - cursor.start /\ t.len > 0
  BY <1>1 DEF Token, TokenRecord
<1>3. stepped = [cu EXCEPT !.tokens = Append(cu.tokens, t), !.pos = pos, !.start = pos]
  BY DEF Emit
<1> HIDE DEF t
<1>4. Append(cu.tokens, t) \in Seq(TokenRecord)
  BY <1>1, <1>2
<1>5. /\ stepped \in CursorRecord /\ stepped.state = cu.state /\ stepped.pos = pos
      /\ stepped.start = pos /\ stepped.indents = cu.indents /\ stepped.remaining = 0
      /\ stepped.tokens = Append(cursor.tokens, t)
  BY <1>3, <1>4 DEF CursorRecord
<1>6. TypeOK(stepped)
  BY <1>5 DEF IInv, TypeOK, CursorRecord, Places
<1>7. Deepen(stepped.indents)
  BY <1>5
<1>8. CursorShape(stepped)
  BY <1>1, <1>5 DEF CursorShape
<1>9. /\ stepped.start = cursor.start + t.len
      /\ Len(cursor.indents) + cursor.remaining + (IF t.kind = "Indent" THEN 1
                                                   ELSE IF t.kind = "Dedent" THEN -1 ELSE 0)
           = Len(stepped.indents) + stepped.remaining
      /\ Len(stepped.indents) + stepped.remaining >= 0
  <2>1. Len(cu.indents) \in Nat /\ Len(cursor.indents) \in Nat
    BY DEF IInv, TypeOK, CursorRecord
  <2>2. stepped.start = cursor.start + t.len
    BY <1>1, <1>2, <1>5
  <2> DEFINE more == IF t.kind = "Indent" THEN 1 ELSE IF t.kind = "Dedent" THEN -1 ELSE 0
  <2>3. kind = "Indent" => more = 1 /\ Len(cu.indents) = Len(cursor.indents) + 1
    BY <1>2
  <2>4. kind # "Indent" => more = 0 /\ Len(cu.indents) = Len(cursor.indents)
    BY <1>2
  <2> HIDE DEF more
  <2>5. more \in Int /\ Len(cu.indents) = Len(cursor.indents) + more
    <3>1. CASE kind = "Indent"
      BY <2>1, <2>3, <3>1
    <3>2. CASE kind # "Indent"
      BY <2>1, <2>4, <3>2
    <3> QED
      BY <3>1, <3>2
  <2>6. stepped.indents = cu.indents /\ stepped.remaining = 0 /\ cursor.remaining = 0
    BY <1>5
  <2>7. /\ Len(cursor.indents) + cursor.remaining + more = Len(stepped.indents) + stepped.remaining
        /\ Len(stepped.indents) + stepped.remaining >= 0
    BY <2>1, <2>5, <2>6
  <2> QED
    BY <2>2, <2>7 DEF more
<1>10. BlocksAreOpen(stepped) /\ TokensHaveText(stepped) /\ EndToEnd(stepped.tokens, stepped.start)
  BY <1>2, <1>5, <1>9, Added
<1>11. IInv(stepped)
  BY <1>6, <1>7, <1>8, <1>10 DEF IInv
<1>12. Left(stepped) < Left(cursor)
  <2> DEFINE n == Len(cursor.indents)
             end == Len(text) + 1
  <2>1. /\ n \in Nat /\ cursor.start \in Nat /\ end \in Nat /\ pos >= cursor.start + 1
        /\ Left(cursor) \in Int /\ Counted(cursor) \in Int
        /\ Left(stepped) \in Int /\ Counted(stepped) \in Int
    BY <1>1, <1>11, LeftIs
  <2>2. /\ stepped.start = pos /\ stepped.remaining = 0 /\ stepped.indents = cu.indents
        /\ stepped.state = cu.state
    BY <1>5
  <2>3. Counted(cursor) = 2 * (end - cursor.start) + n
    <3> DEFINE none == cursor.remaining
    <3>1. Counted(cursor) = 2 * (end - cursor.start) + n + none
      BY <2>1 DEF Counted
    <3>2. none = 0
      OBVIOUS
    <3> HIDE DEF end, n, none
    <3> QED
      BY <2>1, <3>1, <3>2
  <2>4. Left(cursor) >= Counted(cursor)
    BY <2>1 DEF Left
  <2>5. CASE kind = "Indent"
    <3>1. Left(stepped) = Counted(stepped)
      BY <2>2, <2>5 DEF Left
    <3>2. Counted(stepped) = 2 * (end - pos) + (n + 1)
      <4> DEFINE more == Len(cu.indents)
                 none == stepped.remaining
      <4>1. Counted(stepped) = 2 * (end - pos) + more + none
        BY <2>2 DEF Counted
      <4>2. more = n + 1 /\ none = 0
        BY <2>2, <2>5
      <4> HIDE DEF end, n, more, none
      <4> QED
        BY <1>1, <2>1, <4>1, <4>2
    <3> HIDE DEF end, n
    <3> QED
      BY <1>1, <2>1, <2>3, <2>4, <3>1, <3>2
  <2>6. CASE kind # "Indent"
    <3>1. Left(stepped) <= Counted(stepped) + 1
      BY <2>1 DEF Left
    <3>2. Counted(stepped) = 2 * (end - pos) + n
      <4> DEFINE more == Len(cu.indents)
                 none == stepped.remaining
      <4>1. Counted(stepped) = 2 * (end - pos) + more + none
        BY <2>2 DEF Counted
      <4>2. more = n /\ none = 0
        BY <2>2, <2>6
      <4> HIDE DEF end, n, more, none
      <4> QED
        BY <1>1, <2>1, <4>1, <4>2
    <3> HIDE DEF end, n
    <3> QED
      BY <1>1, <2>1, <2>3, <2>4, <3>1, <3>2
  <2> QED
    BY <2>5, <2>6
<1> QED
  BY <1>11, <1>12

-----------------------------------------------------------------------------
\* The width of no white space is nothing.
LEMMA WidthIs ==
  ASSUME NEW blanks \in Seq(Char \cup {"eof"})
  PROVE  Width(blanks) \in Nat /\ (blanks = <<>> => Width(blanks) = 0)
<1> DEFINE Blanks(c) == {i \in DOMAIN blanks : blanks[i] = c}
<1>1. ASSUME NEW c PROVE /\ Cardinality(Blanks(c)) \in Nat
                         /\ blanks = <<>> => Cardinality(Blanks(c)) = 0
  <2>1. Blanks(c) \subseteq 1..Len(blanks) /\ Len(blanks) \in Nat
    OBVIOUS
  <2>2. IsFiniteSet(1..Len(blanks))
    BY <2>1, FS_Interval
  <2>3. IsFiniteSet(Blanks(c))
    BY <2>1, <2>2, FS_Subset
  <2>4. blanks = <<>> => Blanks(c) = {}
    OBVIOUS
  <2> HIDE DEF Blanks
  <2> QED
    BY <2>3, <2>4, FS_CardinalityType, FS_EmptySet
<1>2. Width(blanks) = Cardinality(Blanks("sp")) + 4 * Cardinality(Blanks("tab"))
  BY DEF Width
<1> HIDE DEF Blanks
<1> QED
  BY <1>1, <1>2

\* The cursor once all levels but some are popped.
Dedented(cu, indent, pos, left) ==
  [cu EXCEPT !.indents = SubSeq(cu.indents, 1, left), !.pos = pos, !.state = "Dedenting",
             !.remaining = Len(cu.indents) - left,
             !.consistent = Top(SubSeq(cu.indents, 1, left)) = indent]

\* The columns that are deeper than another are the last ones.
Pops(columns, w, left) == \A k \in DOMAIN columns : columns[k] > w <=> k > left

\* Popping the levels that are deeper than a line leaves some of them, fewer
\* if the last is deeper.
LEMMA DedentingIs ==
  ASSUME NEW cu \in CursorRecord, Deepen(cu.indents), NEW indent \in Nat,
         Top(cu.indents) > indent, NEW pos \in Nat
  PROVE  \E left \in Nat :
           /\ left < Len(cu.indents)
           /\ SubSeq(cu.indents, 1, left) \in Seq(Nat)
           /\ Len(SubSeq(cu.indents, 1, left)) = left
           /\ Deepen(SubSeq(cu.indents, 1, left))
           /\ Pops(cu.indents, indent, left)
           /\ StartDedenting(cu, indent, pos) = Dedented(cu, indent, pos, left)
<1> DEFINE all == cu.indents
           Kept(n) == SubSeq(all, 1, n)
           Leaves(n) == /\ Top(Kept(n)) <= indent
                        /\ \A k \in n + 1..Len(all) : Top(Kept(k)) > indent
           left == CHOOSE n \in 0..Len(all) : Leaves(n)
<1>1. all \in Seq(Nat) /\ Len(all) \in Nat
  BY DEF CursorRecord
<1>2. ASSUME NEW n \in 0..Len(all)
      PROVE  /\ Kept(n) \in Seq(Nat) /\ Len(Kept(n)) = n
             /\ \A i \in 1..n : Kept(n)[i] = all[i]
             /\ Top(Kept(n)) = IF n = 0 THEN 0 ELSE all[n]
  <2>1. Kept(n) \in Seq(Nat) /\ Len(Kept(n)) = n /\ \A i \in 1..n : Kept(n)[i] = all[i]
    BY <1>1
  <2> HIDE DEF Kept
  <2>2. Kept(n) = <<>> <=> n = 0
    BY <2>1
  <2> QED
    BY <2>1, <2>2 DEF Top
<1>3. Top(Kept(Len(all))) > indent /\ Top(Kept(Len(all))) \in Nat
  BY <1>1 DEF Top
<1>4. \E n \in 0..Len(all) : Leaves(n)
  <2> DEFINE Reaches == {n \in Nat : n <= Len(all) /\ \A k \in n + 1..Len(all) : Top(Kept(k)) > indent}
  <2>1. Len(all) \in Reaches /\ Reaches \subseteq Nat /\ \A k \in Nat : k \in Reaches => k <= Len(all)
    BY <1>1
  <2>2. PICK m \in Reaches : \A k \in Reaches : m <= k
    <3> HIDE DEF Reaches
    <3> QED
      BY <2>1, Least
  <2>3. m \in 0..Len(all)
    BY <2>1, <2>2
  <2>4. Top(Kept(m)) \in Nat
    BY <1>1, <1>2, <2>3
  <2>5. CASE Top(Kept(m)) > indent
    <3>1. m # 0
      BY <1>2, <2>3, <2>5
    <3>2. m - 1 \in Nat /\ m - 1 <= Len(all)
      BY <1>1, <2>3, <3>1
    <3>3. \A k \in (m - 1) + 1..Len(all) : Top(Kept(k)) > indent
      <4>1. ASSUME NEW k \in (m - 1) + 1..Len(all) PROVE Top(Kept(k)) > indent
        <5>1. k = m \/ k \in m + 1..Len(all)
          BY <1>1, <2>3
        <5> QED
          BY <2>2, <2>5, <5>1
      <4> QED
        BY <4>1
    <3>4. m - 1 \in Reaches
      BY <3>2, <3>3
    <3> HIDE DEF Reaches
    <3> QED
      BY <2>2, <2>3, <3>4
  <2>6. CASE ~(Top(Kept(m)) > indent)
    <3>1. Leaves(m)
      BY <2>2, <2>4, <2>6
    <3> QED
      BY <2>3, <3>1
  <2> QED
    BY <2>5, <2>6
<1>5. left \in 0..Len(all) /\ Leaves(left)
  BY <1>4
<1>6. StartDedenting(cu, indent, pos) =
        [cu EXCEPT !.indents = Kept(left), !.pos = pos, !.state = "Dedenting",
                   !.remaining = Len(all) - Len(Kept(left)), !.consistent = Top(Kept(left)) = indent]
  BY DEF StartDedenting
<1> HIDE DEF left
<1>7. left # Len(all)
  BY <1>1, <1>3, <1>5
<1>8. left \in Nat /\ left < Len(all) /\ Kept(left) \in Seq(Nat) /\ Len(Kept(left)) = left
  BY <1>1, <1>2, <1>5, <1>7
<1>9. Deepen(Kept(left))
  <2>1. DOMAIN Kept(left) = 1..left /\ DOMAIN all = 1..Len(all)
    BY <1>1, <1>8
  <2>2. \A i \in 1..left : Kept(left)[i] = all[i]
    BY <1>2, <1>5
  <2> HIDE DEF Kept
  <2>3. ASSUME NEW k \in 1..left PROVE Kept(left)[k] > 0 /\ \A i \in 1..k - 1 : Kept(left)[i] < Kept(left)[k]
    <3>1. k \in DOMAIN all /\ \A i \in 1..k - 1 : i \in 1..left
      BY <1>1, <1>8, <2>1
    <3> QED
      BY <2>2, <3>1 DEF Deepen
  <2> QED
    BY <2>1, <2>3 DEF Deepen
<1>10. StartDedenting(cu, indent, pos) = Dedented(cu, indent, pos, left)
  BY <1>6, <1>8 DEF Dedented
<1>11. Pops(all, indent, left)
  <2>1. ASSUME NEW k \in 1..Len(all) PROVE all[k] > indent <=> k > left
    <3>1. all[k] \in Nat /\ left \in Nat /\ k \in 0..Len(all) /\ k # 0
      BY <1>1, <1>5
    <3>2. CASE k > left
      <4>1. k \in left + 1..Len(all)
        BY <1>1, <3>1, <3>2
      <4>2. Top(Kept(k)) > indent /\ Top(Kept(k)) = all[k]
        BY <1>2, <1>5, <3>1, <4>1
      <4> HIDE DEF Kept
      <4> QED
        BY <3>2, <4>2
    <3>3. CASE ~(k > left)
      <4>1. left # 0 /\ left \in 1..Len(all) /\ all[left] \in Nat /\ (k = left \/ k \in 1..left - 1)
        BY <1>1, <1>5, <3>1, <3>3
      <4>2. Top(Kept(left)) <= indent /\ Top(Kept(left)) = all[left]
        BY <1>2, <1>5, <4>1
      <4>3. k \in 1..left - 1 => all[k] < all[left]
        BY <1>1, <4>1 DEF Deepen
      <4> HIDE DEF Kept
      <4> QED
        BY <3>1, <3>3, <4>1, <4>2, <4>3
    <3> QED
      BY <3>2, <3>3
  <2> QED
    BY <1>1, <2>1 DEF Pops
<1> WITNESS left \in Nat
<1> QED
  BY <1>8, <1>9, <1>10, <1>11

-----------------------------------------------------------------------------
\* The invariant survives what returns no token and changes no total of
\* blocks that are open.
LEMMA Silent ==
  ASSUME NEW cursor, NEW stepped, IInv(cursor), stepped \in CursorRecord, stepped.tokens = cursor.tokens,
         stepped.start = cursor.start, Deepen(stepped.indents), CursorShape(stepped),
         Len(stepped.indents) + stepped.remaining = Len(cursor.indents) + cursor.remaining,
         cursor.state = "BeforeLeadingSpaces", stepped.state # "BeforeLeadingSpaces"
  PROVE  IInv(stepped) /\ Left(stepped) < Left(cursor)
<1>1. TypeOK(stepped)
  BY DEF IInv, TypeOK
<1>2. BlocksAreOpen(stepped) /\ TokensHaveText(stepped) /\ EndToEnd(stepped.tokens, stepped.start)
  BY DEF IInv, BlocksAreOpen, TokensHaveText
<1>3. IInv(stepped)
  BY <1>1, <1>2 DEF IInv
<1>4. Counted(stepped) = Counted(cursor)
  <2>1. /\ Len(text) \in Nat /\ cursor.start \in Nat
        /\ Len(cursor.indents) \in Nat /\ cursor.remaining \in Nat
        /\ Len(stepped.indents) \in Nat /\ stepped.remaining \in Nat
    BY <1>3, LeftIs
  <2> DEFINE before == 2 * ((Len(text) + 1) - cursor.start)
             a == Len(cursor.indents)
             b == cursor.remaining
             c == Len(stepped.indents)
             d == stepped.remaining
  <2>2. before \in Int /\ Counted(cursor) = before + a + b
    BY <2>1 DEF Counted
  <2>3. Counted(stepped) = before + c + d
    BY DEF Counted
  <2>4. a \in Nat /\ b \in Nat /\ c \in Nat /\ d \in Nat /\ c + d = a + b
    BY <2>1
  <2> HIDE DEF before, a, b, c, d
  <2> QED
    BY <2>2, <2>3, <2>4
<1>5. Left(stepped) < Left(cursor)
  <2>1. Left(stepped) = Counted(stepped) /\ Left(cursor) = Counted(cursor) + 1
    BY DEF Left
  <2>2. Counted(cursor) \in Int
    BY LeftIs
  <2> QED
    BY <1>4, <2>1, <2>2
<1> QED
  BY <1>3, <1>5

\* Before the first token, nothing is open and nothing has been read.
LEMMA Initially == text \in Seq(Char) => IInv(Start)
<1> SUFFICES ASSUME text \in Seq(Char) PROVE IInv(Start)
  OBVIOUS
<1>1. /\ text \in Seq(Char) /\ Len(text) \in Nat
      /\ Start.tokens = <<>> /\ Start.indents = <<>> /\ Start.closers = <<>>
      /\ Start.start = 1 /\ Start.pos = 1 /\ Start.remaining = 0
      /\ Start.state = "BeforeLeadingSpaces"
  BY DEF Start
<1>2. <<>> \in Seq(Nat) /\ <<>> \in Seq(TokenRecord) /\ <<>> \in Seq({")", "]"}) /\ 1 \in 1..Len(text) + 1
  BY <1>1
<1>3. TypeOK(Start)
  BY <1>1, <1>2 DEF TypeOK, CursorRecord, Places, Start
<1>4. Deepen(Start.indents) /\ CursorShape(Start) /\ TokensHaveText(Start)
  BY <1>1 DEF Deepen, CursorShape, TokensHaveText
<1>5. Depth(<<>>, 0) = 0
  <2>1. ASSUME NEW kind PROVE Count(<<>>, kind, 1, 0) = 0
    <3>1. {i \in 1..0 : <<>>[i].kind = kind} = {}
      OBVIOUS
    <3> QED
      BY <3>1, FS_EmptySet DEF Count
  <2> QED
    BY <2>1 DEF Depth
<1>6. BlocksAreOpen(Start)
  <2>1. Len(Start.tokens) = 0 /\ Len(Start.indents) = 0 /\ 0..0 = {0}
    BY <1>1
  <2> QED
    BY <1>1, <1>5, <2>1 DEF BlocksAreOpen
<1>7. EndToEnd(<<>>, 1)
  <2> DEFINE at == [i \in 1..Len(<<>>) + 1 |-> 1]
  <2>1. at \in [1..Len(<<>>) + 1 -> 1..1] /\ at[1] = 1 /\ at[Len(<<>>) + 1] = 1
    OBVIOUS
  <2>2. \A i \in DOMAIN <<>> : at[i + 1] = at[i] + <<>>[i].len
    OBVIOUS
  <2> HIDE DEF at
  <2> QED
    BY <2>1, <2>2 DEF EndToEnd
<1> QED
  BY <1>1, <1>3, <1>4, <1>6, <1>7 DEF IInv

\* A line opens a block, closes some, or goes on in the one it is in.
LEMMA IndentationStep ==
  ASSUME NEW cursor, NEW stepped, IInv(cursor), cursor.state = "BeforeLeadingSpaces", NEW width \in Nat,
         NEW pos \in Places, pos >= cursor.pos,
         pos = cursor.pos => width <= Top(cursor.indents),
         stepped = Indentation(cursor, width, pos)
  PROVE  IInv(stepped) /\ Left(stepped) < Left(cursor)
<1> DEFINE after == [cursor EXCEPT !.state = "AfterLeadingSpaces"]
           indents == cursor.indents
<1>1. /\ cursor \in CursorRecord /\ cursor.start = cursor.pos /\ cursor.remaining = 0
      /\ indents \in Seq(Nat) /\ Deepen(indents) /\ Len(indents) \in Nat
      /\ cursor.pos \in Nat /\ pos \in Nat
  BY CursorIs DEF Places
<1>2. Top(indents) \in Nat
  BY <1>1 DEF Top
<1>3. /\ after \in CursorRecord /\ after.tokens = cursor.tokens /\ after.start = cursor.start
      /\ after.indents = indents /\ after.remaining = 0 /\ after.state = "AfterLeadingSpaces"
      /\ after.pos = cursor.pos
  BY <1>1 DEF CursorRecord
<1>4. CASE width = Top(indents) /\ pos = cursor.start
  <2>1. stepped = after
    BY <1>4 DEF Indentation
  <2> HIDE DEF after
  <2>2. CursorShape(stepped)
    BY <1>1, <1>3, <2>1 DEF CursorShape
  <2> QED
    BY <1>1, <1>3, <2>1, <2>2, Silent
<1>5. CASE width = Top(indents) /\ pos # cursor.start
  <2>1. stepped = Emit(after, "Whitespace", pos) /\ pos > cursor.start
    BY <1>1, <1>5 DEF Indentation
  <2> HIDE DEF after
  <2>2. "Whitespace" \in Kind /\ "Whitespace" # "Dedent" /\ "Whitespace" # "Indent"
    BY DEF Kind
  <2>3. Deepen(after.indents)
    BY <1>1, <1>3
  <2>5. Len(after.indents) = Len(cursor.indents)
    BY <1>1, <1>3
  <2>4. /\ after \in CursorRecord
        /\ after.tokens = cursor.tokens /\ after.start = cursor.start /\ after.remaining = 0
        /\ after.state # "Dedenting" /\ cursor.remaining = 0
    BY <1>1, <1>3
  <2> QED
    BY <2>1, <2>2, <2>3, <2>4, <2>5, Emitted
<1>6. CASE width > Top(indents)
  <2> DEFINE cu == [after EXCEPT !.indents = Append(indents, width)]
  <2>1. stepped = Emit(cu, "Indent", pos) /\ pos > cursor.start
    BY <1>1, <1>2, <1>6 DEF Indentation
  <2>2. /\ Append(indents, width) \in Seq(Nat)
        /\ Len(Append(indents, width)) = Len(indents) + 1
        /\ \A i \in 1..Len(indents) : Append(indents, width)[i] = indents[i]
        /\ Append(indents, width)[Len(indents) + 1] = width
    BY <1>1
  <2>3. \A i \in 1..Len(indents) : indents[i] < width
    <3>1. ASSUME NEW i \in 1..Len(indents) PROVE indents[i] < width
      <4>1. Top(indents) = indents[Len(indents)] /\ indents[i] \in Nat
        BY <1>1 DEF Top
      <4>2. i = Len(indents) \/ i \in 1..Len(indents) - 1
        BY <1>1
      <4>3. indents[i] <= Top(indents)
        <5>1. Len(indents) \in DOMAIN indents
          BY <1>1
        <5>2. i \in 1..Len(indents) - 1 => indents[i] < indents[Len(indents)]
          BY <1>1, <5>1 DEF Deepen
        <5> QED
          BY <1>2, <4>1, <4>2, <5>2
      <4> QED
        BY <1>2, <1>6, <4>1, <4>3
    <3> QED
      BY <3>1
  <2>4. Deepen(Append(indents, width))
    <3> DEFINE all == Append(indents, width)
    <3>1. DOMAIN all = 1..Len(indents) + 1 /\ DOMAIN indents = 1..Len(indents)
      BY <1>1, <2>2
    <3> HIDE DEF all
    <3>2. ASSUME NEW k \in 1..Len(indents) + 1
          PROVE  all[k] > 0 /\ \A i \in 1..k - 1 : all[i] < all[k]
      <4>1. CASE k = Len(indents) + 1
        BY <1>1, <1>2, <1>6, <2>2, <2>3, <4>1 DEF all
      <4>2. CASE k # Len(indents) + 1
        <5>1. k \in 1..Len(indents) /\ \A i \in 1..k - 1 : i \in 1..Len(indents)
          BY <1>1, <4>2
        <5> QED
          BY <1>1, <2>2, <3>1, <5>1 DEF Deepen, all
      <4> QED
        BY <4>1, <4>2
    <3>3. Deepen(all)
      BY <3>1, <3>2 DEF Deepen
    <3> QED
      BY <3>3 DEF all
  <2>5. /\ cu \in CursorRecord /\ cu.tokens = cursor.tokens /\ cu.start = cursor.start
        /\ cu.indents = Append(indents, width) /\ cu.remaining = 0 /\ cu.state = "AfterLeadingSpaces"
    <3> HIDE DEF after
    <3> QED
      BY <1>3, <2>2 DEF CursorRecord
  <2> HIDE DEF cu
  <2>6. "Indent" \in Kind /\ "Indent" # "Dedent"
    BY DEF Kind
  <2>7. /\ Deepen(cu.indents) /\ cu.state # "Dedenting" /\ cursor.remaining = 0
        /\ Len(cu.indents) = Len(cursor.indents) + 1
    BY <1>1, <2>2, <2>4, <2>5
  <2> QED
    BY <2>1, <2>5, <2>6, <2>7, Emitted
<1>7. CASE ~(width = Top(indents)) /\ ~(width > Top(indents))
  <2>1. stepped = StartDedenting(cursor, width, pos)
    BY <1>7 DEF Indentation
  <2>2. PICK left \in Nat :
          /\ left < Len(indents)
          /\ SubSeq(indents, 1, left) \in Seq(Nat)
          /\ Len(SubSeq(indents, 1, left)) = left
          /\ Deepen(SubSeq(indents, 1, left))
          /\ StartDedenting(cursor, width, pos) = Dedented(cursor, width, pos, left)
    <3>1. Top(indents) > width
      BY <1>2, <1>7
    <3> QED
      BY <1>1, <3>1, DedentingIs
  <2> DEFINE kept == SubSeq(indents, 1, left)
             fits == Top(kept) = width
  <2>3. fits \in BOOLEAN /\ Len(indents) - left \in Nat /\ Len(indents) - left > 0
    BY <1>1, <2>2
  <2> HIDE DEF kept, fits
  <2>4. stepped = [cursor EXCEPT !.indents = kept, !.pos = pos, !.state = "Dedenting",
                                 !.remaining = Len(indents) - left, !.consistent = fits]
    BY <2>1, <2>2 DEF kept, fits, Dedented
  <2>5. kept \in Seq(Nat) /\ Len(kept) = left /\ Deepen(kept)
    BY <2>2 DEF kept
  <2>6. /\ stepped \in CursorRecord /\ stepped.tokens = cursor.tokens /\ stepped.start = cursor.start
        /\ stepped.indents = kept /\ stepped.remaining = Len(indents) - left
        /\ stepped.state = "Dedenting" /\ stepped.pos = pos
    <3> DEFINE popped == [cursor EXCEPT !.indents = kept, !.pos = pos]
    <3>1. /\ popped \in CursorRecord /\ popped.tokens = cursor.tokens
          /\ popped.start = cursor.start /\ popped.indents = kept /\ popped.pos = pos
      BY <1>1, <2>5 DEF CursorRecord
    <3>2. stepped = [popped EXCEPT !.state = "Dedenting", !.remaining = Len(indents) - left,
                                   !.consistent = fits]
      BY <2>4
    <3> HIDE DEF popped
    <3> QED
      BY <2>3, <3>1, <3>2 DEF CursorRecord
  <2>7. CursorShape(stepped)
    BY <1>1, <2>3, <2>6 DEF CursorShape
  <2>8. Len(stepped.indents) + stepped.remaining = Len(indents) + cursor.remaining
    <3>1. Len(stepped.indents) = left /\ stepped.remaining = Len(indents) - left
      BY <2>5, <2>6
    <3>2. left + (Len(indents) - left) = Len(indents) + 0
      BY <1>1
    <3> QED
      BY <1>1, <3>1, <3>2
  <2> QED
    BY <2>5, <2>6, <2>7, <2>8, Silent
<1> QED
  BY <1>2, <1>4, <1>5, <1>6, <1>7

\* The white space a line begins with.
LEMMA LeadingSpacesStep ==
  ASSUME NEW cursor, NEW stepped, IInv(cursor), cursor.state = "BeforeLeadingSpaces",
         stepped = LeadingSpaces(text, cursor)
  PROVE  IInv(stepped) /\ Left(stepped) < Left(cursor)
<1> DEFINE pos == Skip(text, cursor.pos, Blank)
           blanks == SubSeq(text, cursor.pos, pos - 1)
           width == IF At(text, pos) \in {"nl", "eof"} THEN Top(cursor.indents) ELSE Width(blanks)
<1>1. /\ text \in Seq(Char) /\ cursor.pos \in Nat \ {0} /\ cursor.pos \in 1..Len(text) + 1
      /\ Len(text) \in Nat /\ cursor.indents \in Seq(Nat)
  BY CursorIs DEF Places
<1>2. pos \in cursor.pos..Len(text) + 1 /\ pos \in Nat /\ pos \in Places /\ pos >= cursor.pos
  <2>1. "eof" \notin Blank
    BY DEF Blank
  <2> QED
    BY <1>1, <2>1, SkipIs DEF Places
<1>3. Top(cursor.indents) \in Nat
  BY <1>1 DEF Top
<1> HIDE DEF pos
<1>4. blanks \in Seq(Char \cup {"eof"}) /\ (pos = cursor.pos => blanks = <<>>)
  <2>1. blanks \in Seq(Char) /\ (pos = cursor.pos => Len(blanks) = 0)
    BY <1>1, <1>2
  <2> HIDE DEF blanks
  <2> QED
    BY <2>1
<1>5. Width(blanks) \in Nat /\ (pos = cursor.pos => Width(blanks) = 0)
  <2> HIDE DEF blanks
  <2> QED
    BY <1>4, WidthIs
<1>6. width \in Nat /\ (pos = cursor.pos => width <= Top(cursor.indents))
  <2> HIDE DEF blanks
  <2> QED
    BY <1>3, <1>5
<1>7. stepped = Indentation(cursor, width, pos)
  BY DEF LeadingSpaces, pos
<1> HIDE DEF width
<1> QED
  BY <1>2, <1>6, <1>7, IndentationStep

\* A DEDENT for a level that was popped.
LEMMA DedentStep ==
  ASSUME NEW cursor, NEW stepped, IInv(cursor), cursor.state = "Dedenting", stepped = Dedent(cursor)
  PROVE  IInv(stepped) /\ Left(stepped) < Left(cursor)
<1> DEFINE left == cursor.remaining
<1>1. /\ text \in Seq(Char) /\ cursor \in CursorRecord /\ cursor.start <= cursor.pos
      /\ cursor.pos \in Places /\ cursor.start \in Places
      /\ cursor.pos \in Nat /\ cursor.start \in Nat /\ Deepen(cursor.indents)
      /\ Len(cursor.indents) \in Nat /\ cursor.tokens \in Seq(TokenRecord)
      /\ left \in Nat /\ left > 0 /\ cursor.consistent \in BOOLEAN
  BY CursorIs
<1>2. /\ "Dedent" \in Kind /\ "Dedent" # "Indent"
  BY DEF Kind
<1>3. CASE left = 1
  <2> DEFINE t == Token("Dedent", cursor.pos - cursor.start, cursor.consistent)
  <2>1. t \in TokenRecord /\ t.kind = "Dedent" /\ cursor.start + t.len = cursor.pos
    BY <1>1, <1>2 DEF Token, TokenRecord
  <2>2. stepped = [cursor EXCEPT !.tokens = Append(cursor.tokens, t), !.start = cursor.pos,
                                 !.remaining = 0, !.state = "AfterLeadingSpaces"]
    BY <1>3 DEF Dedent
  <2> HIDE DEF t
  <2>3. Append(cursor.tokens, t) \in Seq(TokenRecord)
    BY <1>1, <2>1
  <2>4. /\ stepped \in CursorRecord /\ stepped.tokens = Append(cursor.tokens, t)
        /\ stepped.start = cursor.pos /\ stepped.pos = cursor.pos /\ stepped.remaining = 0
        /\ stepped.state = "AfterLeadingSpaces" /\ stepped.indents = cursor.indents
    <3> DEFINE none == 0
    <3>1. stepped = [cursor EXCEPT !.tokens = Append(cursor.tokens, t), !.start = cursor.pos,
                                   !.remaining = none, !.state = "AfterLeadingSpaces"]
      BY <2>2
    <3>2. none \in Nat
      OBVIOUS
    <3> HIDE DEF none
    <3>3. /\ stepped \in CursorRecord /\ stepped.tokens = Append(cursor.tokens, t)
          /\ stepped.start = cursor.pos /\ stepped.pos = cursor.pos /\ stepped.remaining = none
          /\ stepped.state = "AfterLeadingSpaces" /\ stepped.indents = cursor.indents
      BY <1>1, <2>3, <3>1, <3>2 DEF CursorRecord
    <3> QED
      BY <3>3 DEF none
  <2>5. TypeOK(stepped)
    BY <1>1, <2>4 DEF TypeOK, CursorRecord, Places
  <2>6. Deepen(stepped.indents) /\ CursorShape(stepped)
    BY <1>1, <2>4 DEF CursorShape
  <2>7. (IF t.kind = "Indent" THEN 1 ELSE IF t.kind = "Dedent" THEN -1 ELSE 0) = -1
    BY <1>2, <2>1
  <2>8. /\ Len(cursor.indents) + left + -1 = Len(stepped.indents) + stepped.remaining
        /\ Len(stepped.indents) + stepped.remaining >= 0
    BY <1>1, <1>3, <2>4
  <2>9. BlocksAreOpen(stepped) /\ TokensHaveText(stepped) /\ EndToEnd(stepped.tokens, stepped.start)
    BY <2>1, <2>4, <2>7, <2>8, Added
  <2>10. IInv(stepped)
    BY <2>5, <2>6, <2>9 DEF IInv
  <2>11. Left(stepped) < Left(cursor)
    <3>1. Left(stepped) = Counted(stepped) /\ Left(cursor) = Counted(cursor)
      BY <2>4 DEF Left
    <3>2. Len(text) \in Nat
      BY <1>1
    <3>3. Counted(stepped) = 2 * ((Len(text) + 1) - cursor.pos) + Len(cursor.indents)
      BY <1>1, <2>4, <3>2 DEF Counted
    <3>4. Counted(cursor) = 2 * ((Len(text) + 1) - cursor.start) + Len(cursor.indents) + 1
      BY <1>3 DEF Counted
    <3> DEFINE a == cursor.pos
               b == cursor.start
               n == Len(cursor.indents)
               end == Len(text) + 1
    <3>5. a \in Nat /\ b \in Nat /\ n \in Nat /\ end \in Nat /\ b <= a
      BY <1>1, <3>2
    <3>6. Counted(stepped) = 2 * (end - a) + n
      BY <1>1, <3>2, <3>3
    <3>7. Counted(cursor) = 2 * (end - b) + n + 1
      BY <1>1, <3>2, <3>4
    <3> HIDE DEF a, b, n, end
    <3> QED
      BY <3>1, <3>5, <3>6, <3>7
  <2> QED
    BY <2>10, <2>11
<1>4. CASE left # 1
  <2> DEFINE t == Token("Dedent", 0, TRUE)
  <2>1. t \in TokenRecord /\ t.kind = "Dedent" /\ cursor.start + t.len = cursor.start
    BY <1>1, <1>2 DEF Token, TokenRecord
  <2>2. stepped = [cursor EXCEPT !.tokens = Append(cursor.tokens, t), !.remaining = left - 1]
    BY <1>4 DEF Dedent
  <2> HIDE DEF t
  <2>3. Append(cursor.tokens, t) \in Seq(TokenRecord) /\ left - 1 \in Nat /\ left - 1 > 0
    BY <1>1, <1>4, <2>1
  <2>4. /\ stepped \in CursorRecord /\ stepped.tokens = Append(cursor.tokens, t)
        /\ stepped.start = cursor.start /\ stepped.pos = cursor.pos /\ stepped.remaining = left - 1
        /\ stepped.state = "Dedenting" /\ stepped.indents = cursor.indents
    BY <1>1, <2>2, <2>3 DEF CursorRecord
  <2>5. TypeOK(stepped)
    BY <1>1, <2>4 DEF TypeOK, CursorRecord, Places
  <2>6. Deepen(stepped.indents) /\ CursorShape(stepped)
    BY <1>1, <2>3, <2>4 DEF CursorShape
  <2>7. (IF t.kind = "Indent" THEN 1 ELSE IF t.kind = "Dedent" THEN -1 ELSE 0) = -1
    BY <1>2, <2>1
  <2>8. /\ Len(cursor.indents) + left + -1 = Len(stepped.indents) + stepped.remaining
        /\ Len(stepped.indents) + stepped.remaining >= 0
    BY <1>1, <1>4, <2>4
  <2>9. BlocksAreOpen(stepped) /\ TokensHaveText(stepped) /\ EndToEnd(stepped.tokens, stepped.start)
    BY <2>1, <2>4, <2>7, <2>8, Added
  <2>10. IInv(stepped)
    BY <2>5, <2>6, <2>9 DEF IInv
  <2>11. Left(stepped) < Left(cursor)
    <3>1. Left(stepped) = Counted(stepped) /\ Left(cursor) = Counted(cursor)
      BY <2>4 DEF Left
    <3>2. Len(text) \in Nat
      BY <1>1
    <3>3. Counted(stepped) = 2 * ((Len(text) + 1) - cursor.start) + Len(cursor.indents) + (left - 1)
      BY <2>4 DEF Counted
    <3>4. Counted(cursor) = 2 * ((Len(text) + 1) - cursor.start) + Len(cursor.indents) + left
      BY DEF Counted
    <3> QED
      BY <1>1, <3>1, <3>2, <3>3, <3>4
  <2> QED
    BY <2>10, <2>11
<1> QED
  BY <1>3, <1>4

\* A DEDENT for a level that is still open at the end of the text.
LEMMA DedentAtEofStep ==
  ASSUME NEW cursor, NEW stepped, IInv(cursor), cursor.state = "AfterLeadingSpaces", cursor.pos > Len(text),
         ~Finished(text, cursor), stepped = DedentAtEof(cursor)
  PROVE  IInv(stepped) /\ Left(stepped) < Left(cursor)
<1> DEFINE t == Token("Dedent", 0, TRUE)
           indents == cursor.indents
           n == Len(indents)
           kept == SubSeq(indents, 1, n - 1)
<1>1. /\ text \in Seq(Char) /\ cursor \in CursorRecord /\ cursor.start = cursor.pos
      /\ cursor.pos \in Places /\ cursor.start \in Nat /\ Deepen(indents) /\ indents \in Seq(Nat)
      /\ n \in Nat /\ cursor.tokens \in Seq(TokenRecord) /\ cursor.remaining = 0
  BY CursorIs
<1>2. n > 0
  <2>1. indents # <<>>
    BY DEF Finished
  <2> QED
    BY <1>1, <2>1
<1>3. t \in TokenRecord /\ t.kind = "Dedent" /\ cursor.start + t.len = cursor.start
  BY <1>1 DEF Token, TokenRecord, Kind
<1>4. kept \in Seq(Nat) /\ Len(kept) = n - 1 /\ \A i \in 1..n - 1 : kept[i] = indents[i]
  BY <1>1, <1>2
<1>5. Deepen(kept)
  <2>1. DOMAIN kept = 1..n - 1 /\ DOMAIN indents = 1..n
    BY <1>1, <1>4
  <2> HIDE DEF kept, indents, n
  <2>2. ASSUME NEW k \in 1..n - 1 PROVE kept[k] > 0 /\ \A i \in 1..k - 1 : kept[i] < kept[k]
    <3>1. k \in 1..n /\ \A i \in 1..k - 1 : i \in 1..n - 1
      BY <1>1
    <3> QED
      BY <1>1, <1>4, <2>1, <3>1 DEF Deepen
  <2> QED
    BY <2>1, <2>2 DEF Deepen
<1>6. stepped = [cursor EXCEPT !.indents = kept, !.tokens = Append(cursor.tokens, t)]
  BY DEF DedentAtEof
<1> HIDE DEF t, kept
<1>7. Append(cursor.tokens, t) \in Seq(TokenRecord)
  BY <1>1, <1>3
<1>8. /\ stepped \in CursorRecord /\ stepped.tokens = Append(cursor.tokens, t)
      /\ stepped.start = cursor.start /\ stepped.pos = cursor.pos /\ stepped.remaining = 0
      /\ stepped.state = cursor.state /\ stepped.indents = kept
  BY <1>1, <1>4, <1>6, <1>7 DEF CursorRecord
<1>9. TypeOK(stepped)
  BY <1>1, <1>8 DEF TypeOK, CursorRecord, Places
<1>10. Deepen(stepped.indents) /\ CursorShape(stepped)
  BY <1>1, <1>5, <1>8 DEF CursorShape
<1>11. (IF t.kind = "Indent" THEN 1 ELSE IF t.kind = "Dedent" THEN -1 ELSE 0) = -1
  BY <1>3
<1>12. /\ Len(cursor.indents) + cursor.remaining + -1 = Len(stepped.indents) + stepped.remaining
       /\ Len(stepped.indents) + stepped.remaining >= 0
  BY <1>1, <1>2, <1>4, <1>8
<1>13. BlocksAreOpen(stepped) /\ TokensHaveText(stepped) /\ EndToEnd(stepped.tokens, stepped.start)
  BY <1>3, <1>8, <1>11, <1>12, Added
<1>14. IInv(stepped)
  BY <1>9, <1>10, <1>13 DEF IInv
<1>15. Left(stepped) < Left(cursor)
  <2>1. Left(stepped) = Counted(stepped) /\ Left(cursor) = Counted(cursor)
    BY <1>8 DEF Left
  <2>2. Len(text) \in Nat
    BY <1>1
  <2>3. Counted(stepped) = 2 * ((Len(text) + 1) - cursor.start) + (n - 1)
    <3>1. Counted(stepped) = 2 * ((Len(text) + 1) - cursor.start) + (n - 1) + 0
      BY <1>4, <1>8 DEF Counted
    <3> HIDE DEF n
    <3> QED
      BY <1>1, <2>2, <3>1
  <2>4. Counted(cursor) = 2 * ((Len(text) + 1) - cursor.start) + n
    BY <1>1, <2>2 DEF Counted
  <2> HIDE DEF n
  <2> QED
    BY <1>1, <2>1, <2>2, <2>3, <2>4
<1> QED
  BY <1>14, <1>15

\* A token of a line opens and closes no block; a Newline ends the line.
Scanned(cu, stepped, t) ==
  /\ t \in TokenRecord /\ t.kind # "Indent" /\ t.kind # "Dedent"
  /\ stepped.tokens = Append(cu.tokens, t) /\ stepped.start > cu.start
  /\ stepped.indents = cu.indents
  /\ stepped.state = IF t.kind = "Newline" THEN "BeforeLeadingSpaces" ELSE "AfterLeadingSpaces"

\* A token of a line: each begins with a character that is there, so each has
\* text.
LEMMA ScanStep ==
  ASSUME NEW cursor, NEW stepped, IInv(cursor), cursor.state = "AfterLeadingSpaces", cursor.pos <= Len(text),
         stepped = Scan(text, cursor)
  PROVE  IInv(stepped) /\ Left(stepped) < Left(cursor) /\ \E t : Scanned(cursor, stepped, t)
<1> DEFINE c == At(text, cursor.pos)
           next == cursor.pos + 1
           open == cursor.closers # <<>>
<1>1. /\ text \in Seq(Char) /\ cursor \in CursorRecord /\ cursor.start = cursor.pos
      /\ cursor.pos \in Nat \ {0} /\ Len(text) \in Nat /\ Deepen(cursor.indents)
      /\ cursor.closers \in Seq({")", "]"}) /\ cursor.remaining = 0
  BY CursorIs
<1>2. c \in Char /\ next \in 1..Len(text) + 1 /\ next \in Places /\ next > cursor.pos
  BY <1>1, AtIs DEF Places
<1>3. ASSUME NEW cu \in CursorRecord, NEW kind \in Kind, kind # "Dedent", kind # "Indent",
             cu.tokens = cursor.tokens, cu.start = cursor.start, cu.indents = cursor.indents,
             cu.remaining = 0, NEW pos \in next..Len(text) + 1, stepped = Emit(cu, kind, pos),
             cu.state = IF kind = "Newline" THEN "BeforeLeadingSpaces" ELSE "AfterLeadingSpaces"
      PROVE  IInv(stepped) /\ Left(stepped) < Left(cursor) /\ \E t : Scanned(cursor, stepped, t)
  <2>1. pos \in Places /\ pos > cursor.start
    BY <1>1, <1>2, <1>3 DEF Places
  <2>2. Deepen(cu.indents) /\ Len(cu.indents) = Len(cursor.indents) /\ cu.state # "Dedenting"
    BY <1>1, <1>3
  <2> HIDE DEF next
  <2>3. IInv(stepped) /\ Left(stepped) < Left(cursor)
    BY <1>1, <1>3, <2>1, <2>2, Emitted
  <2> DEFINE t == Token(kind, pos - cursor.start, TRUE)
  <2>4. t \in TokenRecord /\ t.kind = kind
    <3>1. pos - cursor.start \in Nat
      BY <1>1, <2>1 DEF Places
    <3> QED
      BY <1>3, <3>1 DEF Token, TokenRecord
  <2>5. stepped = [cu EXCEPT !.tokens = Append(cu.tokens, t), !.pos = pos, !.start = pos]
    BY <1>3 DEF Emit
  <2> HIDE DEF t
  <2>6. /\ stepped.tokens = Append(cu.tokens, t) /\ stepped.start = pos
        /\ stepped.indents = cu.indents /\ stepped.state = cu.state
    BY <1>3, <2>5 DEF CursorRecord
  <2>7. Scanned(cursor, stepped, t)
    BY <1>3, <2>1, <2>4, <2>6 DEF Scanned
  <2> QED
    BY <2>3, <2>7
<1>4. next \in next..Len(text) + 1
  BY <1>1, <1>2
<1>5. /\ {"Whitespace", "Comment", "Literal"} \subseteq Kind \ {"Dedent", "Indent", "Newline"}
      /\ "Newline" \in Kind \ {"Dedent", "Indent"}
  BY DEF Kind
<1>6. Char \subseteq Kind \ {"Dedent", "Indent", "Newline"}
  BY DEF Kind, Char
<1>7. ASSUME NEW closers \in Seq({")", "]"})
      PROVE  /\ [cursor EXCEPT !.closers = closers] \in CursorRecord
             /\ [cursor EXCEPT !.closers = closers].tokens = cursor.tokens
             /\ [cursor EXCEPT !.closers = closers].start = cursor.start
             /\ [cursor EXCEPT !.closers = closers].indents = cursor.indents
             /\ [cursor EXCEPT !.closers = closers].remaining = 0
             /\ [cursor EXCEPT !.closers = closers].state = "AfterLeadingSpaces"
  BY <1>1, <1>7 DEF CursorRecord
<1>8. open \in BOOLEAN
  OBVIOUS
<1>9. CASE c = "nl" /\ ~open
  <2> DEFINE cu == [cursor EXCEPT !.state = "BeforeLeadingSpaces"]
  <2>1. stepped = Emit(cu, "Newline", next)
    BY <1>9 DEF Scan, Blank, Closer
  <2>2. /\ cu \in CursorRecord /\ cu.tokens = cursor.tokens /\ cu.start = cursor.start
        /\ cu.indents = cursor.indents /\ cu.remaining = 0 /\ cu.state = "BeforeLeadingSpaces"
    BY <1>1 DEF CursorRecord
  <2> HIDE DEF cu, next
  <2> QED
    BY <1>3, <1>4, <1>5, <2>1, <2>2
<1>10. CASE c \in Blank \/ (c = "nl" /\ open)
  <2>1. stepped = Emit(cursor, "Whitespace", EatWhitespace(text, next, open))
    BY <1>10 DEF Scan, Blank, Closer
  <2>2. EatWhitespace(text, next, open) \in next..Len(text) + 1
    BY <1>1, <1>2, <1>8, EatWhitespaceIs
  <2> HIDE DEF next, open
  <2> QED
    BY <1>1, <1>3, <1>5, <2>1, <2>2
<1>11. CASE c = "\\" /\ Continuation(text, cursor.pos) > 0
  <2> DEFINE after == cursor.pos + Continuation(text, cursor.pos)
  <2>1. stepped = Emit(cursor, "Whitespace", EatWhitespace(text, after, open))
    BY <1>11 DEF Scan, Blank, Closer
  <2>2. after \in next..Len(text) + 1 /\ after \in 1..Len(text) + 1
    BY <1>1, <1>11, ContinuationIs
  <2>3. EatWhitespace(text, after, open) \in after..Len(text) + 1
    BY <1>1, <1>8, <2>2, EatWhitespaceIs
  <2>4. EatWhitespace(text, after, open) \in next..Len(text) + 1
    BY <1>1, <2>2, <2>3
  <2> HIDE DEF after, next, open
  <2> QED
    BY <1>1, <1>3, <1>5, <2>1, <2>4
<1>12. CASE c = "#"
  <2>1. stepped = Emit(cursor, "Comment", Skip(text, next, Char \ {"nl"}))
    BY <1>12 DEF Scan, Blank, Closer
  <2>2. Skip(text, next, Char \ {"nl"}) \in next..Len(text) + 1
    <3>1. "eof" \notin Char \ {"nl"}
      BY DEF Char
    <3> QED
      BY <1>1, <1>2, <3>1, SkipIs
  <2> HIDE DEF next
  <2> QED
    BY <1>1, <1>3, <1>5, <2>1, <2>2
<1>13. CASE c \in {"(", "["}
  <2> DEFINE closers == Append(cursor.closers, Closer[c])
             cu == [cursor EXCEPT !.closers = closers]
  <2>1. stepped = Emit(cu, c, next)
    BY <1>13 DEF Scan, Blank, Closer
  <2>2. closers \in Seq({")", "]"})
    <3>1. Closer[c] \in {")", "]"}
      BY <1>13 DEF Closer
    <3> QED
      BY <1>1, <3>1
  <2>3. /\ cu \in CursorRecord /\ cu.tokens = cursor.tokens /\ cu.start = cursor.start
        /\ cu.indents = cursor.indents /\ cu.remaining = 0 /\ cu.state = "AfterLeadingSpaces"
    <3> HIDE DEF closers
    <3> QED
      BY <1>7, <2>2
  <2> HIDE DEF cu, next, c
  <2> QED
    BY <1>2, <1>3, <1>4, <1>6, <2>1, <2>3
<1>14. CASE c \in {")", "]"}
  <2>1. stepped = Emit(CloseBlock(cursor, c), c, next)
    BY <1>14 DEF Scan, Blank, Closer
  <2>2. /\ CloseBlock(cursor, c) \in CursorRecord /\ CloseBlock(cursor, c).tokens = cursor.tokens
        /\ CloseBlock(cursor, c).start = cursor.start
        /\ CloseBlock(cursor, c).indents = cursor.indents
        /\ CloseBlock(cursor, c).remaining = 0 /\ CloseBlock(cursor, c).state = "AfterLeadingSpaces"
    <3> DEFINE fewer == SubSeq(cursor.closers, 1, Len(cursor.closers) - 1)
    <3>1. CASE cursor.closers # <<>> /\ cursor.closers[Len(cursor.closers)] = c
      <4>1. fewer \in Seq({")", "]"})
        BY <1>1, <3>1
      <4>2. CloseBlock(cursor, c) = [cursor EXCEPT !.closers = fewer]
        BY <3>1 DEF CloseBlock
      <4> HIDE DEF fewer
      <4> QED
        BY <1>7, <4>1, <4>2
    <3>2. CASE ~(cursor.closers # <<>> /\ cursor.closers[Len(cursor.closers)] = c)
      <4>1. CloseBlock(cursor, c) = cursor
        BY <3>2 DEF CloseBlock
      <4> QED
        BY <1>1, <4>1
    <3> QED
      BY <3>1, <3>2
  <2> HIDE DEF next, c
  <2> QED
    BY <1>2, <1>3, <1>4, <1>6, <2>1, <2>2
<1>15. CASE c = "quote"
  <2>1. stepped = Emit(cursor, "Literal", String(text, next).next)
    BY <1>15 DEF Scan, Blank, Closer
  <2>2. String(text, next).next \in next..Len(text) + 1
    BY <1>1, <1>2, StringIs
  <2> HIDE DEF next
  <2> QED
    BY <1>1, <1>3, <1>5, <2>1, <2>2
<1>16. CASE \/ c = "letter"
            \/ c = "\\" /\ ~(Continuation(text, cursor.pos) > 0)
  <2>1. stepped = Emit(cursor, c, next)
    BY <1>16 DEF Scan, Blank, Closer
  <2> HIDE DEF next, c
  <2> QED
    BY <1>1, <1>2, <1>3, <1>4, <1>6, <2>1
<1>17. c \in Blank \/ c \in {"nl", "(", ")", "[", "]", "#", "quote", "\\", "letter"}
  BY <1>2 DEF Char, Blank
<1> HIDE DEF c, open
<1> QED
  BY <1>9, <1>10, <1>11, <1>12, <1>13, <1>14, <1>15, <1>16, <1>17

\* The invariant survives every token, and fewer calls are left.
LEMMA Preserved ==
  ASSUME NEW cursor, IInv(cursor), ~Finished(text, cursor)
  PROVE  IInv(AdvanceToken(text, cursor)) /\ Left(AdvanceToken(text, cursor)) < Left(cursor)
<1> DEFINE stepped == AdvanceToken(text, cursor)
<1>1. CASE cursor.state = "BeforeLeadingSpaces"
  BY <1>1, LeadingSpacesStep DEF AdvanceToken
<1>2. CASE cursor.state = "Dedenting"
  BY <1>2, DedentStep DEF AdvanceToken
<1>3. CASE cursor.state = "AfterLeadingSpaces"
  <2>1. Len(text) \in Nat /\ cursor.pos \in Nat
    BY CursorIs
  <2>2. CASE cursor.pos > Len(text)
    <3>1. stepped = DedentAtEof(cursor)
      BY <1>3, <2>2 DEF AdvanceToken
    <3> HIDE DEF stepped
    <3>2. IInv(stepped) /\ Left(stepped) < Left(cursor)
      BY <1>3, <2>2, <3>1, DedentAtEofStep
    <3> QED
      BY <3>2 DEF stepped
  <2>3. CASE ~(cursor.pos > Len(text))
    <3>1. stepped = Scan(text, cursor) /\ cursor.pos <= Len(text)
      BY <1>3, <2>1, <2>3 DEF AdvanceToken
    <3> HIDE DEF stepped
    <3>2. IInv(stepped) /\ Left(stepped) < Left(cursor)
      BY <1>3, <3>1, ScanStep
    <3> QED
      BY <3>2 DEF stepped
  <2> QED
    BY <2>2, <2>3
<1>4. cursor.state \in {"BeforeLeadingSpaces", "Dedenting", "AfterLeadingSpaces"}
  BY CursorIs DEF CursorRecord
<1> QED
  BY <1>1, <1>2, <1>3, <1>4

-----------------------------------------------------------------------------
(***************************************************************************)
(* The lines of a text.  What is invariant of the lines whose white space  *)
(* has been read: each is judged, which compares the tokens between it and *)
(* the line before it with the columns that they are nested in; and the    *)
(* cursor's stack has the columns of the last.                             *)
(***************************************************************************)
Begins(tokens) ==
  {1} \cup {StartOf(tokens, i + 1) : i \in {i \in DOMAIN tokens : tokens[i].kind = "Newline"}}

\* Where a line has its first character that is not white, if it has any.
Margin(p) == Skip(text, p, Blank)
HasCode(p) == At(text, Margin(p)) \notin {"nl", "eof"}

Column(p) == Columns(text, p)

\* The columns that the last of some lines is nested in, and its own.
NestOf(lines) ==
  {Column(p) : p \in {p \in lines : \A k \in lines : p <= k => Column(k) >= Column(p)}} \ {0}

UpTo(lines, p) == {r \in lines : r <= p}
IsNext(lines, p, q) == p \in lines /\ q \in lines /\ p < q /\ ~\E r \in lines : p < r /\ r < q
IsLatest(lines, p)  == p \in lines /\ \A r \in lines : r <= p

Seen(tokens, p) == Before(text, tokens, p)

\* The INDENTs and DEDENTs since a line's first character that is not white.
Since(tokens, kind, p) == Count(tokens, kind, Seen(tokens, p) + 1, Len(tokens))

\* The lines whose white space has been read.
Entered(cu) ==
  LET lines == Lines(text, cu.tokens)
  IN  IF cu.state = "AfterLeadingSpaces" THEN lines ELSE lines \ {cu.start}

\* The first character of each line is behind some place.
Past(lines, end) == \A p \in lines : p \in Places /\ Margin(p) < end

LinesArePast(cu) ==
  /\ \A p \in Entered(cu) : /\ Margin(p) <= cu.start
                            /\ cu.state # "AfterLeadingSpaces" => Margin(p) < cu.start
  /\ cu.state = "BeforeLeadingSpaces" => cu.start \in Begins(cu.tokens)
  /\ cu.state = "Dedenting" => cu.start \in Lines(text, cu.tokens) /\ cu.pos = Margin(cu.start)

\* The DEDENTs and INDENTs from one line to another are the columns that it is
\* not nested in any more, and those that it is nested in newly.
Matches(tokens, p, q, before, now) ==
  /\ Count(tokens, "Dedent", Seen(tokens, p) + 1, Seen(tokens, q)) = Cardinality(before \ now)
  /\ Count(tokens, "Indent", Seen(tokens, p) + 1, Seen(tokens, q)) = Cardinality(now \ before)

Judged(tokens, lines) ==
  \A p, q \in lines : IsNext(lines, p, q) =>
    Matches(tokens, p, q, NestOf(UpTo(lines, p)), NestOf(UpTo(lines, q)))

\* The columns that are not deeper than another, and those that are.
Within(columns, w) == {c \in columns : c <= w}
Beyond(columns, w) == {c \in columns : c > w}

\* The columns that a line is nested in, and its own, after another's.
Joined(columns, w) == Within(columns, w) \cup ({w} \ {0})

\* Two lines in the same block, and a line that begins one.
Continues(before, now) == now = before /\ before \ now = {} /\ now \ before = {}
Opens(before, now, w) == before \ now = {} /\ now \ before = {w}

OnStack(columns) == {columns[k] : k \in DOMAIN columns}

\* The columns that are not on the stack any more, of which some may still have
\* their DEDENT to come.
Popped(cu) ==
  IF cu.state = "Dedenting" THEN Beyond(NestOf(Entered(cu)), Column(cu.start)) ELSE {}

StackIsNest(cu) ==
  /\ OnStack(cu.indents) = NestOf(Entered(cu)) \ Popped(cu)
  /\ \A p \in Entered(cu) : IsLatest(Entered(cu), p) =>
       /\ Since(cu.tokens, "Indent", p) = 0
       /\ Since(cu.tokens, "Dedent", p) + cu.remaining = Cardinality(Popped(cu))
  /\ cu.state = "Dedenting" /\ cu.consistent => Top(cu.indents) = Column(cu.start)

AtEnd(cu) == cu.state = "AfterLeadingSpaces" /\ cu.start > Len(text)

LineInv(cu) ==
  /\ LinesArePast(cu)
  /\ Consistent(cu.tokens) =>
       /\ Judged(cu.tokens, Entered(cu))
       /\ ~AtEnd(cu) => StackIsNest(cu)

-----------------------------------------------------------------------------
\* The places of a line's white space, and the columns it takes.
LEMMA PlaceIs ==
  ASSUME text \in Seq(Char), NEW p \in Places
  PROVE  /\ Len(text) \in Nat /\ p \in Nat \ {0}
         /\ Margin(p) \in Places /\ Margin(p) \in Nat /\ Margin(p) \in p..Len(text) + 1
         /\ Column(p) \in Nat
         /\ HasCode(p) => Margin(p) \in 1..Len(text)
<1>1. Len(text) \in Nat /\ p \in 1..Len(text) + 1 /\ p \in Nat \ {0}
  BY DEF Places
<1>2. Margin(p) \in p..Len(text) + 1
  <2>1. "eof" \notin Blank
    BY DEF Blank
  <2> QED
    BY <1>1, <2>1, SkipIs DEF Margin
<1>3. Margin(p) \in Nat \ {0} /\ Margin(p) \in Places
  BY <1>1, <1>2 DEF Places
<1>4. HasCode(p) => Margin(p) <= Len(text)
  <2>1. At(text, Margin(p)) # "eof" => Margin(p) <= Len(text)
    BY <1>3, AtIs
  <2> QED
    BY <2>1 DEF HasCode
<1>5. Column(p) \in Nat
  <2> DEFINE last == Margin(p) - 1
             blanks == SubSeq(text, p, last)
  <2>1. blanks \in Seq(Char \cup {"eof"})
    <3>1. blanks \in Seq(Char)
      <4>1. last \in Nat /\ last <= Len(text)
        BY <1>1, <1>2
      <4> HIDE DEF last
      <4> QED
        BY <1>1, <4>1
    <3> HIDE DEF blanks
    <3> QED
      BY <3>1
  <2>2. Column(p) = Width(blanks)
    BY DEF Column, Columns, Width, Margin
  <2> HIDE DEF blanks
  <2> QED
    BY <2>1, <2>2, WidthIs
<1> QED
  BY <1>1, <1>2, <1>3, <1>4, <1>5

\* From the first token to the last, each place is the one before and a length.
Recurs(tokens, at) == at[1] = 1 /\ \A i \in DOMAIN tokens : at[i + 1] = at[i] + tokens[i].len

\* Where the tokens begin.
LEMMA StartOfIs ==
  ASSUME NEW tokens \in Seq(TokenRecord), NEW at \in [1..Len(tokens) + 1 -> Nat], Recurs(tokens, at)
  PROVE  \A i \in 1..Len(tokens) + 1 : StartOf(tokens, i) = at[i]
<1> DEFINE m == Len(tokens)
           S == 1..m + 1
           Starts == CHOOSE f : f = [k \in S |-> IF k = 1 THEN 1 ELSE f[k - 1] + tokens[k - 1].len]
<1>1. /\ at \in [S -> Nat] /\ at[1] = 1
      /\ \A i \in DOMAIN tokens : at[i + 1] = at[i] + tokens[i].len
  BY DEF Recurs
<1>2. m \in Nat /\ DOMAIN tokens = 1..m
  OBVIOUS
<1>3. ASSUME NEW i \in S PROVE StartOf(tokens, i) = Starts[i]
  BY DEF StartOf
<1> HIDE DEF m
<1>4. at = [k \in S |-> IF k = 1 THEN 1 ELSE at[k - 1] + tokens[k - 1].len]
  <2>1. ASSUME NEW k \in S PROVE at[k] = IF k = 1 THEN 1 ELSE at[k - 1] + tokens[k - 1].len
    <3>1. CASE k = 1
      BY <1>1, <3>1
    <3>2. CASE k # 1
      <4>1. k - 1 \in DOMAIN tokens /\ (k - 1) + 1 = k
        BY <1>2, <3>2
      <4> QED
        BY <1>1, <3>2, <4>1
    <3> QED
      BY <3>1, <3>2
  <2>2. at = [k \in S |-> at[k]]
    BY <1>1
  <2> QED
    BY <2>1, <2>2
<1>5. Starts = [k \in S |-> IF k = 1 THEN 1 ELSE Starts[k - 1] + tokens[k - 1].len]
  BY <1>4
<1> HIDE DEF Starts
<1> DEFINE Ok == {n \in Nat : n + 1 \in S => Starts[n + 1] = at[n + 1]}
<1>6. 0 \in Ok
  <2>1. 1 \in S
    BY <1>2
  <2>2. Starts[1] = 1
    BY <1>5, <2>1
  <2> QED
    BY <1>1, <2>2
<1>7. ASSUME NEW n \in Nat, n \in Ok PROVE n + 1 \in Ok
  <2> SUFFICES ASSUME (n + 1) + 1 \in S PROVE Starts[(n + 1) + 1] = at[(n + 1) + 1]
    OBVIOUS
  <2>1. n + 1 \in S /\ n + 1 \in DOMAIN tokens /\ (n + 1) + 1 # 1 /\ ((n + 1) + 1) - 1 = n + 1
    BY <1>2
  <2>2. Starts[(n + 1) + 1] = Starts[n + 1] + tokens[n + 1].len
    BY <1>5, <2>1
  <2>3. at[(n + 1) + 1] = at[n + 1] + tokens[n + 1].len
    BY <1>1, <2>1
  <2>4. Starts[n + 1] = at[n + 1]
    BY <1>7, <2>1
  <2> QED
    BY <2>2, <2>3, <2>4
<1>8. ASSUME NEW i \in S PROVE Starts[i] = at[i]
  <2>1. i - 1 \in Nat /\ (i - 1) + 1 = i
    BY <1>2
  <2>2. i - 1 \in Ok
    <3> HIDE DEF Ok
    <3> QED
      BY <1>6, <1>7, <2>1, Induction
  <2> QED
    BY <2>1, <2>2
<1> QED
  BY <1>3, <1>8 DEF m

\* Tokens that lie end to end begin in the text before them.
LEMMA TokensEnd ==
  ASSUME NEW tokens \in Seq(TokenRecord), NEW end \in Nat, EndToEnd(tokens, end)
  PROVE  /\ StartOf(tokens, Len(tokens) + 1) = end
         /\ \A i \in 1..Len(tokens) + 1 : StartOf(tokens, i) \in 1..end
<1>1. PICK at \in [1..Len(tokens) + 1 -> 1..end] :
        /\ at[1] = 1 /\ at[Len(tokens) + 1] = end
        /\ \A i \in DOMAIN tokens : at[i + 1] = at[i] + tokens[i].len
  BY DEF EndToEnd
<1>2. Len(tokens) + 1 \in 1..Len(tokens) + 1
  OBVIOUS
<1>3. at \in [1..Len(tokens) + 1 -> Nat]
  OBVIOUS
<1>4. Recurs(tokens, at)
  BY <1>1 DEF Recurs
<1>5. \A i \in 1..Len(tokens) + 1 : StartOf(tokens, i) = at[i]
  BY <1>3, <1>4, StartOfIs
<1> QED
  BY <1>1, <1>2, <1>5

\* A token more begins where the others end, and they begin where they did.
LEMMA OneMore ==
  ASSUME NEW tokens \in Seq(TokenRecord), NEW t \in TokenRecord, NEW next \in Nat,
         EndToEnd(Append(tokens, t), next)
  PROVE  /\ StartOf(Append(tokens, t), (Len(tokens) + 1) + 1) = next
         /\ \A i \in 1..Len(tokens) + 1 : StartOf(Append(tokens, t), i) = StartOf(tokens, i)
<1> DEFINE m == Len(tokens)
           more == Append(tokens, t)
<1>1. /\ m \in Nat /\ more \in Seq(TokenRecord) /\ Len(more) = m + 1
      /\ \A i \in 1..m : more[i] = tokens[i]
      /\ DOMAIN tokens = 1..m /\ DOMAIN more = 1..m + 1
  OBVIOUS
<1> HIDE DEF m, more
<1>2. PICK at \in [1..(m + 1) + 1 -> 1..next] :
        /\ at[1] = 1 /\ at[(m + 1) + 1] = next
        /\ \A i \in 1..m + 1 : at[i + 1] = at[i] + more[i].len
  BY <1>1 DEF EndToEnd, more
<1> DEFINE before == [i \in 1..m + 1 |-> at[i]]
<1>3. \A i \in 1..m + 1 : i \in 1..(m + 1) + 1 /\ at[i] \in Nat
  BY <1>1, <1>2
<1>4. before \in [1..m + 1 -> Nat]
  BY <1>3
<1>5. Recurs(tokens, before)
  <2>1. before[1] = 1
    BY <1>1, <1>2
  <2>2. ASSUME NEW i \in 1..m PROVE before[i + 1] = before[i] + tokens[i].len
    <3>1. i \in 1..m + 1 /\ i + 1 \in 1..m + 1
      BY <1>1
    <3>2. at[i + 1] = at[i] + tokens[i].len
      BY <1>1, <1>2, <3>1
    <3> QED
      BY <3>1, <3>2
  <2> HIDE DEF before
  <2> QED
    BY <1>1, <2>1, <2>2 DEF Recurs
<1>6. at \in [1..Len(more) + 1 -> Nat] /\ Recurs(more, at)
  <2>1. at \in [1..(m + 1) + 1 -> Nat]
    BY <1>2
  <2> QED
    BY <1>1, <1>2, <2>1 DEF Recurs
<1>7. \A i \in 1..m + 1 : StartOf(tokens, i) = before[i]
  <2> HIDE DEF before
  <2> QED
    BY <1>4, <1>5, StartOfIs DEF m
<1>8. \A i \in 1..Len(more) + 1 : StartOf(more, i) = at[i]
  BY <1>1, <1>6, StartOfIs
<1>9. (m + 1) + 1 \in 1..Len(more) + 1 /\ \A i \in 1..m + 1 : i \in 1..Len(more) + 1 /\ before[i] = at[i]
  BY <1>1
<1> HIDE DEF before
<1> QED
  BY <1>2, <1>7, <1>8, <1>9 DEF m, more

-----------------------------------------------------------------------------
\* The tokens that begin a line: those after a Newline.
LEMMA LinesAre ==
  ASSUME NEW tokens \in Seq(TokenRecord), NEW end \in Nat, EndToEnd(tokens, end)
  PROVE  /\ Begins(tokens) \subseteq 1..end
         /\ \A p : p \in Lines(text, tokens) <=> p \in Begins(tokens) /\ HasCode(p)
<1>1. /\ StartOf(tokens, Len(tokens) + 1) = end /\ Len(tokens) \in Nat
      /\ \A i \in 1..Len(tokens) + 1 : StartOf(tokens, i) \in 1..end
  BY TokensEnd
<1>2. end \in 1..end
  <2>1. Len(tokens) + 1 \in 1..Len(tokens) + 1
    BY <1>1
  <2> QED
    BY <1>1, <2>1
<1>3. \A i \in DOMAIN tokens : i + 1 \in 1..Len(tokens) + 1
  OBVIOUS
<1>4. 1 \in 1..end
  BY <1>2
<1>5. Begins(tokens) \subseteq 1..end
  BY <1>1, <1>3, <1>4 DEF Begins
<1>6. Lines(text, tokens) = {p \in Begins(tokens) : HasCode(p)}
  BY DEF Lines, Begins, HasCode, Margin
<1> QED
  BY <1>5, <1>6

\* A Newline begins a line where it ends, and no other token does.
LEMMA LinesOfMore ==
  ASSUME NEW tokens \in Seq(TokenRecord), NEW t \in TokenRecord, NEW next \in Nat,
         EndToEnd(Append(tokens, t), next)
  PROVE  /\ t.kind = "Newline" => Begins(Append(tokens, t)) = Begins(tokens) \cup {next}
         /\ t.kind # "Newline" => Begins(Append(tokens, t)) = Begins(tokens)
<1> DEFINE m == Len(tokens)
           more == Append(tokens, t)
<1>1. /\ m \in Nat /\ DOMAIN more = 1..m + 1 /\ DOMAIN tokens = 1..m
      /\ more[m + 1] = t /\ \A i \in 1..m : more[i] = tokens[i]
  OBVIOUS
<1>2. StartOf(more, (m + 1) + 1) = next /\ \A i \in 1..m + 1 : StartOf(more, i) = StartOf(tokens, i)
  BY OneMore
<1> HIDE DEF m, more
<1>3. \A i \in 1..m : i + 1 \in 1..m + 1 /\ i \in 1..m + 1
  BY <1>1
<1>4. \A i \in 1..m + 1 : i \in 1..m \/ i = m + 1
  BY <1>1
<1>5. m + 1 \in 1..m + 1
  BY <1>1
<1> DEFINE Newlines == {i \in DOMAIN tokens : tokens[i].kind = "Newline"}
           All == {i \in DOMAIN more : more[i].kind = "Newline"}
<1>6. \A i \in Newlines : i \in All /\ StartOf(more, i + 1) = StartOf(tokens, i + 1)
  BY <1>1, <1>2, <1>3
<1>7. \A i \in All : i \in Newlines \/ (i = m + 1 /\ t.kind = "Newline")
  BY <1>1, <1>4
<1>8. t.kind = "Newline" => m + 1 \in All
  BY <1>1, <1>5
<1>9. /\ Begins(more) = {1} \cup {StartOf(more, i + 1) : i \in All}
      /\ Begins(tokens) = {1} \cup {StartOf(tokens, i + 1) : i \in Newlines}
  BY DEF Begins
<1> HIDE DEF Newlines, All
<1>10. CASE t.kind = "Newline"
  <2>1. ASSUME NEW p \in Begins(more) PROVE p \in Begins(tokens) \cup {next}
    BY <1>2, <1>6, <1>7, <1>9
  <2>2. ASSUME NEW p \in Begins(tokens) \cup {next} PROVE p \in Begins(more)
    BY <1>2, <1>6, <1>8, <1>9, <1>10
  <2> QED
    BY <1>10, <2>1, <2>2 DEF more
<1>11. CASE t.kind # "Newline"
  <2>1. ASSUME NEW p \in Begins(more) PROVE p \in Begins(tokens)
    BY <1>6, <1>7, <1>9, <1>11
  <2>2. ASSUME NEW p \in Begins(tokens) PROVE p \in Begins(more)
    BY <1>6, <1>9
  <2> QED
    BY <1>11, <2>1, <2>2 DEF more
<1> QED
  BY <1>10, <1>11

\* The tokens before a line's first character that is not white are the first
\* ones; a token that ends after it is not one of them, and at it are all.
LEMMA SeenIs ==
  ASSUME text \in Seq(Char), NEW tokens \in Seq(TokenRecord), NEW end \in Nat, EndToEnd(tokens, end),
         NEW p \in Places
  PROVE  /\ Seen(tokens, p) \in 0..Len(tokens)
         /\ end = Margin(p) => Seen(tokens, p) = Len(tokens)
<1> DEFINE m == Len(tokens)
           margin == Margin(p)
           Those == {i \in DOMAIN tokens : StartOf(tokens, i + 1) <= margin}
<1>1. m \in Nat /\ DOMAIN tokens = 1..m
  OBVIOUS
<1>2. Seen(tokens, p) = Cardinality(Those)
  BY DEF Seen, Before, Margin
<1>3. IsFiniteSet(1..m) /\ Cardinality(1..m) = m
  <2>1. m \in Int /\ 1 \in Int
    BY <1>1
  <2> HIDE DEF m
  <2>2. IsFiniteSet(1..m) /\ Cardinality(1..m) = IF 1 > m THEN 0 ELSE m - 1 + 1
    BY <2>1, FS_Interval
  <2> QED
    BY <1>1, <2>2
<1>4. Those \subseteq 1..m
  BY <1>1
<1> HIDE DEF Those, m
<1>5. IsFiniteSet(Those) /\ Cardinality(Those) <= m /\ Cardinality(Those) \in Nat
  BY <1>3, <1>4, FS_Subset, FS_CardinalityType
<1>6. end = Margin(p) => Those = 1..m
  <2> SUFFICES ASSUME end = Margin(p), NEW i \in 1..m PROVE i \in Those
    BY <1>4
  <2>1. i + 1 \in 1..m + 1
    BY <1>1
  <2>2. StartOf(tokens, i + 1) \in 1..end
    BY <2>1, TokensEnd DEF m
  <2> QED
    BY <1>1, <2>2 DEF Those
<1> QED
  BY <1>1, <1>2, <1>3, <1>5, <1>6 DEF m

\* A token that ends behind a line's first character leaves those before it.
LEMMA SeenOfMore ==
  ASSUME text \in Seq(Char), NEW tokens \in Seq(TokenRecord), NEW t \in TokenRecord, NEW next \in Nat,
         EndToEnd(Append(tokens, t), next), NEW lines, Past(lines, next), NEW p \in lines
  PROVE  Seen(Append(tokens, t), p) = Seen(tokens, p)
<1> DEFINE m == Len(tokens)
           more == Append(tokens, t)
           margin == Margin(p)
           Those == {i \in DOMAIN tokens : StartOf(tokens, i + 1) <= margin}
           All == {i \in DOMAIN more : StartOf(more, i + 1) <= margin}
<1>1. m \in Nat /\ DOMAIN more = 1..m + 1 /\ DOMAIN tokens = 1..m
  OBVIOUS
<1>2. StartOf(more, (m + 1) + 1) = next /\ \A i \in 1..m + 1 : StartOf(more, i) = StartOf(tokens, i)
  BY OneMore
<1>3. Seen(tokens, p) = Cardinality(Those) /\ Seen(more, p) = Cardinality(All)
  BY DEF Seen, Before, Margin
<1>4. margin \in Nat /\ margin < next
  BY PlaceIs DEF Past
<1> HIDE DEF m, more, margin
<1>5. All = Those
  <2>1. ASSUME NEW i \in 1..m + 1 PROVE i \in All <=> i \in Those
    <3>1. CASE i = m + 1
      <4>1. ~(StartOf(more, i + 1) <= margin) /\ i \notin 1..m
        BY <1>1, <1>2, <1>4, <3>1
      <4> QED
        BY <1>1, <4>1
    <3>2. CASE i # m + 1
      <4>1. i \in 1..m /\ i + 1 \in 1..m + 1
        BY <1>1, <3>2
      <4> QED
        BY <1>1, <1>2, <4>1
    <3> QED
      BY <3>1, <3>2
  <2>2. Those \subseteq 1..m + 1 /\ All \subseteq 1..m + 1
    BY <1>1
  <2> QED
    BY <2>1, <2>2
<1> QED
  BY <1>3, <1>5 DEF more

\* How many tokens of a kind there are from one to another, or to one more.
LEMMA CountIs ==
  ASSUME NEW tokens \in Seq(TokenRecord), NEW t \in TokenRecord, NEW kind, NEW a \in Nat \ {0}
  PROVE  /\ \A b \in 0..Len(tokens) : /\ Count(tokens, kind, a, b) \in Nat
                                      /\ Count(Append(tokens, t), kind, a, b) = Count(tokens, kind, a, b)
         /\ a \in 1..Len(tokens) + 1 =>
              \A n \in Nat : Count(tokens, kind, a, Len(tokens)) = n =>
                Count(Append(tokens, t), kind, a, Len(tokens) + 1) = IF t.kind = kind THEN n + 1 ELSE n
<1> DEFINE m == Len(tokens)
           more == Append(tokens, t)
           Among(s, b) == {i \in a..b : s[i].kind = kind}
<1>1. /\ m \in Nat /\ more[m + 1] = t /\ \A i \in 1..m : more[i] = tokens[i]
  OBVIOUS
<1> HIDE DEF m, more
<1>2. ASSUME NEW b \in 0..m
      PROVE  IsFiniteSet(Among(tokens, b)) /\ Among(more, b) = Among(tokens, b)
  <2>1. IsFiniteSet(a..b) /\ Among(tokens, b) \subseteq a..b
    <3>1. a \in Int /\ b \in Int
      BY <1>1
    <3> QED
      BY <3>1, FS_Interval
  <2>2. \A i \in a..b : i \in 1..m
    BY <1>1
  <2>3. Among(more, b) = Among(tokens, b)
    BY <1>1, <2>2
  <2> HIDE DEF Among
  <2> QED
    BY <2>1, <2>3, FS_Subset
<1>3. ASSUME NEW b \in 0..m
      PROVE  Count(tokens, kind, a, b) \in Nat /\ Count(more, kind, a, b) = Count(tokens, kind, a, b)
  <2>1. Count(tokens, kind, a, b) = Cardinality(Among(tokens, b)) /\ Count(more, kind, a, b) = Cardinality(Among(more, b))
    BY DEF Count
  <2> HIDE DEF Among
  <2> QED
    BY <1>2, <2>1, FS_CardinalityType
<1>4. ASSUME a \in 1..m + 1, NEW n \in Nat, Count(tokens, kind, a, m) = n
      PROVE  Count(more, kind, a, m + 1) = IF t.kind = kind THEN n + 1 ELSE n
  <2>1. /\ Cardinality(Among(tokens, m)) = n
        /\ Count(more, kind, a, m + 1) = Cardinality(Among(more, m + 1))
    BY <1>4 DEF Count
  <2>2. m \in 0..m /\ m + 1 \in a..m + 1 /\ m + 1 \notin a..m
    BY <1>1, <1>4
  <2>3. \A i \in a..m + 1 : (i \in a..m /\ i \in 1..m) \/ i = m + 1
    BY <1>1, <1>4
  <2>4. \A i \in a..m : i \in a..m + 1 /\ i \in 1..m
    BY <1>1, <1>4
  <2>5. m + 1 \notin Among(tokens, m)
    BY <2>2
  <2>6. CASE t.kind = kind
    <3>1. Among(more, m + 1) = Among(tokens, m) \cup {m + 1}
      BY <1>1, <2>2, <2>3, <2>4, <2>6
    <3>2. Cardinality(Among(tokens, m) \cup {m + 1}) = n + 1
      <4> HIDE DEF Among
      <4> QED
        BY <1>2, <2>1, <2>2, <2>5, FS_AddElement
    <3> HIDE DEF Among
    <3> QED
      BY <2>1, <2>6, <3>1, <3>2
  <2>7. CASE t.kind # kind
    <3>1. Among(more, m + 1) = Among(tokens, m)
      BY <1>1, <2>2, <2>3, <2>4, <2>7
    <3> HIDE DEF Among
    <3> QED
      BY <2>1, <2>7, <3>1
  <2> QED
    BY <2>6, <2>7
<1> QED
  BY <1>3, <1>4 DEF m, more

\* The tokens since a line's first character, and one more.
LEMMA SinceOfMore ==
  ASSUME text \in Seq(Char), NEW tokens \in Seq(TokenRecord), NEW t \in TokenRecord,
         NEW end \in Nat, EndToEnd(tokens, end), NEW next \in Nat, EndToEnd(Append(tokens, t), next),
         NEW lines, Past(lines, next), NEW p \in lines, NEW kind, NEW n \in Nat, Since(tokens, kind, p) = n
  PROVE  Since(Append(tokens, t), kind, p) = IF t.kind = kind THEN n + 1 ELSE n
<1> DEFINE a == Seen(tokens, p) + 1
           m == Len(tokens)
<1>1. Seen(tokens, p) \in 0..m /\ Seen(Append(tokens, t), p) = Seen(tokens, p)
  BY SeenIs, SeenOfMore DEF Past
<1>2. a \in Nat \ {0} /\ a \in 1..m + 1 /\ m \in Nat
  BY <1>1
<1>3. Count(tokens, kind, a, m) = n
  BY DEF Since
<1>4. Since(Append(tokens, t), kind, p) = Count(Append(tokens, t), kind, a, m + 1)
  <2>1. Len(Append(tokens, t)) = m + 1
    OBVIOUS
  <2> QED
    BY <1>1, <2>1 DEF Since
<1> HIDE DEF a
<1> QED
  BY <1>2, <1>3, <1>4, CountIs

\* How many there are is a number.
LEMMA SinceIs ==
  ASSUME text \in Seq(Char), NEW tokens \in Seq(TokenRecord), NEW end \in Nat, EndToEnd(tokens, end),
         NEW p \in Places, NEW kind
  PROVE  /\ Since(tokens, kind, p) \in Nat
         /\ end = Margin(p) => Since(tokens, kind, p) = 0
<1> DEFINE a == Seen(tokens, p) + 1
           m == Len(tokens)
<1>1. Seen(tokens, p) \in 0..m /\ (end = Margin(p) => Seen(tokens, p) = m) /\ m \in Nat
  BY SeenIs
<1>2. a \in Nat \ {0} /\ m \in 0..m
  BY <1>1
<1>3. Since(tokens, kind, p) = Count(tokens, kind, a, m)
  BY DEF Since
<1>4. Count(tokens, kind, a, m) \in Nat
  <2>1. Token("Newline", 0, TRUE) \in TokenRecord
    BY DEF Token, TokenRecord, Kind
  <2> HIDE DEF a
  <2> QED
    BY <1>2, <2>1, CountIs
<1>5. a = m + 1 => Count(tokens, kind, a, m) = 0
  <2> SUFFICES ASSUME a = m + 1 PROVE Count(tokens, kind, m + 1, m) = 0
    BY <1>1
  <2>1. (m + 1)..m = {}
    BY <1>1
  <2>2. {i \in (m + 1)..m : tokens[i].kind = kind} = {}
    BY <2>1
  <2> QED
    BY <2>2, FS_EmptySet DEF Count
<1> QED
  BY <1>1, <1>3, <1>4, <1>5

\* What is judged stays so.
LEMMA JudgedOfMore ==
  ASSUME text \in Seq(Char), NEW tokens \in Seq(TokenRecord), NEW t \in TokenRecord,
         NEW end \in Nat, EndToEnd(tokens, end), NEW next \in Nat, EndToEnd(Append(tokens, t), next),
         NEW lines, Past(lines, next), Judged(tokens, lines)
  PROVE  Judged(Append(tokens, t), lines)
<1> DEFINE more == Append(tokens, t)
<1> SUFFICES ASSUME NEW p \in lines, NEW q \in lines, IsNext(lines, p, q),
                    NEW before, before = NestOf(UpTo(lines, p)), NEW now, now = NestOf(UpTo(lines, q))
             PROVE  Matches(more, p, q, before, now)
  BY DEF Judged
<1>1. Matches(tokens, p, q, before, now)
  BY DEF Judged
<1>2. /\ Seen(tokens, p) \in 0..Len(tokens) /\ Seen(tokens, q) \in 0..Len(tokens)
      /\ Seen(more, p) = Seen(tokens, p) /\ Seen(more, q) = Seen(tokens, q)
  BY SeenIs, SeenOfMore DEF Past
<1> DEFINE a == Seen(tokens, p) + 1
           b == Seen(tokens, q)
<1>3. a \in Nat \ {0} /\ b \in 0..Len(tokens)
  BY <1>2
<1>4. \A kind : Count(more, kind, a, b) = Count(tokens, kind, a, b)
  <2> HIDE DEF a, b
  <2> QED
    BY <1>3, CountIs
<1> QED
  BY <1>1, <1>2, <1>4 DEF Matches

\* The columns that lines are nested in.
LEMMA NestIs ==
  ASSUME text \in Seq(Char), NEW lines, lines \subseteq Places
  PROVE  NestOf(lines) \subseteq Nat \ {0}
<1>1. \A p \in lines : Column(p) \in Nat
  BY PlaceIs
<1> QED
  BY <1>1 DEF NestOf

\* A line after them leaves those that are not deeper, and adds its own.
LEMMA NestOfMore ==
  ASSUME text \in Seq(Char), NEW lines, lines \subseteq Places, NEW q \in Places, \A p \in lines : p < q
  PROVE  NestOf(lines \cup {q}) = Joined(NestOf(lines), Column(q))
<1> DEFINE all == lines \cup {q}
           Outer(p, set) == \A k \in set : p <= k => Column(k) >= Column(p)
<1>1. q \in Nat /\ Column(q) \in Nat /\ \A p \in lines : p \in Nat /\ Column(p) \in Nat /\ p < q
  <2>1. \A p \in Places : p \in Nat /\ Column(p) \in Nat
    BY PlaceIs
  <2> QED
    BY <2>1
<1>2. \A c : c \in NestOf(lines) <=> c # 0 /\ \E p \in lines : Outer(p, lines) /\ c = Column(p)
  BY DEF NestOf
<1>3. \A c : c \in NestOf(all) <=> c # 0 /\ \E p \in all : Outer(p, all) /\ c = Column(p)
  BY DEF NestOf
<1>4. Outer(q, all)
  <2> SUFFICES ASSUME NEW k \in all, q <= k PROVE Column(k) >= Column(q)
    OBVIOUS
  <2>1. k = q
    BY <1>1
  <2> QED
    BY <1>1, <2>1
<1>5. ASSUME NEW p \in lines PROVE Outer(p, all) <=> Outer(p, lines) /\ Column(p) <= Column(q)
  <2>1. p <= q
    BY <1>1
  <2>2. Outer(p, all) => Outer(p, lines) /\ Column(p) <= Column(q)
    BY <1>1, <2>1
  <2>3. Outer(p, lines) /\ Column(p) <= Column(q) => Outer(p, all)
    BY <1>1
  <2> QED
    BY <2>2, <2>3
<1>6. \A c : c \in Within(NestOf(lines), Column(q)) <=> c \in NestOf(lines) /\ c <= Column(q)
  BY DEF Within
<1> HIDE DEF Outer
<1>7. ASSUME NEW c \in NestOf(all) PROVE c \in Within(NestOf(lines), Column(q)) \cup ({Column(q)} \ {0})
  <2>1. PICK p \in all : Outer(p, all) /\ c = Column(p) /\ c # 0
    BY <1>3
  <2>2. CASE p = q
    BY <2>1, <2>2
  <2>3. CASE p \in lines
    BY <1>2, <1>5, <1>6, <2>1, <2>3
  <2> QED
    BY <2>2, <2>3
<1>8. ASSUME NEW c \in Within(NestOf(lines), Column(q)) \cup ({Column(q)} \ {0}) PROVE c \in NestOf(all)
  <2>1. CASE c \in Within(NestOf(lines), Column(q))
    <3>1. PICK p \in lines : Outer(p, lines) /\ c = Column(p) /\ c # 0
      BY <1>2, <1>6, <2>1
    <3>2. Outer(p, all)
      BY <1>5, <1>6, <2>1, <3>1
    <3> QED
      BY <1>3, <3>1, <3>2
  <2>2. CASE c = Column(q) /\ c # 0
    BY <1>3, <1>4, <2>2
  <2> QED
    BY <2>1, <2>2
<1> QED
  BY <1>7, <1>8 DEF Joined

\* The tokens since the last line are the difference between two nests.
Announced(tokens, lines, before, now) ==
  /\ Judged(tokens, lines)
  /\ \A p \in lines : IsLatest(lines, p) =>
       /\ Since(tokens, "Dedent", p) = Cardinality(before \ now)
       /\ Since(tokens, "Indent", p) = Cardinality(now \ before)

\* No block was opened or closed since the last line.
Settled(tokens, lines) ==
  \A p \in lines : IsLatest(lines, p) =>
    Since(tokens, "Indent", p) = 0 /\ Since(tokens, "Dedent", p) = 0

\* The next line is judged if the line before it is.
LEMMA Entering ==
  ASSUME text \in Seq(Char), NEW tokens \in Seq(TokenRecord), NEW end \in Nat, EndToEnd(tokens, end),
         NEW lines, lines \subseteq Places, NEW q \in Places, \A p \in lines : p < q,
         end = Margin(q),
         NEW before, before = NestOf(lines), NEW now, now = NestOf(lines \cup {q}),
         Announced(tokens, lines, before, now)
  PROVE  Judged(tokens, lines \cup {q}) /\ Settled(tokens, lines \cup {q})
<1> DEFINE all == lines \cup {q}
<1>1. q \in Nat /\ \A p \in lines : p \in Nat /\ p \in Places /\ p < q
  BY DEF Places
<1>2. Seen(tokens, q) = Len(tokens) /\ \A kind : Since(tokens, kind, q) = 0
  BY SeenIs, SinceIs
<1>3. ASSUME NEW p \in all, IsLatest(all, p) PROVE p = q
  BY <1>1, <1>3 DEF IsLatest
<1>4. ASSUME NEW p \in all, NEW r \in all, IsNext(all, p, r)
      PROVE  Matches(tokens, p, r, NestOf(UpTo(all, p)), NestOf(UpTo(all, r)))
  <2>1. p \in lines /\ p < r
    BY <1>1, <1>4 DEF IsNext
  <2>2. UpTo(all, p) = UpTo(lines, p)
    BY <1>1, <2>1 DEF UpTo
  <2>3. CASE r \in lines
    <3>1. UpTo(all, r) = UpTo(lines, r)
      BY <1>1, <2>3 DEF UpTo
    <3>2. IsNext(lines, p, r)
      BY <1>4, <2>1, <2>3 DEF IsNext
    <3> QED
      BY <2>1, <2>2, <2>3, <3>1, <3>2 DEF Announced, Judged
  <2>4. CASE r = q
    <3>1. IsLatest(lines, p)
      BY <1>1, <1>4, <2>1, <2>4 DEF IsNext, IsLatest
    <3>2. UpTo(lines, p) = lines
      BY <3>1 DEF UpTo, IsLatest
    <3>3. UpTo(all, q) = all
      <4>1. \A x \in all : x <= q
        BY <1>1
      <4> QED
        BY <4>1 DEF UpTo
    <3>4. Since(tokens, "Dedent", p) = Cardinality(before \ now) /\ Since(tokens, "Indent", p) = Cardinality(now \ before)
      BY <2>1, <3>1 DEF Announced
    <3>5. Matches(tokens, p, q, before, now)
      BY <1>2, <3>4 DEF Matches, Since
    <3> QED
      BY <2>2, <2>4, <3>2, <3>3, <3>5
  <2> QED
    BY <2>3, <2>4
<1>5. Judged(tokens, all)
  BY <1>4 DEF Judged
<1>6. Settled(tokens, all)
  BY <1>2, <1>3 DEF Settled
<1> QED
  BY <1>5, <1>6

\* The top of the stack is its deepest column, or nothing.
LEMMA TopIs ==
  ASSUME NEW indents \in Seq(Nat), Deepen(indents)
  PROVE  /\ Top(indents) \in Nat /\ OnStack(indents) \subseteq Nat \ {0}
         /\ Top(indents) = 0 \/ Top(indents) \in OnStack(indents)
         /\ \A c \in OnStack(indents) : c <= Top(indents)
<1> DEFINE n == Len(indents)
<1>1. n \in Nat /\ DOMAIN indents = 1..n /\ \A k \in 1..n : indents[k] \in Nat
  OBVIOUS
<1>2. \A k \in 1..n : indents[k] # 0 /\ \A i \in 1..k - 1 : indents[i] < indents[k]
  BY <1>1 DEF Deepen
<1>3. OnStack(indents) \subseteq Nat \ {0}
  BY <1>1, <1>2 DEF OnStack
<1>4. CASE n = 0
  <2>1. Top(indents) = 0 /\ OnStack(indents) = {}
    BY <1>1, <1>4 DEF Top, OnStack
  <2> QED
    BY <1>3, <2>1
<1>5. CASE n # 0
  <2>1. Top(indents) = indents[n] /\ n \in 1..n
    BY <1>1, <1>5 DEF Top
  <2> HIDE DEF n
  <2>2. ASSUME NEW k \in 1..n PROVE indents[k] <= indents[n]
    <3>1. k = n \/ k \in 1..n - 1
      BY <1>1
    <3> QED
      BY <1>1, <1>2, <2>1, <3>1
  <2>3. Top(indents) \in Nat /\ Top(indents) \in OnStack(indents)
    BY <1>1, <2>1 DEF OnStack
  <2>4. \A c \in OnStack(indents) : c <= Top(indents)
    BY <1>1, <2>1, <2>2 DEF OnStack
  <2> QED
    BY <1>3, <2>3, <2>4
<1> QED
  BY <1>4, <1>5

\* A line at the top of the stack goes on in its block; a deeper one opens one.
LEMMA NotPopping ==
  ASSUME NEW indents \in Seq(Nat), Deepen(indents), NEW top \in Nat, top = Top(indents), NEW w \in Nat,
         NEW before, before = OnStack(indents), NEW now, now = Joined(before, w)
  PROVE  /\ w = top => Continues(before, now)
         /\ w > top => Opens(before, now, w) /\ now = OnStack(Append(indents, w))
<1>1. /\ Top(indents) \in Nat /\ before \subseteq Nat \ {0}
      /\ Top(indents) = 0 \/ Top(indents) \in before
      /\ \A c \in before : c \in Nat /\ c <= Top(indents)
  BY TopIs
<1>2. \A c : c \in now <=> (c \in before /\ c <= w) \/ (c = w /\ c # 0)
  BY DEF Joined, Within
<1>3. CASE w = top
  <2>1. \A c : c \in now <=> c \in before
    BY <1>1, <1>2, <1>3
  <2>2. now = before
    BY <2>1
  <2>3. w = top /\ ~(w > top)
    BY <1>3
  <2> QED
    BY <2>2, <2>3 DEF Continues
<1>4. CASE w > top
  <2>1. w # 0 /\ w \notin before /\ \A c \in before : c <= w
    BY <1>1, <1>4
  <2>2. \A c : c \in now <=> c \in before \/ c = w
    BY <1>2, <2>1
  <2>3. OnStack(Append(indents, w)) = before \cup {w}
    <3> DEFINE more == Append(indents, w)
               n == Len(indents)
    <3>1. /\ n \in Nat /\ DOMAIN indents = 1..n /\ DOMAIN more = 1..n + 1
          /\ more[n + 1] = w /\ \A k \in 1..n : more[k] = indents[k]
      OBVIOUS
    <3>2. \A k \in 1..n + 1 : k \in 1..n \/ k = n + 1
      BY <3>1
    <3>3. n + 1 \in 1..n + 1 /\ \A k \in 1..n : k \in 1..n + 1
      BY <3>1
    <3> HIDE DEF more, n
    <3>4. OnStack(more) = before \cup {w}
      BY <3>1, <3>2, <3>3 DEF OnStack
    <3> QED
      BY <3>4 DEF more
  <2> QED
    BY <1>1, <1>4, <2>1, <2>2, <2>3 DEF Opens
<1> QED
  BY <1>3, <1>4

\* Popping leaves the columns that are not deeper, and there is a level for each
\* that is.
LEMMA Popping ==
  ASSUME NEW indents \in Seq(Nat), Deepen(indents), NEW w \in Nat, NEW left \in Nat,
         left < Len(indents), Pops(indents, w, left)
  PROVE  /\ OnStack(SubSeq(indents, 1, left)) = Within(OnStack(indents), w)
         /\ Cardinality(Beyond(OnStack(indents), w)) = Len(indents) - left
<1> DEFINE n == Len(indents)
           kept == SubSeq(indents, 1, left)
           m == n - left
<1>1. /\ n \in Nat /\ DOMAIN indents = 1..n /\ left < n /\ \A k \in 1..n : indents[k] \in Nat
      /\ \A k \in 1..n : indents[k] > w <=> k > left
      /\ \A k \in 1..n : \A i \in 1..k - 1 : indents[i] < indents[k]
  BY DEF Pops, Deepen
<1>2. DOMAIN kept = 1..left /\ \A k \in 1..left : kept[k] = indents[k]
  BY <1>1
<1>3. m \in Nat
  BY <1>1
<1> HIDE DEF n, kept
<1>4. \A c : c \in OnStack(indents) <=> \E k \in 1..n : c = indents[k]
  BY <1>1 DEF OnStack
<1>5. \A c : c \in OnStack(kept) <=> \E k \in 1..left : c = indents[k]
  BY <1>2 DEF OnStack
<1>6. \A k \in 1..n : indents[k] <= w <=> k \in 1..left
  BY <1>1
<1>7. \A k \in 1..left : k \in 1..n
  BY <1>1
<1>8. OnStack(kept) = Within(OnStack(indents), w)
  <2>1. \A c : c \in Within(OnStack(indents), w) <=> c \in OnStack(indents) /\ c <= w
    BY DEF Within
  <2>2. \A c : c \in OnStack(kept) => c \in OnStack(indents) /\ c <= w
    BY <1>4, <1>5, <1>6, <1>7
  <2>3. \A c : c \in OnStack(indents) /\ c <= w => c \in OnStack(kept)
    BY <1>4, <1>5, <1>6
  <2> QED
    BY <2>1, <2>2, <2>3
<1> DEFINE f == [i \in 1..m |-> indents[left + i]]
           deeper == Beyond(OnStack(indents), w)
<1>9. \A i \in 1..m : left + i \in 1..n /\ left + i > left
  BY <1>1
<1>10. \A i \in 1..m : f[i] \in deeper
  <2> TAKE i \in 1..m
  <2>1. indents[left + i] > w /\ indents[left + i] \in OnStack(indents)
    BY <1>1, <1>4, <1>9
  <2> QED
    BY <2>1 DEF Beyond
<1>11. \A c \in deeper : \E i \in 1..m : f[i] = c
  <2> TAKE c \in deeper
  <2>1. PICK k \in 1..n : c = indents[k] /\ c > w
    BY <1>4 DEF Beyond
  <2>2. k > left /\ k - left \in 1..m /\ left + (k - left) = k
    BY <1>1, <2>1
  <2> DEFINE i == k - left
  <2>3. i \in 1..m /\ f[i] = c
    BY <2>1, <2>2
  <2> QED
    BY <2>3
<1>12. \A i, j \in 1..m : f[i] = f[j] => i = j
  <2> SUFFICES ASSUME NEW i \in 1..m, NEW j \in 1..m, f[i] = f[j], i # j PROVE FALSE
    OBVIOUS
  <2>1. left + i \in 1..n /\ left + j \in 1..n /\ f[i] = indents[left + i] /\ f[j] = indents[left + j]
    BY <1>9
  <2>2. indents[left + i] \in Nat /\ indents[left + j] \in Nat
    BY <1>1, <2>1
  <2>3. CASE i < j
    <3>1. left + i \in 1..(left + j) - 1
      BY <1>1, <2>3
    <3> QED
      BY <1>1, <2>1, <2>2, <3>1
  <2>4. CASE j < i
    <3>1. left + j \in 1..(left + i) - 1
      BY <1>1, <2>4
    <3> QED
      BY <1>1, <2>1, <2>2, <3>1
  <2> QED
    BY <2>3, <2>4
<1>13. f \in Bijection(1..m, deeper)
  <2>1. f \in [1..m -> deeper]
    BY <1>10
  <2>2. DOMAIN f = 1..m
    OBVIOUS
  <2> HIDE DEF f, deeper
  <2> QED
    BY <1>11, <1>12, <2>1, <2>2 DEF Bijection, Injection, Surjection, IsInjective
<1>14. Cardinality(deeper) = m
  <2>1. ExistsBijection(1..m, deeper)
    <3> HIDE DEF f, deeper
    <3> QED
      BY <1>13 DEF ExistsBijection
  <2>2. IsFiniteSet(1..m) /\ Cardinality(1..m) = m
    <3>1. m \in Int /\ 1 \in Int
      BY <1>3
    <3> HIDE DEF m
    <3>2. IsFiniteSet(1..m) /\ Cardinality(1..m) = IF 1 > m THEN 0 ELSE m - 1 + 1
      BY <3>1, FS_Interval
    <3> QED
      BY <1>3, <3>2
  <2> HIDE DEF deeper, m
  <2> QED
    BY <2>1, <2>2, FS_Bijection
<1> QED
  BY <1>8, <1>14 DEF n, kept

-----------------------------------------------------------------------------
\* All tokens are consistent if those before the last and the last are.
LEMMA ConsistentOfMore ==
  ASSUME NEW tokens \in Seq(TokenRecord), NEW t \in TokenRecord
  PROVE  Consistent(Append(tokens, t)) => Consistent(tokens) /\ t.consistent
<1> DEFINE m == Len(tokens)
           more == Append(tokens, t)
<1>1. /\ m \in Nat /\ DOMAIN more = 1..m + 1 /\ DOMAIN tokens = 1..m
      /\ more[m + 1] = t /\ \A i \in 1..m : more[i] = tokens[i]
  OBVIOUS
<1>2. m + 1 \in 1..m + 1 /\ \A i \in 1..m : i \in 1..m + 1
  BY <1>1
<1> HIDE DEF m, more
<1>3. Consistent(more) => Consistent(tokens) /\ t.consistent
  BY <1>1, <1>2 DEF Consistent
<1> QED
  BY <1>3 DEF more

\* The lines whose white space has been read lie before the cursor.
LEMMA EnteredIs ==
  ASSUME NEW cursor, IInv(cursor), LinesArePast(cursor)
  PROVE  /\ Entered(cursor) \subseteq Places
         /\ \A p \in Entered(cursor) : HasCode(p) /\ p <= cursor.start
         /\ cursor.state = "AfterLeadingSpaces" => Entered(cursor) = Lines(text, cursor.tokens)
         /\ cursor.state # "AfterLeadingSpaces" =>
              /\ Entered(cursor) = Lines(text, cursor.tokens) \ {cursor.start}
              /\ \A p \in Entered(cursor) : p < cursor.start
              /\ Past(Entered(cursor), cursor.start)
         /\ AtEnd(cursor) => Past(Entered(cursor), cursor.start)
         /\ \A n \in Nat : n > cursor.start => Past(Entered(cursor), n)
<1> DEFINE lines == Entered(cursor)
           start == cursor.start
<1>1. /\ text \in Seq(Char) /\ start \in Places /\ start \in Nat /\ cursor.tokens \in Seq(TokenRecord)
      /\ EndToEnd(cursor.tokens, start) /\ Len(text) \in Nat
  BY CursorIs DEF IInv
<1>2. /\ cursor.state = "AfterLeadingSpaces" => lines = Lines(text, cursor.tokens)
      /\ cursor.state # "AfterLeadingSpaces" => lines = Lines(text, cursor.tokens) \ {start}
  BY DEF Entered
<1>3. \A p \in Lines(text, cursor.tokens) : p \in 1..start /\ HasCode(p)
  BY <1>1, LinesAre
<1>4. \A p \in lines : p \in 1..start /\ HasCode(p) /\ (cursor.state # "AfterLeadingSpaces" => p # start)
  BY <1>2, <1>3
<1>5. \A p \in lines : Margin(p) <= start /\ (cursor.state # "AfterLeadingSpaces" => Margin(p) < start)
  BY DEF LinesArePast
<1> HIDE DEF lines, start
<1>6. \A p \in lines : p \in Places /\ p \in Nat /\ p <= start
  BY <1>1, <1>4 DEF Places
<1>7. \A p \in lines : Margin(p) \in Nat /\ Margin(p) <= Len(text)
  <2> TAKE p \in lines
  <2>1. Margin(p) \in Nat /\ (HasCode(p) => Margin(p) \in 1..Len(text))
    BY <1>1, <1>6, PlaceIs
  <2> QED
    BY <1>1, <1>4, <2>1
<1>8. cursor.state # "AfterLeadingSpaces" => (\A p \in lines : p < start) /\ Past(lines, start)
  BY <1>1, <1>4, <1>5, <1>6 DEF Past
<1>9. AtEnd(cursor) => Past(lines, start)
  <2>1. AtEnd(cursor) => start > Len(text)
    BY DEF AtEnd, start
  <2> QED
    BY <1>1, <1>6, <1>7, <2>1 DEF Past
<1>10. ASSUME NEW n \in Nat, n > start PROVE Past(lines, n)
  BY <1>1, <1>5, <1>6, <1>7, <1>10 DEF Past
<1> QED
  BY <1>2, <1>4, <1>6, <1>8, <1>9, <1>10 DEF lines, start

\* While no DEDENT is still to come, the stack is the nest of the last line, and
\* no block was opened or closed since.
AtRest(cu) == OnStack(cu.indents) = NestOf(Entered(cu)) /\ Settled(cu.tokens, Entered(cu))

LEMMA StackIs ==
  ASSUME NEW cursor, IInv(cursor), LinesArePast(cursor), cursor.state # "Dedenting"
  PROVE  StackIsNest(cursor) <=> AtRest(cursor)
<1>1. /\ text \in Seq(Char) /\ cursor.tokens \in Seq(TokenRecord) /\ cursor.start \in Nat
      /\ EndToEnd(cursor.tokens, cursor.start) /\ cursor.remaining = 0
  BY CursorIs DEF IInv
<1>2. \A p \in Entered(cursor) : Since(cursor.tokens, "Dedent", p) \in Nat
  BY <1>1, EnteredIs, SinceIs
<1>3. Popped(cursor) = {} /\ Cardinality({}) = 0
  BY FS_EmptySet DEF Popped
<1> QED
  BY <1>1, <1>2, <1>3 DEF StackIsNest, AtRest, Settled

\* What is between lines leaves them, their nests and the stack as they are.
LEMMA Quiet ==
  ASSUME NEW cursor, NEW stepped, IInv(cursor), IInv(stepped), LineInv(cursor), ~AtEnd(cursor),
         cursor.state # "Dedenting", stepped.state # "Dedenting",
         NEW t \in TokenRecord, stepped.tokens = Append(cursor.tokens, t),
         t.kind # "Indent", t.kind # "Dedent", stepped.start > cursor.start,
         stepped.indents = cursor.indents, Entered(stepped) = Entered(cursor),
         stepped.state = "BeforeLeadingSpaces" => stepped.start \in Begins(stepped.tokens)
  PROVE  LineInv(stepped)
<1> DEFINE lines == Entered(cursor)
<1>1. /\ text \in Seq(Char) /\ cursor.tokens \in Seq(TokenRecord) /\ cursor.start \in Nat
      /\ EndToEnd(cursor.tokens, cursor.start) /\ stepped.start \in Nat
      /\ EndToEnd(stepped.tokens, stepped.start)
  BY CursorIs DEF IInv
<1>2. LinesArePast(cursor)
  BY DEF LineInv
<1>3. lines \subseteq Places /\ Past(lines, stepped.start)
  BY <1>1, <1>2, EnteredIs
<1>4. LinesArePast(stepped)
  <2>1. \A p \in lines : Margin(p) < stepped.start /\ Margin(p) \in Nat
    BY <1>1, <1>3, PlaceIs DEF Past
  <2>2. \A p \in lines : Margin(p) <= stepped.start
    BY <1>1, <2>1
  <2> QED
    BY <2>1, <2>2 DEF LinesArePast
<1>5. ASSUME Consistent(stepped.tokens) PROVE Judged(stepped.tokens, lines) /\ AtRest(stepped)
  <2>1. Consistent(cursor.tokens)
    BY <1>1, <1>5, ConsistentOfMore
  <2>2. Judged(cursor.tokens, lines) /\ AtRest(cursor)
    BY <1>2, <2>1, StackIs DEF LineInv
  <2>3. Judged(stepped.tokens, lines)
    BY <1>1, <1>3, <2>2, JudgedOfMore
  <2>4. ASSUME NEW p \in lines, NEW kind \in {"Indent", "Dedent"}, Since(cursor.tokens, kind, p) = 0
        PROVE  Since(stepped.tokens, kind, p) = 0
    <3>1. t.kind # kind
      OBVIOUS
    <3> HIDE DEF lines
    <3> QED
      BY <1>1, <1>3, <2>4, <3>1, SinceOfMore
  <2>5. AtRest(stepped)
    BY <2>2, <2>4 DEF AtRest, Settled
  <2> QED
    BY <2>3, <2>5
<1>6. StackIsNest(stepped) <=> AtRest(stepped)
  BY <1>4, StackIs
<1> QED
  BY <1>4, <1>5, <1>6 DEF LineInv

\* With the white space of a line, and the tokens for it, the line is entered.
LEMMA Enters ==
  ASSUME NEW cursor, NEW stepped, IInv(cursor), IInv(stepped), LinesArePast(cursor),
         cursor.state # "AfterLeadingSpaces", cursor.start \in Lines(text, cursor.tokens),
         stepped.state = "AfterLeadingSpaces", stepped.start = Margin(cursor.start),
         Lines(text, stepped.tokens) = Lines(text, cursor.tokens),
         NEW lines, lines = Entered(cursor), NEW before, before = NestOf(lines),
         NEW now, now = NestOf(lines \cup {cursor.start}),
         Consistent(stepped.tokens) => Announced(stepped.tokens, lines, before, now) /\ OnStack(stepped.indents) = now
  PROVE  LineInv(stepped)
<1> DEFINE q == cursor.start
           all == lines \cup {q}
<1>1. /\ text \in Seq(Char) /\ q \in Places /\ q \in Nat /\ stepped.start \in Nat
      /\ stepped.tokens \in Seq(TokenRecord) /\ EndToEnd(stepped.tokens, stepped.start)
  BY CursorIs DEF IInv
<1>2. /\ lines \subseteq Places /\ lines = Lines(text, cursor.tokens) \ {q}
      /\ \A p \in lines : p < q
      /\ Past(lines, q)
  BY EnteredIs
<1>3. Entered(stepped) = all
  BY <1>2 DEF Entered
<1>4. LinesArePast(stepped)
  <2>1. \A p \in all : Margin(p) \in Nat
    BY <1>1, <1>2, PlaceIs
  <2>2. q <= stepped.start
    <3>1. Margin(q) \in q..Len(text) + 1
      BY <1>1, PlaceIs
    <3> QED
      BY <1>1, <3>1
  <2>3. \A p \in lines : Margin(p) <= stepped.start
    BY <1>1, <2>1, <2>2, <1>2 DEF Past
  <2>4. Margin(q) <= stepped.start
    BY <1>1
  <2> QED
    BY <1>3, <2>3, <2>4 DEF LinesArePast
<1>5. ASSUME Consistent(stepped.tokens) PROVE Judged(stepped.tokens, all) /\ AtRest(stepped)
  <2>1. Announced(stepped.tokens, lines, before, now) /\ OnStack(stepped.indents) = now
    BY <1>5
  <2>2. Judged(stepped.tokens, all) /\ Settled(stepped.tokens, all)
    BY <1>1, <1>2, <2>1, Entering
  <2> QED
    BY <1>3, <2>1, <2>2 DEF AtRest
<1>6. StackIsNest(stepped) <=> AtRest(stepped)
  BY <1>4, StackIs
<1> QED
  BY <1>3, <1>4, <1>5, <1>6 DEF LineInv

-----------------------------------------------------------------------------
\* Where the next line begins, and which lines a token leaves.
LEMMA LinesKept ==
  ASSUME NEW cursor, NEW stepped, IInv(cursor), IInv(stepped),
         NEW t \in TokenRecord, stepped.tokens = Append(cursor.tokens, t)
  PROVE  /\ t.kind # "Newline" => /\ Begins(stepped.tokens) = Begins(cursor.tokens)
                                  /\ Lines(text, stepped.tokens) = Lines(text, cursor.tokens)
         /\ t.kind = "Newline" => /\ stepped.start \in Begins(stepped.tokens)
                                  /\ Lines(text, stepped.tokens) \ {stepped.start}
                                       = Lines(text, cursor.tokens) \ {stepped.start}
<1> DEFINE tokens == cursor.tokens
           next == stepped.start
<1>1. /\ tokens \in Seq(TokenRecord) /\ cursor.start \in Nat /\ next \in Nat
      /\ stepped.tokens \in Seq(TokenRecord)
      /\ EndToEnd(tokens, cursor.start) /\ EndToEnd(Append(tokens, t), next)
  BY CursorIs DEF IInv
<1>2. /\ t.kind = "Newline" => Begins(stepped.tokens) = Begins(tokens) \cup {next}
      /\ t.kind # "Newline" => Begins(stepped.tokens) = Begins(tokens)
  <2> HIDE DEF tokens, next
  <2>1. /\ t.kind = "Newline" => Begins(Append(tokens, t)) = Begins(tokens) \cup {next}
        /\ t.kind # "Newline" => Begins(Append(tokens, t)) = Begins(tokens)
    BY <1>1, LinesOfMore
  <2> QED
    BY <2>1 DEF tokens
<1>3. /\ \A p : p \in Lines(text, tokens) <=> p \in Begins(tokens) /\ HasCode(p)
      /\ \A p : p \in Lines(text, stepped.tokens) <=> p \in Begins(stepped.tokens) /\ HasCode(p)
  <2>1. EndToEnd(stepped.tokens, next)
    BY <1>1
  <2> HIDE DEF tokens, next
  <2> QED
    BY <1>1, <2>1, LinesAre
<1> QED
  BY <1>2, <1>3

\* The tokens of a line leave the lines as they are.
LEMMA ScanLines ==
  ASSUME NEW cursor, NEW stepped, IInv(cursor), LineInv(cursor), cursor.state = "AfterLeadingSpaces",
         cursor.pos <= Len(text), stepped = Scan(text, cursor)
  PROVE  LineInv(stepped)
<1>1. IInv(stepped) /\ \E t : Scanned(cursor, stepped, t)
  BY ScanStep
<1>2. PICK t : Scanned(cursor, stepped, t)
  BY <1>1
<1>3. /\ t \in TokenRecord /\ t.kind # "Indent" /\ t.kind # "Dedent"
      /\ stepped.tokens = Append(cursor.tokens, t) /\ stepped.start > cursor.start
      /\ stepped.indents = cursor.indents
      /\ stepped.state = IF t.kind = "Newline" THEN "BeforeLeadingSpaces" ELSE "AfterLeadingSpaces"
  BY <1>2 DEF Scanned
<1>4. /\ cursor.start = cursor.pos /\ cursor.start \in Nat /\ stepped.start \in Nat /\ Len(text) \in Nat
      /\ cursor.tokens \in Seq(TokenRecord) /\ EndToEnd(cursor.tokens, cursor.start)
  BY <1>1, CursorIs DEF IInv
<1>5. ~AtEnd(cursor)
  BY <1>4 DEF AtEnd
<1>6. stepped.start \notin Lines(text, cursor.tokens)
  BY <1>3, <1>4, LinesAre
<1>7. Entered(stepped) = Entered(cursor)
  <2>1. Entered(cursor) = Lines(text, cursor.tokens)
    BY DEF Entered
  <2>2. CASE t.kind = "Newline"
    <3>1. Lines(text, stepped.tokens) \ {stepped.start} = Lines(text, cursor.tokens) \ {stepped.start}
      BY <1>1, <1>3, <2>2, LinesKept
    <3>2. Entered(stepped) = Lines(text, stepped.tokens) \ {stepped.start}
      BY <1>3, <2>2 DEF Entered
    <3> QED
      BY <1>6, <2>1, <3>1, <3>2
  <2>3. CASE t.kind # "Newline"
    <3>1. Lines(text, stepped.tokens) = Lines(text, cursor.tokens)
      BY <1>1, <1>3, <2>3, LinesKept
    <3>2. Entered(stepped) = Lines(text, stepped.tokens)
      BY <1>3, <2>3 DEF Entered
    <3> QED
      BY <2>1, <3>1, <3>2
  <2> QED
    BY <2>2, <2>3
<1>8. stepped.state = "BeforeLeadingSpaces" => stepped.start \in Begins(stepped.tokens)
  BY <1>1, <1>3, LinesKept
<1>9. stepped.state # "Dedenting" /\ cursor.state # "Dedenting"
  BY <1>3
<1> QED
  BY <1>1, <1>3, <1>5, <1>7, <1>8, <1>9, Quiet

\* At the end of the text, DEDENTs come after all lines.
LEMMA DedentAtEofLines ==
  ASSUME NEW cursor, NEW stepped, IInv(cursor), LineInv(cursor), cursor.state = "AfterLeadingSpaces",
         cursor.pos > Len(text), ~Finished(text, cursor), stepped = DedentAtEof(cursor)
  PROVE  LineInv(stepped)
<1> DEFINE t == Token("Dedent", 0, TRUE)
           lines == Entered(cursor)
<1>1. IInv(stepped)
  BY DedentAtEofStep
<1>2. /\ text \in Seq(Char) /\ cursor \in CursorRecord /\ cursor.start = cursor.pos /\ cursor.start \in Nat
      /\ cursor.tokens \in Seq(TokenRecord) /\ EndToEnd(cursor.tokens, cursor.start)
  BY CursorIs DEF IInv
<1>3. t \in TokenRecord /\ t.kind = "Dedent"
  BY DEF Token, TokenRecord, Kind
<1>4. /\ stepped.tokens = Append(cursor.tokens, t) /\ stepped.start = cursor.start
      /\ stepped.state = cursor.state
  <2> HIDE DEF t
  <2>1. stepped = [cursor EXCEPT !.indents = SubSeq(cursor.indents, 1, Len(cursor.indents) - 1),
                                 !.tokens = Append(cursor.tokens, t)]
    BY DEF DedentAtEof, t
  <2> QED
    BY <1>2, <2>1 DEF CursorRecord
<1> HIDE DEF t
<1>5. EndToEnd(stepped.tokens, stepped.start)
  BY <1>1 DEF IInv
<1>6. LinesArePast(cursor) /\ AtEnd(cursor) /\ AtEnd(stepped)
  BY <1>2, <1>4 DEF LineInv, AtEnd
<1>7. Entered(stepped) = lines
  <2>1. Lines(text, stepped.tokens) = Lines(text, cursor.tokens)
    BY <1>1, <1>3, <1>4, LinesKept
  <2> QED
    BY <1>4, <2>1 DEF Entered
<1>8. LinesArePast(stepped)
  <2> HIDE DEF lines
  <2> QED
    BY <1>4, <1>6, <1>7 DEF LinesArePast, lines
<1>9. Past(lines, cursor.start)
  BY <1>6, EnteredIs
<1>10. ASSUME Consistent(stepped.tokens) PROVE Judged(stepped.tokens, lines)
  <2>1. Consistent(cursor.tokens)
    BY <1>2, <1>3, <1>4, <1>10, ConsistentOfMore
  <2>2. Judged(cursor.tokens, lines)
    BY <2>1 DEF LineInv
  <2> HIDE DEF lines
  <2> QED
    BY <1>2, <1>3, <1>4, <1>5, <1>9, <2>2, JudgedOfMore
<1> QED
  BY <1>6, <1>7, <1>8, <1>10 DEF LineInv

-----------------------------------------------------------------------------
\* The cursor where a line's white space ends, with its tokens and its stack.
Takes(stepped, tokens, indents, pos) ==
  /\ stepped.state = "AfterLeadingSpaces" /\ stepped.start = pos
  /\ stepped.tokens = tokens /\ stepped.indents = indents

LEMMA IndentationIs ==
  ASSUME NEW cursor, IInv(cursor), cursor.state = "BeforeLeadingSpaces", NEW top \in Nat, top = Top(cursor.indents),
         NEW width \in Nat, NEW pos \in Places, NEW start \in Nat, start = cursor.start, pos >= start,
         NEW stepped, stepped = Indentation(cursor, width, pos)
  PROVE  /\ width = top /\ pos = start => Takes(stepped, cursor.tokens, cursor.indents, pos)
         /\ width = top /\ pos # start =>
              \E t \in TokenRecord : /\ t.kind = "Whitespace"
                                     /\ Takes(stepped, Append(cursor.tokens, t), cursor.indents, pos)
         /\ width > top =>
              \E t \in TokenRecord : /\ t.kind = "Indent"
                                     /\ Takes(stepped, Append(cursor.tokens, t), Append(cursor.indents, width), pos)
         /\ width < top => stepped = StartDedenting(cursor, width, pos)
<1> DEFINE after == [cursor EXCEPT !.state = "AfterLeadingSpaces"]
           opened == [after EXCEPT !.indents = Append(cursor.indents, width)]
<1>1. /\ cursor \in CursorRecord /\ cursor.start = start /\ pos - start \in Nat
      /\ cursor.indents \in Seq(Nat) /\ Append(cursor.indents, width) \in Seq(Nat)
  BY CursorIs DEF Places
<1>2. /\ after \in CursorRecord /\ after.tokens = cursor.tokens /\ after.start = start
      /\ after.indents = cursor.indents /\ after.state = "AfterLeadingSpaces"
  BY <1>1 DEF CursorRecord
<1>3. /\ opened \in CursorRecord /\ opened.tokens = cursor.tokens /\ opened.start = start
      /\ opened.indents = Append(cursor.indents, width) /\ opened.state = "AfterLeadingSpaces"
  <2> HIDE DEF after
  <2> QED
    BY <1>1, <1>2 DEF CursorRecord
<1>4. /\ width = top /\ pos = start => stepped = after
      /\ width = top /\ pos # start => stepped = Emit(after, "Whitespace", pos)
      /\ width > top => stepped = Emit(opened, "Indent", pos)
      /\ width < top => stepped = StartDedenting(cursor, width, pos)
  BY <1>1 DEF Indentation
<1> HIDE DEF after, opened
<1>5. ASSUME NEW cu \in CursorRecord, cu.tokens = cursor.tokens, cu.start = start,
             cu.state = "AfterLeadingSpaces", NEW kind \in Kind
      PROVE  \E t \in TokenRecord : t.kind = kind /\ Takes(Emit(cu, kind, pos), Append(cursor.tokens, t), cu.indents, pos)
  <2> DEFINE t == Token(kind, pos - start, TRUE)
  <2>1. t \in TokenRecord /\ t.kind = kind
    BY <1>1 DEF Token, TokenRecord
  <2>2. Emit(cu, kind, pos) = [cu EXCEPT !.tokens = Append(cu.tokens, t), !.pos = pos, !.start = pos]
    BY <1>5 DEF Emit
  <2> HIDE DEF t
  <2>3. Takes(Emit(cu, kind, pos), Append(cursor.tokens, t), cu.indents, pos)
    BY <1>5, <2>2 DEF Takes, CursorRecord
  <2> QED
    BY <2>1, <2>3
<1>6. "Whitespace" \in Kind /\ "Indent" \in Kind
  BY DEF Kind
<1>7. width = top /\ pos = start => Takes(stepped, cursor.tokens, cursor.indents, pos)
  BY <1>2, <1>4 DEF Takes
<1>8. width = top /\ pos # start =>
        \E t \in TokenRecord : /\ t.kind = "Whitespace"
                               /\ Takes(stepped, Append(cursor.tokens, t), cursor.indents, pos)
  <2>1. \E t \in TokenRecord :
          t.kind = "Whitespace" /\ Takes(Emit(after, "Whitespace", pos), Append(cursor.tokens, t), after.indents, pos)
    BY <1>2, <1>5, <1>6
  <2> QED
    BY <1>2, <1>4, <2>1
<1>9. width > top =>
        \E t \in TokenRecord : /\ t.kind = "Indent"
                               /\ Takes(stepped, Append(cursor.tokens, t), Append(cursor.indents, width), pos)
  <2>1. \E t \in TokenRecord :
          t.kind = "Indent" /\ Takes(Emit(opened, "Indent", pos), Append(cursor.tokens, t), opened.indents, pos)
    BY <1>3, <1>5, <1>6
  <2> QED
    BY <1>3, <1>4, <2>1
<1> QED
  BY <1>4, <1>7, <1>8, <1>9

\* A token announces what it opens.
LEMMA Announcing ==
  ASSUME text \in Seq(Char), NEW tokens \in Seq(TokenRecord), NEW t \in TokenRecord,
         NEW end \in Nat, EndToEnd(tokens, end), NEW next \in Nat, EndToEnd(Append(tokens, t), next),
         NEW lines, Past(lines, next), Judged(tokens, lines), Settled(tokens, lines),
         NEW before, NEW now, before \ now = {}, t.kind # "Dedent",
         t.kind = "Indent" => \E w : now \ before = {w},
         t.kind # "Indent" => now \ before = {}
  PROVE  Announced(Append(tokens, t), lines, before, now)
<1>1. Judged(Append(tokens, t), lines)
  BY JudgedOfMore
<1>2. /\ Cardinality(before \ now) = 0
      /\ t.kind = "Indent" => Cardinality(now \ before) = 1
      /\ t.kind # "Indent" => Cardinality(now \ before) = 0
  <2>1. \A w : Cardinality({w}) = 1
    BY FS_Singleton
  <2> QED
    BY <2>1, FS_EmptySet
<1>3. ASSUME NEW p \in lines, IsLatest(lines, p)
      PROVE  /\ Since(Append(tokens, t), "Dedent", p) = 0
             /\ Since(Append(tokens, t), "Indent", p) = IF t.kind = "Indent" THEN 1 ELSE 0
  <2>1. Since(tokens, "Indent", p) = 0 /\ Since(tokens, "Dedent", p) = 0
    BY <1>3 DEF Settled
  <2> DEFINE none == 0
  <2>2. none \in Nat /\ Since(tokens, "Indent", p) = none /\ Since(tokens, "Dedent", p) = none
    BY <2>1
  <2> HIDE DEF none
  <2>3. /\ Since(Append(tokens, t), "Indent", p) = IF t.kind = "Indent" THEN none + 1 ELSE none
        /\ Since(Append(tokens, t), "Dedent", p) = IF t.kind = "Dedent" THEN none + 1 ELSE none
    BY <2>2, SinceOfMore
  <2> QED
    BY <2>3 DEF none
<1> QED
  BY <1>1, <1>2, <1>3 DEF Announced

\* A line of white space only is not one that counts.
LEMMA BlankLines ==
  ASSUME NEW cursor, NEW stepped, IInv(cursor), IInv(stepped), LineInv(cursor),
         cursor.state = "BeforeLeadingSpaces", ~HasCode(cursor.start), NEW pos \in Nat, pos >= cursor.start,
         \/ pos = cursor.start /\ Takes(stepped, cursor.tokens, cursor.indents, pos)
         \/ pos # cursor.start /\ \E t \in TokenRecord :
              t.kind = "Whitespace" /\ Takes(stepped, Append(cursor.tokens, t), cursor.indents, pos)
  PROVE  LineInv(stepped)
<1> DEFINE lines == Entered(cursor)
<1>1. /\ cursor.start \in Nat /\ cursor.tokens \in Seq(TokenRecord) /\ LinesArePast(cursor)
      /\ EndToEnd(cursor.tokens, cursor.start)
  BY CursorIs DEF IInv, LineInv
<1>2. cursor.start \notin Lines(text, cursor.tokens)
  BY <1>1, LinesAre
<1>3. lines = Lines(text, cursor.tokens)
  BY <1>2 DEF Entered
<1>4. ~AtEnd(cursor)
  BY DEF AtEnd
<1>5. CASE Takes(stepped, cursor.tokens, cursor.indents, pos) /\ pos = cursor.start
  <2>1. /\ stepped.state = "AfterLeadingSpaces" /\ stepped.start = cursor.start
        /\ stepped.tokens = cursor.tokens /\ stepped.indents = cursor.indents
    BY <1>5 DEF Takes
  <2>2. Entered(stepped) = lines
    BY <1>3, <2>1 DEF Entered
  <2>3. LinesArePast(stepped)
    <3> HIDE DEF lines
    <3> QED
      BY <1>1, <2>1, <2>2 DEF LinesArePast, lines
  <2>4. StackIsNest(stepped) <=> StackIsNest(cursor)
    <3>1. AtRest(stepped) <=> AtRest(cursor)
      BY <2>1, <2>2 DEF AtRest
    <3>2. (StackIsNest(stepped) <=> AtRest(stepped)) /\ (StackIsNest(cursor) <=> AtRest(cursor))
      BY <1>1, <2>1, <2>3, StackIs
    <3> QED
      BY <3>1, <3>2
  <2> QED
    BY <1>4, <2>1, <2>2, <2>3, <2>4 DEF LineInv
<1>6. CASE pos # cursor.start
  <2>1. PICK t \in TokenRecord :
          t.kind = "Whitespace" /\ Takes(stepped, Append(cursor.tokens, t), cursor.indents, pos)
    BY <1>6
  <2>2. /\ stepped.state = "AfterLeadingSpaces" /\ stepped.start > cursor.start
        /\ stepped.tokens = Append(cursor.tokens, t) /\ stepped.indents = cursor.indents
    BY <1>1, <1>6, <2>1 DEF Takes
  <2>3. Entered(stepped) = lines
    <3>1. Lines(text, stepped.tokens) = Lines(text, cursor.tokens)
      BY <2>1, <2>2, LinesKept
    <3> QED
      BY <1>3, <2>2, <3>1 DEF Entered
  <2> QED
    BY <1>4, <2>1, <2>2, <2>3, Quiet
<1> QED
  BY <1>5, <1>6

\* A line that is less deep than the last pops the levels it is not in.
LEMMA DedentingLines ==
  ASSUME NEW cursor, NEW stepped, IInv(cursor), IInv(stepped), LineInv(cursor),
         cursor.state = "BeforeLeadingSpaces", cursor.start \in Lines(text, cursor.tokens),
         NEW w \in Nat, w = Column(cursor.start), Top(cursor.indents) > w,
         stepped = StartDedenting(cursor, w, Margin(cursor.start))
  PROVE  LineInv(stepped)
<1> DEFINE lines == Entered(cursor)
           before == NestOf(lines)
           indents == cursor.indents
           pos == Margin(cursor.start)
<1>1. /\ text \in Seq(Char) /\ cursor \in CursorRecord /\ indents \in Seq(Nat) /\ Deepen(indents)
      /\ cursor.tokens \in Seq(TokenRecord) /\ EndToEnd(cursor.tokens, cursor.start) /\ cursor.start \in Nat
      /\ cursor.start \in Places /\ LinesArePast(cursor) /\ Len(indents) \in Nat
  BY CursorIs DEF IInv, LineInv
<1>2. pos \in Nat
  BY <1>1, PlaceIs
<1>3. PICK left \in Nat :
        /\ left < Len(indents) /\ Pops(indents, w, left)
        /\ StartDedenting(cursor, w, pos) = Dedented(cursor, w, pos, left)
  <2> HIDE DEF pos
  <2> QED
    BY <1>1, <1>2, DedentingIs
<1> DEFINE kept == SubSeq(indents, 1, left)
           more == Len(indents) - left
<1>4. /\ stepped.state = "Dedenting" /\ stepped.pos = pos /\ stepped.start = cursor.start
      /\ stepped.tokens = cursor.tokens /\ stepped.indents = kept /\ stepped.remaining = more
      /\ stepped.consistent = (Top(kept) = w)
  <2> DEFINE fits == Top(kept) = w
  <2>1. stepped = [cursor EXCEPT !.indents = kept, !.pos = pos, !.state = "Dedenting",
                                 !.remaining = more, !.consistent = fits]
    BY <1>3 DEF Dedented
  <2> HIDE DEF kept, more, fits, pos, indents
  <2>2. /\ stepped.state = "Dedenting" /\ stepped.pos = pos /\ stepped.start = cursor.start
        /\ stepped.tokens = cursor.tokens /\ stepped.indents = kept /\ stepped.remaining = more
        /\ stepped.consistent = fits
    BY <1>1, <2>1 DEF CursorRecord
  <2> QED
    BY <2>2 DEF fits
<1>5. OnStack(kept) = Within(OnStack(indents), w) /\ Cardinality(Beyond(OnStack(indents), w)) = more
  <2> HIDE DEF indents
  <2> QED
    BY <1>1, <1>3, Popping
<1> HIDE DEF kept
<1>6. Entered(stepped) = lines
  BY <1>4 DEF Entered
<1>7. /\ lines \subseteq Places /\ before \subseteq Nat
  <2>1. lines \subseteq Places
    BY <1>1, EnteredIs
  <2> HIDE DEF lines
  <2> QED
    BY <1>1, <2>1, NestIs
<1>8. LinesArePast(stepped)
  <2> HIDE DEF lines
  <2> QED
    BY <1>1, <1>4, <1>6 DEF LinesArePast, lines
<1>9. ASSUME Consistent(cursor.tokens) PROVE Judged(stepped.tokens, lines) /\ StackIsNest(stepped)
  <2>1. Judged(cursor.tokens, lines) /\ OnStack(indents) = before /\ Settled(cursor.tokens, lines)
    <3>1. Judged(cursor.tokens, lines) /\ StackIsNest(cursor)
      BY <1>9 DEF LineInv, AtEnd
    <3>2. AtRest(cursor)
      BY <1>1, <3>1, StackIs
    <3> QED
      BY <3>1, <3>2 DEF AtRest
  <2> HIDE DEF lines, before, indents, more
  <2>2. Popped(stepped) = Beyond(before, w)
    BY <1>4, <1>6 DEF Popped, before
  <2>3. OnStack(stepped.indents) = before \ Popped(stepped)
    <3>1. before \ Beyond(before, w) = Within(before, w)
      <4>1. \A c \in before : c \in Nat /\ w \in Nat /\ (c > w <=> ~(c <= w))
        BY <1>7
      <4> QED
        BY <4>1 DEF Within, Beyond
    <3> QED
      BY <1>4, <1>5, <2>1, <2>2, <3>1
  <2>4. ASSUME NEW p \in lines, IsLatest(lines, p)
        PROVE  /\ Since(stepped.tokens, "Indent", p) = 0
               /\ Since(stepped.tokens, "Dedent", p) + stepped.remaining = Cardinality(Popped(stepped))
    <3>1. Since(cursor.tokens, "Indent", p) = 0 /\ Since(cursor.tokens, "Dedent", p) = 0
      BY <2>1, <2>4 DEF Settled
    <3>2. 0 + more = more
      BY <1>1 DEF more
    <3> QED
      BY <1>4, <1>5, <2>1, <2>2, <3>1, <3>2
  <2>5. stepped.consistent => Top(stepped.indents) = Column(stepped.start)
    BY <1>4
  <2>6. StackIsNest(stepped)
    BY <1>6, <2>3, <2>4, <2>5 DEF StackIsNest, before
  <2> QED
    BY <1>4, <2>1, <2>6
<1> QED
  BY <1>4, <1>6, <1>8, <1>9 DEF LineInv

\* The white space a line begins with.
LEMMA LeadingSpacesLines ==
  ASSUME NEW cursor, NEW stepped, IInv(cursor), LineInv(cursor), cursor.state = "BeforeLeadingSpaces",
         stepped = LeadingSpaces(text, cursor)
  PROVE  LineInv(stepped)
<1> DEFINE q == cursor.start
           pos == Margin(q)
           indents == cursor.indents
           top == Top(indents)
           w == Column(q)
           width == IF HasCode(q) THEN w ELSE top
           lines == Entered(cursor)
           before == NestOf(lines)
           now == NestOf(lines \cup {q})
<1>1. /\ text \in Seq(Char) /\ q \in Places /\ q \in Nat /\ cursor.pos = q /\ LinesArePast(cursor)
      /\ cursor.tokens \in Seq(TokenRecord) /\ EndToEnd(cursor.tokens, q)
      /\ indents \in Seq(Nat) /\ Deepen(indents)
  BY CursorIs DEF IInv, LineInv
<1>2. IInv(stepped)
  BY LeadingSpacesStep
<1>3. /\ pos \in Places /\ pos \in Nat /\ pos >= q /\ w \in Nat
  <2> HIDE DEF q
  <2>1. pos \in q..Len(text) + 1
    BY <1>1, PlaceIs
  <2> QED
    BY <1>1, <2>1, PlaceIs
<1>4. top \in Nat
  BY <1>1, TopIs
<1>5. stepped = Indentation(cursor, width, pos)
  <2>1. w = Width(SubSeq(text, cursor.pos, pos - 1))
    BY <1>1 DEF Column, Columns, Width, Margin
  <2>2. pos = Skip(text, cursor.pos, Blank)
    BY <1>1 DEF Margin
  <2> HIDE DEF w, pos
  <2>3. HasCode(q) <=> At(text, pos) \notin {"nl", "eof"}
    BY DEF HasCode, pos
  <2> QED
    BY <2>1, <2>2, <2>3 DEF LeadingSpaces
<1>6. width \in Nat
  <2> HIDE DEF w, top, q
  <2> QED
    BY <1>3, <1>4
<1> HIDE DEF width
<1>7. /\ width = top /\ pos = q => Takes(stepped, cursor.tokens, indents, pos)
      /\ width = top /\ pos # q =>
           \E t \in TokenRecord : t.kind = "Whitespace" /\ Takes(stepped, Append(cursor.tokens, t), indents, pos)
      /\ width > top =>
           \E t \in TokenRecord : /\ t.kind = "Indent"
                                  /\ Takes(stepped, Append(cursor.tokens, t), Append(indents, width), pos)
      /\ width < top => stepped = StartDedenting(cursor, width, pos)
  <2> DEFINE start == cursor.start
  <2>1. start \in Nat /\ start = cursor.start /\ pos >= start
    BY <1>1, <1>3
  <2> HIDE DEF pos, start
  <2>2. /\ width = top /\ pos = start => Takes(stepped, cursor.tokens, cursor.indents, pos)
        /\ width = top /\ pos # start =>
              \E t \in TokenRecord : t.kind = "Whitespace" /\ Takes(stepped, Append(cursor.tokens, t), cursor.indents, pos)
        /\ width > top =>
              \E t \in TokenRecord : /\ t.kind = "Indent"
                                     /\ Takes(stepped, Append(cursor.tokens, t), Append(cursor.indents, width), pos)
        /\ width < top => stepped = StartDedenting(cursor, width, pos)
    <3> HIDE DEF top
    <3>1. top = Top(cursor.indents)
      BY DEF top
    <3> QED
      BY <1>3, <1>4, <1>5, <1>6, <2>1, <3>1, IndentationIs
  <2> QED
    BY <2>1, <2>2
<1>8. CASE ~HasCode(q)
  <2>1. width = top
    BY <1>8 DEF width
  <2> HIDE DEF pos, top
  <2>2. \/ pos = q /\ Takes(stepped, cursor.tokens, indents, pos)
        \/ pos # q /\ \E t \in TokenRecord :
             t.kind = "Whitespace" /\ Takes(stepped, Append(cursor.tokens, t), indents, pos)
    BY <1>7, <2>1
  <2> QED
    BY <1>2, <1>3, <1>8, <2>2, BlankLines
<1>9. CASE HasCode(q)
  <2>1. width = w
    BY <1>9 DEF width
  <2>2. q \in Lines(text, cursor.tokens)
    <3>1. q \in Begins(cursor.tokens)
      BY DEF LineInv, LinesArePast
    <3> HIDE DEF q
    <3> QED
      BY <1>1, <1>9, <3>1, LinesAre
  <2>3. CASE w < top
    <3>1. stepped = StartDedenting(cursor, w, pos) /\ Top(cursor.indents) > w
      BY <1>3, <1>4, <1>7, <2>1, <2>3
    <3> QED
      BY <1>2, <1>3, <2>2, <3>1, DedentingLines
  <2>4. CASE ~(w < top)
    <3>1. /\ lines \subseteq Places /\ Past(lines, q) /\ \A p \in lines : p < q
          /\ lines = Lines(text, cursor.tokens) \ {q}
      BY <1>1, EnteredIs
    <3>2. Consistent(cursor.tokens) =>
            /\ Judged(cursor.tokens, lines) /\ OnStack(indents) = before /\ Settled(cursor.tokens, lines)
      <4>1. StackIsNest(cursor) <=> AtRest(cursor)
        BY <1>1, StackIs
      <4> QED
        BY <4>1 DEF LineInv, AtEnd, AtRest
    <3>3. now = Joined(before, w)
      <4> HIDE DEF lines, q
      <4> QED
        BY <1>1, <3>1, NestOfMore
    <3>4. Past(lines, pos)
      <4>1. \A p \in lines : Margin(p) \in Nat
        BY <1>1, <3>1, PlaceIs
      <4> HIDE DEF lines, pos
      <4> QED
        BY <1>1, <1>3, <3>1, <4>1 DEF Past
    <3>5. EndToEnd(stepped.tokens, stepped.start)
      BY <1>2 DEF IInv
    <3>6. OnStack(indents) = before =>
            /\ w = top => Continues(before, now)
            /\ w > top => Opens(before, now, w) /\ now = OnStack(Append(indents, w))
      <4> HIDE DEF before, now, w, indents, lines, top
      <4>1. top = Top(indents)
        BY DEF top
      <4> QED
        BY <1>1, <1>3, <1>4, <3>3, <4>1, NotPopping
    <3>7. CASE w = top /\ pos = q
      <4>1. Takes(stepped, cursor.tokens, indents, pos)
        <5> HIDE DEF w, top, pos, q, indents
        <5> QED
          BY <1>7, <2>1, <3>7
      <4>2. /\ stepped.state = "AfterLeadingSpaces" /\ stepped.start = pos
            /\ stepped.tokens = cursor.tokens /\ stepped.indents = indents
        BY <4>1 DEF Takes
      <4>3. ASSUME Consistent(stepped.tokens)
            PROVE  Announced(stepped.tokens, lines, before, now) /\ OnStack(stepped.indents) = now
        <5>1. /\ Judged(cursor.tokens, lines) /\ Settled(cursor.tokens, lines)
              /\ before \ now = {} /\ now \ before = {} /\ OnStack(indents) = now
          <6> HIDE DEF lines, before, now, w, top, indents
          <6> QED
            BY <3>2, <3>6, <3>7, <4>2, <4>3 DEF Continues
        <5>2. Cardinality(before \ now) = 0 /\ Cardinality(now \ before) = 0
          BY <5>1, FS_EmptySet
        <5> HIDE DEF lines, before, now, indents
        <5> QED
          BY <4>2, <5>1, <5>2 DEF Announced, Settled
      <4> QED
        BY <1>2, <1>1, <2>2, <4>2, <4>3, Enters
    <3>8. CASE ~(w = top /\ pos = q)
      <4>1. PICK t \in TokenRecord :
              /\ stepped.state = "AfterLeadingSpaces" /\ stepped.start = pos
              /\ stepped.tokens = Append(cursor.tokens, t) /\ t.kind # "Dedent" /\ t.kind # "Newline"
              /\ \/ w = top /\ t.kind # "Indent" /\ stepped.indents = indents
                 \/ w > top /\ t.kind = "Indent" /\ stepped.indents = Append(indents, w)
        <5> HIDE DEF w, top, pos, q, indents
        <5>1. CASE w = top
          BY <1>7, <2>1, <3>8, <5>1 DEF Takes
        <5>2. CASE w > top
          BY <1>7, <2>1, <5>2 DEF Takes
        <5> QED
          BY <1>3, <1>4, <2>4, <5>1, <5>2
      <4>2. ASSUME Consistent(stepped.tokens)
            PROVE  Announced(stepped.tokens, lines, before, now) /\ OnStack(stepped.indents) = now
        <5>1. Consistent(cursor.tokens)
          BY <1>1, <4>1, <4>2, ConsistentOfMore
        <5>2. Judged(cursor.tokens, lines) /\ OnStack(indents) = before /\ Settled(cursor.tokens, lines)
          BY <3>2, <5>1
        <5> HIDE DEF lines, before, now, w, top, pos, q, indents
        <5>3. /\ before \ now = {} /\ OnStack(stepped.indents) = now
              /\ t.kind = "Indent" => now \ before = {w}
              /\ t.kind # "Indent" => now \ before = {}
          BY <3>6, <4>1, <5>2 DEF Continues, Opens
        <5>4. EndToEnd(Append(cursor.tokens, t), pos)
          BY <3>5, <4>1
        <5>5. Announced(Append(cursor.tokens, t), lines, before, now)
          BY <1>1, <1>3, <3>4, <4>1, <5>2, <5>3, <5>4, Announcing
        <5> QED
          BY <4>1, <5>3, <5>5
      <4>3. Lines(text, stepped.tokens) = Lines(text, cursor.tokens)
        BY <1>2, <4>1, LinesKept
      <4> QED
        BY <1>2, <1>1, <2>2, <4>1, <4>2, <4>3, Enters
    <3> QED
      BY <3>7, <3>8
  <2> QED
    BY <2>3, <2>4
<1> QED
  BY <1>8, <1>9

\* With its last DEDENT a line is entered; those before leave fewer to come.
LEMMA DedentLines ==
  ASSUME NEW cursor, NEW stepped, IInv(cursor), LineInv(cursor), cursor.state = "Dedenting",
         stepped = Dedent(cursor)
  PROVE  LineInv(stepped)
<1> DEFINE q == cursor.start
           w == Column(q)
           indents == cursor.indents
           left == cursor.remaining
           lines == Entered(cursor)
           before == NestOf(lines)
           now == NestOf(lines \cup {q})
           t == IF left = 1 THEN Token("Dedent", cursor.pos - q, cursor.consistent) ELSE Token("Dedent", 0, TRUE)
<1>1. /\ text \in Seq(Char) /\ cursor \in CursorRecord /\ q \in Places /\ q \in Nat /\ LinesArePast(cursor)
      /\ cursor.tokens \in Seq(TokenRecord) /\ EndToEnd(cursor.tokens, q) /\ cursor.pos - q \in Nat
      /\ indents \in Seq(Nat) /\ Deepen(indents) /\ left \in Nat /\ left > 0 /\ cursor.consistent \in BOOLEAN
  BY CursorIs DEF IInv, LineInv
<1>2. IInv(stepped)
  BY DedentStep
<1>3. /\ q \in Lines(text, cursor.tokens) /\ cursor.pos = Margin(q)
      /\ w \in Nat
  <2>1. q \in Lines(text, cursor.tokens) /\ cursor.pos = Margin(q)
    BY <1>1 DEF LinesArePast
  <2> HIDE DEF q
  <2> QED
    BY <1>1, <2>1, PlaceIs
<1>4. t \in TokenRecord /\ t.kind = "Dedent" /\ (left = 1 => t.consistent = cursor.consistent)
  <2>1. "Dedent" \in Kind
    BY DEF Kind
  <2> QED
    BY <1>1, <2>1 DEF Token, TokenRecord
<1>5. /\ stepped.tokens = Append(cursor.tokens, t) /\ stepped.indents = indents
      /\ left = 1 => stepped.state = "AfterLeadingSpaces" /\ stepped.start = cursor.pos
      /\ left # 1 => /\ stepped.state = "Dedenting" /\ stepped.start = q /\ stepped.pos = cursor.pos
                     /\ stepped.remaining = left - 1 /\ stepped.consistent = cursor.consistent
  <2>1. CASE left = 1
    <3>1. stepped = [cursor EXCEPT !.tokens = Append(cursor.tokens, t), !.start = cursor.pos,
                                   !.remaining = 0, !.state = "AfterLeadingSpaces"]
      BY <2>1 DEF Dedent
    <3> HIDE DEF t
    <3> QED
      BY <1>1, <2>1, <3>1 DEF CursorRecord
  <2>2. CASE left # 1
    <3>1. stepped = [cursor EXCEPT !.tokens = Append(cursor.tokens, t), !.remaining = left - 1]
      BY <2>2 DEF Dedent
    <3> HIDE DEF t
    <3> QED
      BY <1>1, <2>2, <3>1 DEF CursorRecord
  <2> QED
    BY <2>1, <2>2
<1> HIDE DEF t
<1>6. /\ lines \subseteq Places /\ Past(lines, q) /\ \A p \in lines : p < q
      /\ lines = Lines(text, cursor.tokens) \ {q}
  BY <1>1, EnteredIs
<1>7. /\ EndToEnd(stepped.tokens, stepped.start) /\ stepped.start \in Nat
      /\ Lines(text, stepped.tokens) = Lines(text, cursor.tokens)
  <2>1. Lines(text, stepped.tokens) = Lines(text, cursor.tokens)
    BY <1>2, <1>4, <1>5, LinesKept
  <2> QED
    BY <1>2, <2>1, CursorIs DEF IInv
<1>8. Past(lines, stepped.start) /\ EndToEnd(Append(cursor.tokens, t), stepped.start)
  <2>1. CASE left = 1
    <3>1. Margin(q) >= q /\ Margin(q) \in Nat
      <4>1. Margin(q) \in q..Len(text) + 1
        BY <1>1, PlaceIs
      <4> QED
        BY <1>1, <4>1
    <3>2. \A p \in lines : Margin(p) \in Nat
      BY <1>1, <1>6, PlaceIs
    <3> HIDE DEF lines, q
    <3> QED
      BY <1>1, <1>3, <1>5, <1>6, <1>7, <2>1, <3>1, <3>2 DEF Past
  <2>2. CASE left # 1
    BY <1>5, <1>6, <1>7, <2>2
  <2> QED
    BY <2>1, <2>2
<1>9. before \subseteq Nat /\ now = Joined(before, w)
  <2> HIDE DEF lines, q
  <2> QED
    BY <1>1, <1>6, NestIs, NestOfMore
<1>10. ASSUME Consistent(stepped.tokens)
       PROVE  /\ Judged(stepped.tokens, lines) /\ OnStack(indents) = before \ Beyond(before, w)
              /\ t.consistent /\ (cursor.consistent => Top(indents) = w)
              /\ \A p \in lines : IsLatest(lines, p) => \E n \in Nat :
                   /\ Since(stepped.tokens, "Indent", p) = 0 /\ Since(stepped.tokens, "Dedent", p) = n + 1
                   /\ n + left = Cardinality(Beyond(before, w))
  <2>1. Consistent(cursor.tokens) /\ t.consistent
    BY <1>1, <1>4, <1>5, <1>10, ConsistentOfMore
  <2>2. Judged(cursor.tokens, lines) /\ StackIsNest(cursor)
    BY <2>1 DEF LineInv, AtEnd
  <2>3. Popped(cursor) = Beyond(before, w)
    BY DEF Popped
  <2>4. /\ OnStack(indents) = before \ Beyond(before, w)
        /\ cursor.consistent => Top(indents) = w
        /\ \A p \in lines : IsLatest(lines, p) =>
             /\ Since(cursor.tokens, "Indent", p) = 0
             /\ Since(cursor.tokens, "Dedent", p) + left = Cardinality(Beyond(before, w))
    <3> HIDE DEF w
    <3> QED
      BY <2>2, <2>3 DEF StackIsNest, w
  <2> HIDE DEF lines, before, w, indents, q, left
  <2>5. Judged(stepped.tokens, lines)
    BY <1>1, <1>4, <1>5, <1>7, <1>8, <2>2, JudgedOfMore
  <2>6. ASSUME NEW p \in lines, IsLatest(lines, p)
        PROVE  \E n \in Nat :
                 /\ Since(stepped.tokens, "Indent", p) = 0 /\ Since(stepped.tokens, "Dedent", p) = n + 1
                 /\ n + left = Cardinality(Beyond(before, w))
    <3> DEFINE n == Since(cursor.tokens, "Dedent", p)
               none == 0
    <3>1. n \in Nat /\ n = Since(cursor.tokens, "Dedent", p)
      BY <1>1, <1>6, SinceIs
    <3>2. none \in Nat /\ none = Since(cursor.tokens, "Indent", p) /\ n + left = Cardinality(Beyond(before, w))
      BY <2>4, <2>6
    <3> HIDE DEF n, none
    <3>3. Since(Append(cursor.tokens, t), "Dedent", p) = IF t.kind = "Dedent" THEN n + 1 ELSE n
      BY <1>1, <1>4, <1>7, <1>8, <3>1, SinceOfMore
    <3>4. Since(Append(cursor.tokens, t), "Indent", p) = IF t.kind = "Indent" THEN none + 1 ELSE none
      BY <1>1, <1>4, <1>7, <1>8, <3>2, SinceOfMore
    <3>5. Since(stepped.tokens, "Indent", p) = 0 /\ Since(stepped.tokens, "Dedent", p) = n + 1
      BY <1>4, <1>5, <3>3, <3>4 DEF none
    <3> QED
      BY <3>1, <3>2, <3>5
  <2> QED
    BY <2>1, <2>4, <2>5, <2>6
<1>11. CASE left = 1
  <2>1. ASSUME Consistent(stepped.tokens)
        PROVE  Announced(stepped.tokens, lines, before, now) /\ OnStack(stepped.indents) = now
    <3>1. /\ OnStack(indents) = before \ Beyond(before, w) /\ Top(indents) = w
      BY <1>4, <1>10, <1>11, <2>1
    <3>2. w = 0 \/ w \in OnStack(indents)
      BY <1>1, <3>1, TopIs
    <3>3. \A c \in before : c \in Nat /\ w \in Nat /\ (c > w <=> ~(c <= w))
      BY <1>3, <1>9
    <3> HIDE DEF before, now, w, lines, indents, q, left
    <3>4. \A c \in before : c \in Within(before, w) <=> c \notin Beyond(before, w)
      BY <3>3 DEF Within, Beyond
    <3>5. Within(before, w) \subseteq before /\ Beyond(before, w) \subseteq before /\ w \notin Beyond(before, w)
      BY <1>3 DEF Within, Beyond
    <3>6. OnStack(indents) = now
      BY <1>9, <3>1, <3>2, <3>4, <3>5 DEF Joined
    <3>7. before \ now = Beyond(before, w) /\ now \ before = {}
      BY <3>1, <3>4, <3>5, <3>6
    <3>8. ASSUME NEW p \in lines, IsLatest(lines, p)
          PROVE  /\ Since(stepped.tokens, "Dedent", p) = Cardinality(before \ now)
                 /\ Since(stepped.tokens, "Indent", p) = Cardinality(now \ before)
      <4>1. PICK n \in Nat :
              /\ Since(stepped.tokens, "Indent", p) = 0 /\ Since(stepped.tokens, "Dedent", p) = n + 1
              /\ n + left = Cardinality(Beyond(before, w))
        BY <1>10, <2>1, <3>8
      <4> QED
        BY <1>11, <3>7, <4>1, FS_EmptySet
    <3> QED
      BY <1>5, <1>10, <2>1, <3>6, <3>8 DEF Announced
  <2>2. stepped.state = "AfterLeadingSpaces" /\ stepped.start = Margin(q)
    BY <1>3, <1>5, <1>11
  <2> QED
    BY <1>1, <1>2, <1>3, <1>7, <2>1, <2>2, Enters
<1>12. CASE left # 1
  <2>1. Entered(stepped) = lines
    BY <1>5, <1>7, <1>12 DEF Entered
  <2>2. LinesArePast(stepped)
    <3> HIDE DEF lines
    <3> QED
      BY <1>1, <1>3, <1>5, <1>7, <1>12, <2>1 DEF LinesArePast, lines
  <2>3. ASSUME Consistent(stepped.tokens) PROVE StackIsNest(stepped)
    <3>1. Popped(stepped) = Beyond(before, w)
      BY <1>5, <1>12, <2>1 DEF Popped
    <3>2. \A p \in lines : IsLatest(lines, p) =>
            /\ Since(stepped.tokens, "Indent", p) = 0
            /\ Since(stepped.tokens, "Dedent", p) + stepped.remaining = Cardinality(Popped(stepped))
      <4> SUFFICES ASSUME NEW p \in lines, IsLatest(lines, p)
                   PROVE  /\ Since(stepped.tokens, "Indent", p) = 0
                          /\ Since(stepped.tokens, "Dedent", p) + stepped.remaining = Cardinality(Popped(stepped))
        OBVIOUS
      <4>1. PICK n \in Nat :
              /\ Since(stepped.tokens, "Indent", p) = 0 /\ Since(stepped.tokens, "Dedent", p) = n + 1
              /\ n + left = Cardinality(Beyond(before, w))
        BY <1>10, <2>3
      <4>2. stepped.remaining = left - 1
        BY <1>5, <1>12
      <4>3. (n + 1) + (left - 1) = n + left
        <5>1. left \in Nat
          BY <1>1
        <5> HIDE DEF left
        <5> QED
          BY <5>1
      <4> QED
        BY <3>1, <4>1, <4>2, <4>3
    <3>3. OnStack(stepped.indents) = before \ Popped(stepped)
      BY <1>5, <1>10, <2>3, <3>1
    <3>4. stepped.consistent => Top(stepped.indents) = Column(stepped.start)
      BY <1>5, <1>10, <1>12, <2>3
    <3> HIDE DEF lines
    <3> QED
      BY <2>1, <3>2, <3>3, <3>4 DEF StackIsNest
  <2> QED
    BY <1>10, <2>1, <2>2, <2>3 DEF LineInv
<1> QED
  BY <1>11, <1>12

\* What is invariant of the lines survives every token.
LEMMA LinesPreserved ==
  ASSUME NEW cursor, IInv(cursor), LineInv(cursor), ~Finished(text, cursor)
  PROVE  LineInv(AdvanceToken(text, cursor))
<1> DEFINE stepped == AdvanceToken(text, cursor)
<1>1. CASE cursor.state = "BeforeLeadingSpaces"
  BY <1>1, LeadingSpacesLines DEF AdvanceToken
<1>2. CASE cursor.state = "Dedenting"
  BY <1>2, DedentLines DEF AdvanceToken
<1>3. CASE cursor.state = "AfterLeadingSpaces"
  <2>1. Len(text) \in Nat /\ cursor.pos \in Nat
    BY CursorIs
  <2>2. CASE cursor.pos > Len(text)
    <3>1. stepped = DedentAtEof(cursor)
      BY <1>3, <2>2 DEF AdvanceToken
    <3> HIDE DEF stepped
    <3>2. LineInv(stepped)
      BY <1>3, <2>2, <3>1, DedentAtEofLines
    <3> QED
      BY <3>2 DEF stepped
  <2>3. CASE ~(cursor.pos > Len(text))
    <3>1. stepped = Scan(text, cursor) /\ cursor.pos <= Len(text)
      BY <1>3, <2>1, <2>3 DEF AdvanceToken
    <3> HIDE DEF stepped
    <3>2. LineInv(stepped)
      BY <1>3, <3>1, ScanLines
    <3> QED
      BY <3>2 DEF stepped
  <2> QED
    BY <2>2, <2>3
<1>4. cursor.state \in {"BeforeLeadingSpaces", "Dedenting", "AfterLeadingSpaces"}
  BY CursorIs DEF CursorRecord
<1> QED
  BY <1>1, <1>2, <1>3, <1>4

\* At first no line is entered, and nothing is on the stack.
LEMMA NoLines ==
  ASSUME text \in Seq(Char)
  PROVE  LineInv(Start)
<1>1. IInv(Start)
  BY Initially
<1>2. /\ Start.state = "BeforeLeadingSpaces" /\ Start.start = 1 /\ Start.tokens = <<>>
      /\ Start.indents = <<>> /\ Start.tokens \in Seq(TokenRecord)
  BY DEF Start
<1>3. Begins(Start.tokens) = {1}
  BY <1>2 DEF Begins
<1>4. Entered(Start) = {}
  <2>1. EndToEnd(Start.tokens, 1)
    BY <1>1, <1>2 DEF IInv
  <2>2. Lines(text, Start.tokens) \subseteq {1}
    BY <1>2, <1>3, <2>1, LinesAre
  <2> QED
    BY <1>2, <2>2 DEF Entered
<1>5. LinesArePast(Start)
  BY <1>2, <1>3, <1>4 DEF LinesArePast
<1>6. Judged(Start.tokens, {})
  BY DEF Judged
<1>7. AtRest(Start)
  <2>1. OnStack(<<>>) = {} /\ NestOf({}) = {}
    BY DEF OnStack, NestOf
  <2> QED
    BY <1>2, <1>4, <2>1 DEF AtRest, Settled
<1>8. StackIsNest(Start)
  BY <1>1, <1>2, <1>5, <1>7, StackIs
<1> QED
  BY <1>4, <1>5, <1>6, <1>8 DEF LineInv

-----------------------------------------------------------------------------
\* Nothing is left only where the iterator ends.
LEMMA NothingLeft ==
  ASSUME NEW cursor, IInv(cursor), Left(cursor) <= 0
  PROVE  Finished(text, cursor)
<1>1. /\ Len(cursor.indents) \in Nat /\ cursor.remaining \in Nat /\ cursor.start \in Nat
      /\ cursor.start <= Len(text) + 1 /\ Len(text) \in Nat /\ cursor.indents \in Seq(Nat)
      /\ cursor.state = "Dedenting" => cursor.remaining > 0
      /\ cursor.state # "Dedenting" => cursor.start = cursor.pos
  BY CursorIs DEF Places
<1>2. Counted(cursor) \in Nat
  <2> DEFINE rest == (Len(text) + 1) - cursor.start
  <2>1. rest \in Nat
    BY <1>1
  <2> DEFINE n == Len(cursor.indents)
             more == cursor.remaining
  <2>2. Counted(cursor) = 2 * rest + n + more
    BY DEF Counted
  <2>3. n \in Nat /\ more \in Nat
    BY <1>1
  <2> HIDE DEF rest, n, more
  <2> QED
    BY <2>1, <2>2, <2>3
<1>3. cursor.state # "BeforeLeadingSpaces" /\ Left(cursor) = Counted(cursor)
  BY <1>2 DEF Left
<1>6. cursor.start = Len(text) + 1 /\ Len(cursor.indents) = 0 /\ cursor.remaining = 0
  BY <1>1, <1>2, <1>3 DEF Counted
<1>4. cursor.state \in {"BeforeLeadingSpaces", "Dedenting", "AfterLeadingSpaces"}
  BY CursorIs DEF CursorRecord
<1>5. cursor.indents = <<>>
  BY <1>1, <1>6
<1> QED
  BY <1>1, <1>3, <1>4, <1>5, <1>6 DEF Finished

\* The cursor after each call of the iterator, from the first on.
Called(after, n) == after[n] = IF n = 0 THEN Start ELSE Iterate(text, after[n - 1])

\* There is a function that gives them.
LEMMA CallsAre ==
  ASSUME text \in Seq(Char)
  PROVE  \E after : /\ after = [n \in 0..MostCalls(text) |->
                                  IF n = 0 THEN Start ELSE Iterate(text, after[n - 1])]
<1> DEFINE S == 0..MostCalls(text)
           Ok == {m \in Nat : \E f : \A n \in 0..m : Called(f, n)}
<1>1. 0 \in Ok
  <2> DEFINE f == [n \in {0} |-> Start]
  <2>1. \A n \in 0..0 : Called(f, n)
    BY DEF Called
  <2> HIDE DEF f
  <2> QED
    BY <2>1
<1>2. ASSUME NEW m \in Nat, m \in Ok PROVE m + 1 \in Ok
  <2>1. PICK f : \A n \in 0..m : Called(f, n)
    BY <1>2
  <2> DEFINE g == [n \in 0..m + 1 |-> IF n = m + 1 THEN Iterate(text, f[m]) ELSE f[n]]
  <2>2. ASSUME NEW n \in 0..m + 1 PROVE Called(g, n)
    <3>1. CASE n = m + 1
      <4>1. g[n] = Iterate(text, f[m]) /\ n # 0 /\ n - 1 = m /\ m \in 0..m + 1 /\ m # m + 1
        BY <3>1
      <4>2. g[n - 1] = f[m]
        BY <4>1
      <4> HIDE DEF g
      <4> QED
        BY <4>1, <4>2 DEF Called
    <3>2. CASE n # m + 1 /\ n # 0
      <4>1. n \in 0..m /\ n - 1 \in 0..m /\ g[n] = f[n] /\ g[n - 1] = f[n - 1]
        BY <3>2
      <4> HIDE DEF g
      <4> QED
        BY <2>1, <3>2, <4>1 DEF Called
    <3>3. CASE n = 0
      <4>1. n \in 0..m /\ g[n] = f[n]
        BY <3>3
      <4> HIDE DEF g
      <4> QED
        BY <2>1, <3>3, <4>1 DEF Called
    <3> QED
      BY <3>1, <3>2, <3>3
  <2> HIDE DEF g
  <2> QED
    BY <2>2
<1>3. MostCalls(text) \in Nat
  BY DEF MostCalls
<1>4. PICK f : \A n \in S : Called(f, n)
  <2>1. MostCalls(text) \in Ok
    <3> HIDE DEF Ok
    <3> QED
      BY <1>1, <1>2, <1>3, Induction
  <2> QED
    BY <2>1
<1> DEFINE after == [n \in S |-> f[n]]
<1>5. ASSUME NEW n \in S
      PROVE  after[n] = IF n = 0 THEN Start ELSE Iterate(text, after[n - 1])
  <2>1. after[n] = f[n] /\ (n # 0 => n - 1 \in S /\ after[n - 1] = f[n - 1])
    BY <1>3
  <2> HIDE DEF after
  <2> QED
    BY <1>4, <2>1 DEF Called
<1>6. after = [n \in S |-> after[n]]
  OBVIOUS
<1> HIDE DEF after
<1>7. after = [n \in S |-> IF n = 0 THEN Start ELSE Iterate(text, after[n - 1])]
  BY <1>5, <1>6
<1> QED
  BY <1>7

\* The cursor at the end: the invariant holds of it, and nothing is left.
LEMMA IteratorEnds ==
  ASSUME text \in Seq(Char)
  PROVE  /\ IInv(AfterCalls(text)) /\ LineInv(AfterCalls(text))
         /\ Finished(text, AfterCalls(text))
<1> DEFINE most == MostCalls(text)
           After == CHOOSE after : after = [n \in 0..most |->
                                              IF n = 0 THEN Start ELSE Iterate(text, after[n - 1])]
           Ok == {n \in Nat : n <= most => /\ IInv(After[n]) /\ LineInv(After[n])
                                           /\ Finished(text, After[n]) \/ Left(After[n]) <= most - n}
<1>1. most \in Nat /\ most = 2 * Len(text) + 1 /\ Len(text) \in Nat
  BY DEF MostCalls
<1>2. After = [n \in 0..most |-> IF n = 0 THEN Start ELSE Iterate(text, After[n - 1])]
  BY CallsAre
<1> HIDE DEF After
<1>3. After[0] = Start /\ \A n \in 1..most : After[n] = Iterate(text, After[n - 1])
  <2> HIDE DEF most
  <2>1. 0 \in 0..most /\ \A n \in 1..most : n \in 0..most /\ n # 0
    BY <1>1
  <2> QED
    BY <1>2, <2>1
<1>4. AfterCalls(text) = After[most]
  BY DEF AfterCalls, After
<1> HIDE DEF most
<1>5. 0 \in Ok
  <2>1. IInv(Start) /\ LineInv(Start)
    BY Initially, NoLines
  <2>2. Left(Start) = most
    <3>1. /\ Start.start = 1 /\ Start.indents = <<>> /\ Start.remaining = 0
          /\ Start.state = "BeforeLeadingSpaces"
      BY DEF Start
    <3> QED
      BY <1>1, <3>1 DEF Left, Counted
  <2> QED
    BY <1>1, <1>3, <2>1, <2>2
<1>6. ASSUME NEW n \in Nat, n \in Ok PROVE n + 1 \in Ok
  <2> SUFFICES ASSUME n + 1 <= most
               PROVE  /\ IInv(After[n + 1]) /\ LineInv(After[n + 1])
                      /\ Finished(text, After[n + 1]) \/ Left(After[n + 1]) <= most - (n + 1)
    OBVIOUS
  <2>1. IInv(After[n]) /\ LineInv(After[n]) /\ (Finished(text, After[n]) \/ Left(After[n]) <= most - n)
    BY <1>1, <1>6
  <2>2. After[n + 1] = Iterate(text, After[n])
    <3>1. n + 1 \in 1..most /\ (n + 1) - 1 = n
      BY <1>1
    <3> QED
      BY <1>3, <3>1
  <2> HIDE DEF Ok
  <2>3. CASE Finished(text, After[n])
    <3>1. After[n + 1] = After[n]
      BY <2>2, <2>3 DEF Iterate
    <3> QED
      BY <2>1, <2>3, <3>1
  <2>4. CASE ~Finished(text, After[n])
    <3>1. After[n + 1] = AdvanceToken(text, After[n])
      BY <2>2, <2>4 DEF Iterate
    <3>2. IInv(After[n + 1]) /\ Left(After[n + 1]) < Left(After[n]) /\ LineInv(After[n + 1])
      BY <2>1, <2>4, <3>1, Preserved, LinesPreserved
    <3>3. Left(After[n]) \in Int /\ Left(After[n + 1]) \in Int
      BY <2>1, <3>2, LeftIs
    <3>4. Left(After[n + 1]) <= most - (n + 1)
      BY <1>1, <2>1, <2>4, <3>2, <3>3
    <3> QED
      BY <3>2, <3>4
  <2> QED
    BY <2>3, <2>4
<1>7. most \in Ok
  <2> HIDE DEF Ok
  <2> QED
    BY <1>1, <1>5, <1>6, Induction
<1>8. IInv(After[most]) /\ LineInv(After[most]) /\ (Finished(text, After[most]) \/ Left(After[most]) <= 0)
  BY <1>1, <1>7
<1> QED
  BY <1>4, <1>8, NothingLeft

-----------------------------------------------------------------------------
\* For every text, tokenize (starpls_lexer) ends, after no more than two calls
\* of advance_token for a character and one more.  Its tokens lie end to end
\* over all of the text, none of them empty but DEDENTs, with a DEDENT for every
\* INDENT and none for a block that is not open.
THEOREM TokensAreAlwaysTheText == TextSpec => []TokensAreTheText
<1>1. TextInit => text \in Seq(Char)
  BY DEF TextInit
<1>2. text \in Seq(Char) /\ [TextNext]_text => (text \in Seq(Char))'
  BY DEF TextNext
<1>3. text \in Seq(Char) => TokensAreTheText
  <2> SUFFICES ASSUME text \in Seq(Char) PROVE TokensAreTheText
    OBVIOUS
  <2> DEFINE cursor == AfterCalls(text)
             tokens == Tokenize(text)
  <2>1. IInv(cursor) /\ Finished(text, cursor)
    BY IteratorEnds
  <2>2. tokens = cursor.tokens
    BY DEF Tokenize
  <2> HIDE DEF cursor, tokens
  <2>3. /\ tokens \in Seq(TokenRecord) /\ Len(tokens) \in Nat /\ cursor.pos \in 1..Len(text) + 1
        /\ Len(text) \in Nat /\ cursor.state # "Dedenting" => cursor.start = cursor.pos /\ cursor.remaining = 0
    BY <2>1, <2>2, CursorIs DEF Places
  <2>4. cursor.start = Len(text) + 1 /\ cursor.remaining = 0 /\ Len(cursor.indents) = 0
    BY <2>1, <2>3 DEF Finished
  <2>5. StartOf(tokens, Len(tokens) + 1) = Len(text) + 1
    BY <2>1, <2>2, <2>3, <2>4, TokensEnd DEF IInv
  <2>6. \A i \in DOMAIN tokens : /\ tokens[i].kind # "Dedent" => tokens[i].len > 0
                                 /\ Depth(tokens, i) >= 0
    BY <2>1, <2>2, <2>3 DEF IInv, TokensHaveText, BlocksAreOpen
  <2>7. Depth(tokens, Len(tokens)) = 0
    BY <2>1, <2>2, <2>4 DEF IInv, BlocksAreOpen
  <2> QED
    BY <2>1, <2>5, <2>6, <2>7 DEF TokensAreTheText, Whole, cursor, tokens, Tokenize
<1> QED
  BY <1>1, <1>2, <1>3, PTL DEF TextSpec

-----------------------------------------------------------------------------
\* For every text, if each DEDENT of its tokens is consistent, then from one
\* line that has code or a comment to the next (starpls_lexer) there is a DEDENT
\* for each column that the first was nested at and the second is not, and an
\* INDENT if the second is nested at a new one.
THEOREM LinesAreAlwaysNested == TextSpec => []LinesAreNested
<1>1. TextInit => text \in Seq(Char)
  BY DEF TextInit
<1>2. text \in Seq(Char) /\ [TextNext]_text => (text \in Seq(Char))'
  BY DEF TextNext
<1>3. text \in Seq(Char) => LinesAreNested
  <2> SUFFICES ASSUME text \in Seq(Char), Consistent(Tokenize(text)) PROVE Nested(Tokenize(text))
    BY DEF LinesAreNested
  <2> DEFINE cursor == AfterCalls(text)
             tokens == Tokenize(text)
             lines == Lines(text, tokens)
  <2>1. LineInv(cursor) /\ Finished(text, cursor)
    BY IteratorEnds
  <2>2. tokens = cursor.tokens
    BY DEF Tokenize
  <2> HIDE DEF cursor, tokens
  <2>3. Entered(cursor) = lines
    BY <2>1, <2>2 DEF Finished, Entered
  <2>4. Judged(tokens, lines)
    <3>1. Consistent(cursor.tokens)
      BY <2>2 DEF tokens
    <3> HIDE DEF lines
    <3> QED
      BY <2>1, <2>2, <2>3, <3>1 DEF LineInv
  <2>5. \A p : Levels(text, tokens, p) = NestOf(UpTo(lines, p))
    BY DEF Levels, NestOf, UpTo, Column
  <2>6. ASSUME NEW p \in lines, NEW q \in lines, p < q, ~\E r \in lines : p < r /\ r < q
        PROVE  /\ Count(tokens, "Dedent", Before(text, tokens, p) + 1, Before(text, tokens, q))
                    = Cardinality(Levels(text, tokens, p) \ Levels(text, tokens, q))
               /\ Count(tokens, "Indent", Before(text, tokens, p) + 1, Before(text, tokens, q))
                    = Cardinality(Levels(text, tokens, q) \ Levels(text, tokens, p))
    <3> HIDE DEF lines
    <3>1. IsNext(lines, p, q)
      BY <2>6 DEF IsNext
    <3>2. Matches(tokens, p, q, NestOf(UpTo(lines, p)), NestOf(UpTo(lines, q)))
      BY <2>4, <3>1 DEF Judged
    <3>3. Matches(tokens, p, q, Levels(text, tokens, p), Levels(text, tokens, q))
      BY <2>5, <3>2
    <3> QED
      BY <3>3 DEF Matches, Seen
  <2>7. Nested(tokens)
    BY <2>6 DEF Nested
  <2> QED
    BY <2>7 DEF tokens
<1> QED
  BY <1>1, <1>2, <1>3, PTL DEF TextSpec
=============================================================================
