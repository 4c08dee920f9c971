--------------------------- MODULE LogViewProofs ---------------------------
(***************************************************************************)
(* Proofs about LogView: its types, and that the screen shows a piece of the        *)
(* container's log.  The invariant behind the second follows a line on its way:      *)
(* the chunks of a request are on one socket, in order and without gaps              *)
(* (ChunksInv); nothing precedes the request (FreshInv); and the first chunk still    *)
(* on its way goes on where the view ends (ReachInv).                              *)
(***************************************************************************)
EXTENDS LogView, SequenceTheorems, TLAPS

---------------------------------------------------------------------------
(* Sequences of lines.                                                       *)

Least(a, b) == IF a <= b THEN a ELSE b

(* Max of the two bounds Newest chooses between.                              *)
LEMMA MaxOfOneAnd ==
    ASSUME NEW n \in Int
    PROVE  Max({1, n}) = IF 1 <= n THEN n ELSE 1
  <1> DEFINE m == IF 1 <= n THEN n ELSE 1
  <1>1. m \in {1, n} /\ \A y \in {1, n} : m >= y
    OBVIOUS
  <1>2. Max({1, n}) \in {1, n} /\ \A y \in {1, n} : Max({1, n}) >= y
    <2> HIDE DEF m
    <2> QED BY <1>1 DEF Max
  <1> QED BY <1>1, <1>2

(* Newest(k, s) is the last k elements of s, or all of it.                       *)
LEMMA NewestIsSuffix ==
    ASSUME NEW S, NEW s \in Seq(S), NEW k \in Nat \ {0}
    PROVE  /\ Newest(k, s) \in Seq(S)
           /\ Len(Newest(k, s)) = Least(Len(s), k)
           /\ \A i \in 1..Least(Len(s), k) :
                Newest(k, s)[i] = s[Len(s) - Least(Len(s), k) + i]
           /\ Len(s) <= k => Newest(k, s) = s
  <1> DEFINE m == IF 1 <= Len(s) - k + 1 THEN Len(s) - k + 1 ELSE 1
  <1>1. Len(s) \in Nat
    BY LenProperties
  <1>2. \A i \in 1..Len(s) : s[i] \in S
    BY ElementOfSeq
  <1>3. PICK n : n = Len(s)
    OBVIOUS
  <1>4. /\ m \in 1..(n + 1) /\ n \in Nat
        /\ Least(n, k) \in Nat /\ n - m + 1 = Least(n, k) /\ m - 1 = n - Least(n, k)
        /\ (m <= n => n - m + 1 = Least(n, k)) /\ (~(m <= n) => Least(n, k) = 0)
        /\ (n <= k => m = 1)
    <2>1. n \in Nat /\ k \in Nat /\ k >= 1
      BY <1>1, <1>3
    <2>2. n <= k => m = 1 /\ Least(n, k) = n
      BY <1>3, <2>1 DEF Least
    <2>3. n > k => m = n - k + 1 /\ Least(n, k) = k
      BY <1>3, <2>1 DEF Least
    <2> HIDE DEF m
    <2> QED BY <2>1, <2>2, <2>3
  <1>5. Newest(k, s) = SubSeq(s, m, n)
    <2>1. Len(s) - k + 1 \in Int
      BY <1>1
    <2>2. Max({1, Len(s) - k + 1}) = m
      BY <2>1, MaxOfOneAnd
    <2> QED BY <1>3, <2>2 DEF Newest
  <1> HIDE DEF m
  <1>6. \A i \in m..n : s[i] \in S
    BY <1>2, <1>3, <1>4
  <1>7. /\ SubSeq(s, m, n) \in Seq(S)
        /\ Len(SubSeq(s, m, n)) = IF m <= n THEN n - m + 1 ELSE 0
        /\ \A i \in 1..(n - m + 1) : SubSeq(s, m, n)[i] = s[m + i - 1]
    <2>1. m \in Int /\ n \in Int
      BY <1>4
    <2> QED BY <1>6, <2>1, SubSeqProperties
  <1>8. n <= k => Newest(k, s) = s
    <2>1. SubSeq(s, 1, n) = s
      BY <1>3, SubSeqFull
    <2> QED BY <1>4, <1>5, <2>1
  <1>9. Newest(k, s) \in Seq(S) /\ Len(Newest(k, s)) = Least(n, k)
    BY <1>4, <1>5, <1>7
  <1>10. ASSUME NEW i \in 1..Least(n, k) PROVE Newest(k, s)[i] = s[n - Least(n, k) + i]
    <2>1. SubSeq(s, m, n)[i] = s[m + i - 1]
      BY <1>4, <1>7
    <2>2. m + i - 1 = n - Least(n, k) + i
      BY <1>4
    <2> QED BY <1>5, <2>1, <2>2
  <1> QED BY <1>3, <1>8, <1>9, <1>10

(* Lines(from, to) is the numbers of the range, in order.                        *)
LEMMA LinesAreARange ==
    ASSUME NEW from \in Nat, NEW to \in Nat, from <= to
    PROVE  /\ Lines(from, to) \in Seq(Nat)
           /\ Len(Lines(from, to)) = to - from + 1
           /\ \A i \in 1..(to - from + 1) : Lines(from, to)[i] = from + i - 1
           /\ Consecutive(Lines(from, to))
  <1> DEFINE n == to - from + 1
             s == Lines(from, to)
  <1>1. n \in Nat /\ s \in [1..n -> Nat] /\ \A i \in 1..n : s[i] = from + i - 1
    BY DEF Lines
  <1>2. s \in Seq(Nat)
    BY <1>1, SeqDef
  <1>3. DOMAIN s = 1..n /\ DOMAIN s = 1..Len(s) /\ Len(s) \in Nat
    BY <1>1, <1>2, LenProperties
  <1>4. Len(s) = n
    <2> HIDE DEF s, n
    <2> QED BY <1>1, <1>3
  <1>5. Consecutive(s)
    <2>1. \A i \in 1..(Len(s) - 1) : i \in 1..n /\ i + 1 \in 1..n
      BY <1>1, <1>4
    <2> QED BY <1>1, <2>1 DEF Consecutive
  <1> QED BY <1>1, <1>2, <1>4, <1>5

(* The newest part of a run of lines is a run of lines with the same end.          *)
LEMMA NewestConsecutive ==
    ASSUME NEW s \in Seq(Nat), NEW k \in Nat \ {0}, Consecutive(s)
    PROVE  /\ Consecutive(Newest(k, s))
           /\ s # <<>> => /\ Newest(k, s) # <<>>
                          /\ Newest(k, s)[Len(Newest(k, s))] = s[Len(s)]
  <1> DEFINE n == Newest(k, s)
             b == Least(Len(s), k)
  <1>1. /\ n \in Seq(Nat) /\ Len(n) = b
        /\ \A i \in 1..b : n[i] = s[Len(s) - b + i]
    BY NewestIsSuffix
  <1>2. Len(s) \in Nat /\ b \in 0..Len(s) /\ (s # <<>> => Len(s) > 0 /\ b > 0)
    BY LenProperties, EmptySeq DEF Least
  <1> HIDE DEF n, b
  <1>3. Consecutive(n)
    <2> SUFFICES ASSUME NEW i \in 1..(Len(n) - 1)
                 PROVE  n[i + 1] = n[i] + 1
      BY DEF Consecutive
    <2>1. i \in 1..b /\ i + 1 \in 1..b /\ Len(s) - b + i \in 1..(Len(s) - 1)
      BY <1>1, <1>2
    <2>2. n[i] = s[Len(s) - b + i] /\ n[i + 1] = s[Len(s) - b + (i + 1)]
      BY <1>1, <2>1
    <2>3. s[(Len(s) - b + i) + 1] = s[Len(s) - b + i] + 1
      BY <2>1 DEF Consecutive
    <2>4. Len(s) - b + (i + 1) = (Len(s) - b + i) + 1
      BY <1>2
    <2> QED BY <2>2, <2>3, <2>4
  <1>4. ASSUME s # <<>> PROVE n # <<>> /\ n[Len(n)] = s[Len(s)]
    <2>1. b \in 1..b /\ Len(s) - b + b = Len(s)
      BY <1>2, <1>4
    <2>2. n[b] = s[Len(s)]
      BY <1>1, <2>1
    <2>3. n # <<>>
      BY <1>1, <1>2, <1>4, EmptySeq
    <2> QED BY <1>1, <2>2, <2>3
  <1> QED BY <1>3, <1>4 DEF n

(* t goes on where s ends.                                                    *)
Meets(s, t) == s # <<>> /\ t # <<>> => s[Len(s)] + 1 = t[1]

(* Two runs of lines that meet make one, and the parts of one are runs that meet.  *)
LEMMA Joined ==
    ASSUME NEW s \in Seq(Nat), NEW t \in Seq(Nat)
    PROVE  Consecutive(s \o t) <=> Consecutive(s) /\ Consecutive(t) /\ Meets(s, t)
  <1> DEFINE u == s \o t
  <1>1. /\ u \in Seq(Nat) /\ Len(u) = Len(s) + Len(t)
        /\ \A i \in 1..(Len(s) + Len(t)) : u[i] = IF i <= Len(s) THEN s[i] ELSE t[i - Len(s)]
    BY ConcatProperties
  <1>2. Len(s) \in Nat /\ Len(t) \in Nat /\ (s # <<>> <=> Len(s) > 0) /\ (t # <<>> <=> Len(t) > 0)
    BY LenProperties, EmptySeq
  <1> HIDE DEF u
  <1>0. Len(u) = Len(s) + Len(t) /\ Len(s) \in Nat /\ Len(t) \in Nat
    BY <1>1, <1>2
  <1>3. ASSUME NEW i \in 1..Len(s) PROVE u[i] = s[i]
    <2>1. i \in 1..(Len(s) + Len(t)) /\ i <= Len(s)
      BY <1>2
    <2> QED BY <1>1, <2>1
  <1>4. ASSUME NEW i \in 1..Len(t) PROVE u[Len(s) + i] = t[i]
    <2>1. Len(s) + i \in 1..(Len(s) + Len(t)) /\ ~(Len(s) + i <= Len(s)) /\ Len(s) + i - Len(s) = i
      BY <1>2
    <2> QED BY <1>1, <2>1
  <1>5. ASSUME Consecutive(u) PROVE Consecutive(s) /\ Consecutive(t) /\ Meets(s, t)
    <2>1. ASSUME NEW i \in 1..(Len(s) - 1) PROVE s[i + 1] = s[i] + 1
      <3>1. i \in 1..(Len(u) - 1) /\ i \in 1..Len(s) /\ i + 1 \in 1..Len(s)
        BY ONLY <1>0, <2>1
      <3> QED BY <1>3, <1>5, <3>1 DEF Consecutive
    <2>2. ASSUME NEW i \in 1..(Len(t) - 1) PROVE t[i + 1] = t[i] + 1
      <3>1. /\ Len(s) + i \in 1..(Len(u) - 1) /\ i \in 1..Len(t) /\ i + 1 \in 1..Len(t)
            /\ Len(s) + (i + 1) = (Len(s) + i) + 1
        BY ONLY <1>0, <2>2
      <3>2. u[Len(s) + i] = t[i] /\ u[Len(s) + (i + 1)] = t[i + 1]
        BY <1>4, <3>1
      <3> QED BY <1>5, <3>1, <3>2 DEF Consecutive
    <2>3. ASSUME s # <<>>, t # <<>> PROVE s[Len(s)] + 1 = t[1]
      <3>1. Len(s) \in 1..(Len(u) - 1) /\ Len(s) \in 1..Len(s) /\ 1 \in 1..Len(t)
        BY <1>1, <1>2, <2>3
      <3>2. u[Len(s)] = s[Len(s)] /\ u[Len(s) + 1] = t[1]
        BY <1>3, <1>4, <3>1
      <3> QED BY <1>5, <3>1, <3>2 DEF Consecutive
    <2> QED BY <2>1, <2>2, <2>3 DEF Consecutive, Meets
  <1>6. ASSUME Consecutive(s), Consecutive(t), Meets(s, t) PROVE Consecutive(u)
    <2> SUFFICES ASSUME NEW i \in 1..(Len(u) - 1) PROVE u[i + 1] = u[i] + 1
      BY DEF Consecutive
    <2>1. CASE i < Len(s)
      <3>1. i \in 1..(Len(s) - 1) /\ i \in 1..Len(s) /\ i + 1 \in 1..Len(s)
        BY <1>2, <2>1
      <3> QED BY <1>3, <1>6, <3>1 DEF Consecutive
    <2>2. CASE i = Len(s)
      <3>1. Len(s) \in 1..Len(s) /\ 1 \in 1..Len(t) /\ s # <<>> /\ t # <<>>
        BY <1>1, <1>2, <2>2
      <3>2. u[i] = s[Len(s)] /\ u[i + 1] = t[1]
        BY <1>3, <1>4, <2>2, <3>1
      <3> QED BY <1>6, <3>1, <3>2 DEF Meets
    <2>3. CASE i > Len(s)
      <3> DEFINE j == i - Len(s)
      <3>0. i \in Nat /\ i < Len(s) + Len(t) /\ Len(s) \in Nat /\ Len(t) \in Nat
        BY <1>0
      <3>1. j \in 1..(Len(t) - 1) /\ j \in 1..Len(t) /\ j + 1 \in 1..Len(t)
        BY ONLY <2>3, <3>0
      <3>2. Len(s) + j = i /\ Len(s) + (j + 1) = i + 1
        BY <1>2
      <3>3. u[i] = t[j] /\ u[i + 1] = t[j + 1]
        <4>1. u[Len(s) + j] = t[j] /\ u[Len(s) + (j + 1)] = t[j + 1]
          <5> HIDE DEF j
          <5> QED BY <1>4, <3>1
        <4> QED BY <3>2, <4>1
      <3> QED BY <1>6, <3>1, <3>3 DEF Consecutive
    <2> QED BY <1>2, <2>1, <2>2, <2>3
  <1> QED BY <1>5, <1>6 DEF u

(* The end of two sequences is the end of the second, or of the first.             *)
LEMMA EndOfConcat ==
    ASSUME NEW s \in Seq(Nat), NEW t \in Seq(Nat)
    PROVE  /\ s \o t = <<>> <=> s = <<>> /\ t = <<>>
           /\ t # <<>> => (s \o t)[Len(s \o t)] = t[Len(t)]
           /\ t = <<>> => s \o t = s
  <1>1. Len(s) \in Nat /\ Len(t) \in Nat /\ (t # <<>> => Len(t) > 0)
    BY LenProperties, EmptySeq
  <1>2. Len(s \o t) = Len(s) + Len(t)
    BY ConcatProperties
  <1>3. ASSUME t # <<>> PROVE (s \o t)[Len(s) + Len(t)] = t[Len(t)]
    <2>1. Len(s) + Len(t) \in 1..(Len(s) + Len(t)) /\ ~(Len(s) + Len(t) <= Len(s))
          /\ (Len(s) + Len(t)) - Len(s) = Len(t)
      BY <1>1, <1>3
    <2> QED BY <2>1, ConcatProperties
  <1> QED BY <1>2, <1>3, ConcatEqualIffEmpty, ConcatEmptySeq

---------------------------------------------------------------------------
(* What the view shows.                                                      *)

View ==
    [req : Requests \cup {None}, link : {"off", "asking", "open", "done"},
     status : {"connecting", "live", "paused", "error"}, paused : BOOLEAN,
     entries : Seq(Nat), buffer : Seq(Nat), cleared : Nat]

ViewOK(v) ==
    /\ v \in View /\ Len(v.entries) <= Keep /\ Len(v.buffer) <= Keep
    /\ v.link \in {"asking", "open"} => v.req \in Requests

(* The lines on screen and behind it.                                          *)
All(v) == v.entries \o v.buffer

(* The invariant of the screen: nothing is held back unless the view is paused.    *)
Screen(v) ==
    /\ Consecutive(v.entries) /\ Consecutive(v.buffer)
    /\ Len(v.buffer) < Keep => Consecutive(All(v))
    /\ v.paused \/ v.buffer = <<>>

(* The view ends with line n, if it shows any.                                   *)
EndsWith(v, n) == All(v) # <<>> => All(v)[Len(All(v))] = n

(* What pushEntries and the end of a pause make of a view.                        *)
LEMMA PushedView ==
    ASSUME ViewOK(view), NEW from \in Nat, NEW to \in Nat, from <= to,
           NEW v, v = Push(Lines(from, to))
    PROVE  /\ ViewOK(v) /\ v.req = view.req /\ v.link = view.link /\ v.paused = view.paused
           /\ view.paused => /\ v.entries = view.entries
                             /\ v.buffer = Newest(Keep, view.buffer \o Lines(from, to))
           /\ ~view.paused => /\ v.entries = Newest(Keep, view.entries \o Lines(from, to))
                              /\ v.buffer = view.buffer
  <1>1. PICK l : l = Lines(from, to) /\ l \in Seq(Nat)
    BY LinesAreARange
  <1>2. ASSUME NEW s \in Seq(Nat)
        PROVE  Newest(Keep, s \o l) \in Seq(Nat) /\ Len(Newest(Keep, s \o l)) <= Keep
    <2>1. PICK u : u = s \o l /\ u \in Seq(Nat)
      BY <1>1, ConcatProperties
    <2>2. Keep \in Nat \ {0} /\ Len(u) \in Nat
      BY <2>1, LogViewAssumption, LenProperties
    <2>3. Newest(Keep, u) \in Seq(Nat) /\ Len(Newest(Keep, u)) = Least(Len(u), Keep)
      BY <2>1, <2>2, NewestIsSuffix
    <2>4. Least(Len(u), Keep) <= Keep
      BY <2>2 DEF Least
    <2> QED BY <2>1, <2>3, <2>4
  <1>3. PICK b, e : b = Newest(Keep, view.buffer \o l) /\ e = Newest(Keep, view.entries \o l)
    OBVIOUS
  <1>4. b \in Seq(Nat) /\ Len(b) <= Keep /\ e \in Seq(Nat) /\ Len(e) <= Keep
    BY <1>2, <1>3 DEF ViewOK, View
  <1>5. v = IF view.paused THEN [view EXCEPT !.buffer = b]
            ELSE [view EXCEPT !.entries = e, !.status = "live"]
    BY <1>1, <1>3 DEF Push
  <1> QED BY <1>1, <1>3, <1>4, <1>5 DEF ViewOK, View

LEMMA ResumedView ==
    ASSUME ViewOK(view), NEW v,
           v = [view EXCEPT !.paused = FALSE, !.status = "live", !.buffer = <<>>,
                            !.entries = Newest(Keep, view.entries \o view.buffer)]
    PROVE  /\ ViewOK(v) /\ v.req = view.req /\ v.link = view.link /\ ~v.paused
           /\ v.entries = Newest(Keep, view.entries \o view.buffer) /\ v.buffer = <<>>
  <1>1. PICK u : u = view.entries \o view.buffer /\ u \in Seq(Nat)
    BY ConcatProperties DEF ViewOK, View
  <1>2. Keep \in Nat \ {0} /\ Len(u) \in Nat
    BY <1>1, LogViewAssumption, LenProperties
  <1>3. PICK n : n = Newest(Keep, u)
    OBVIOUS
  <1>4. n \in Seq(Nat) /\ Len(n) = Least(Len(u), Keep)
    BY <1>1, <1>2, <1>3, NewestIsSuffix
  <1>5. Len(n) <= Keep /\ <<>> \in Seq(Nat) /\ Len(<<>>) = 0 /\ 0 <= Keep
    BY <1>2, <1>4, EmptySeq DEF Least
  <1>6. v = [view EXCEPT !.paused = FALSE, !.status = "live", !.buffer = <<>>, !.entries = n]
    BY <1>1, <1>3
  <1> QED BY <1>1, <1>3, <1>4, <1>5, <1>6 DEF ViewOK, View

(* A batch that goes on where the view ends leaves a view that ends with the batch. *)
LEMMA PushedScreen ==
    ASSUME ViewOK(view), Screen(view),
           NEW from \in Nat \ {0}, NEW to \in Nat, from <= to, EndsWith(view, from - 1),
           NEW v, v = Push(Lines(from, to))
    PROVE  Screen(v) /\ EndsWith(v, to) /\ All(v) # <<>>
  <1>0. Keep \in Nat \ {0}
    BY LogViewAssumption
  <1>1. PICK e, b, l : e = view.entries /\ b = view.buffer /\ l = Lines(from, to)
    OBVIOUS
  <1>2. /\ e \in Seq(Nat) /\ b \in Seq(Nat) /\ Len(e) <= Keep /\ Len(b) <= Keep
        /\ Consecutive(e) /\ Consecutive(b)
        /\ (Len(b) < Keep => Consecutive(e \o b)) /\ (view.paused \/ b = <<>>)
        /\ (e \o b # <<>> => (e \o b)[Len(e \o b)] = from - 1)
    BY <1>1 DEF ViewOK, View, Screen, All, EndsWith
  <1>3. /\ l \in Seq(Nat) /\ Len(l) = to - from + 1 /\ Consecutive(l)
        /\ \A i \in 1..(to - from + 1) : l[i] = from + i - 1
    BY <1>1, LinesAreARange
  <1>4. l # <<>> /\ l[1] = from /\ l[Len(l)] = to
    <2>1. 1 \in 1..(to - from + 1) /\ to - from + 1 \in 1..(to - from + 1) /\ Len(l) # 0
      BY <1>3
    <2>2. l[1] = from + 1 - 1 /\ l[to - from + 1] = from + (to - from + 1) - 1
      BY <1>3, <2>1
    <2>3. l # <<>>
      BY <2>1, EmptySeq
    <2>4. from + 1 - 1 = from /\ from + (to - from + 1) - 1 = to
      OBVIOUS
    <2>5. l[1] = from /\ l[to - from + 1] = to
      BY ONLY <2>2, <2>4
    <2> QED BY <1>3, <2>3, <2>5
  <1>5. e \o b \in Seq(Nat) /\ b \o l \in Seq(Nat) /\ e \o l \in Seq(Nat)
    BY <1>2, <1>3, ConcatProperties
  <1>6. Meets(e \o b, l)
    BY SMTT(30), <1>2, <1>4 DEF Meets
  <1>7. CASE view.paused
    <2>1. PICK n : n = Newest(Keep, b \o l)
      OBVIOUS
    <2>4. v.entries = e /\ v.buffer = n /\ v.paused
      BY <1>1, <1>7, <2>1, PushedView
    <2>5. b # <<>> => (e \o b)[Len(e \o b)] = b[Len(b)] /\ e \o b # <<>>
      BY <1>2, EndOfConcat
    <2>6. Meets(b, l)
      BY <1>6, <2>5 DEF Meets
    <2>7. Consecutive(b \o l)
      BY <1>2, <1>3, <2>6, Joined
    <2>8. /\ n \in Seq(Nat) /\ Len(n) = Least(Len(b \o l), Keep) /\ Consecutive(n)
          /\ (Len(b \o l) <= Keep => n = b \o l)
          /\ (b \o l # <<>> => n # <<>> /\ n[Len(n)] = (b \o l)[Len(b \o l)])
      BY <1>5, <2>1, <2>7, <1>0, NewestIsSuffix, NewestConsecutive
    <2>9. n # <<>> /\ n[Len(n)] = to
      BY <1>2, <1>3, <1>4, <2>8, EndOfConcat
    <2>10. e \o n # <<>> /\ (e \o n)[Len(e \o n)] = to
      BY <1>2, <2>8, <2>9, EndOfConcat
    <2>11. Len(b) \in Nat /\ Len(b \o l) = Len(b) + Len(l) /\ Len(l) \in Nat /\ Len(l) > 0
      <3>1. Len(b) \in Nat /\ Len(l) \in Nat /\ Len(l) > 0
        BY <1>2, <1>3, <1>4, LenProperties, EmptySeq
      <3>2. Len(b \o l) = Len(b) + Len(l)
        BY <1>2, <1>3, ConcatProperties
      <3> QED BY <3>1, <3>2
    <2>12. Len(n) <= Keep /\ (Len(n) < Keep => Len(b \o l) <= Keep /\ Len(b) < Keep)
      BY <1>0, <2>8, <2>11 DEF Least
    <2>13. Len(n) < Keep => Consecutive(e \o n)
      <3> SUFFICES ASSUME Len(n) < Keep PROVE Consecutive(e \o n)
        OBVIOUS
      <3>1. n = b \o l /\ Consecutive(e \o b)
        BY <1>2, <2>8, <2>12
      <3>2. Consecutive((e \o b) \o l)
        BY <1>3, <1>5, <1>6, <3>1, Joined
      <3>3. (e \o b) \o l = e \o (b \o l)
        <4>1. e \in Seq(Nat) /\ b \in Seq(Nat) /\ l \in Seq(Nat)
          BY <1>2, <1>3
        <4> QED BY <4>1, ConcatAssociative
      <3> QED BY <3>1, <3>2, <3>3
    <2>15. Screen(v)
      BY <1>2, <2>4, <2>8, <2>13 DEF Screen, All
    <2> QED BY <2>4, <2>10, <2>15 DEF EndsWith, All
  <1>8. CASE ~view.paused
    <2>1. PICK n : n = Newest(Keep, e \o l)
      OBVIOUS
    <2>4. v.entries = n /\ v.buffer = b /\ b = <<>>
      BY <1>1, <1>2, <1>8, <2>1, PushedView
    <2>5. e \o b = e
      BY <1>2, <2>4, EndOfConcat
    <2>6. Consecutive(e \o l)
      BY <1>2, <1>3, <1>6, <2>5, Joined
    <2>7. /\ n \in Seq(Nat) /\ Len(n) = Least(Len(e \o l), Keep) /\ Consecutive(n)
          /\ (e \o l # <<>> => n # <<>> /\ n[Len(n)] = (e \o l)[Len(e \o l)])
      BY <1>5, <2>1, <2>6, <1>0, NewestIsSuffix, NewestConsecutive
    <2>8. n # <<>> /\ n[Len(n)] = to
      BY <1>2, <1>3, <1>4, <2>7, EndOfConcat
    <2>9. n \o b = n
      BY <1>2, <2>4, <2>7, EndOfConcat
    <2>13. Screen(v)
      BY <1>2, <2>4, <2>7, <2>9 DEF Screen, All
    <2> QED BY <2>4, <2>8, <2>9, <2>13 DEF EndsWith, All
  <1> QED BY <1>7, <1>8

(* What is shown at the end of a pause.                                         *)
LEMMA ResumedScreen ==
    ASSUME ViewOK(view), Screen(view), NEW v,
           v = [view EXCEPT !.paused = FALSE, !.status = "live", !.buffer = <<>>,
                            !.entries = Newest(Keep, view.entries \o view.buffer)]
    PROVE  /\ Screen(v)
           /\ All(v) # <<>> => All(view) # <<>>
           /\ All(v) # <<>> => All(v)[Len(All(v))] = All(view)[Len(All(view))]
  <1>0. Keep \in Nat \ {0}
    BY LogViewAssumption
  <1>1. PICK e, b, u, n : /\ e = view.entries /\ b = view.buffer
                          /\ u = view.entries \o view.buffer /\ n = Newest(Keep, u)
    OBVIOUS
  <1>2. /\ e \in Seq(Nat) /\ b \in Seq(Nat) /\ Len(b) <= Keep /\ Consecutive(b)
        /\ (Len(b) < Keep => Consecutive(u)) /\ u = e \o b
    BY <1>1 DEF ViewOK, View, Screen, All
  <1>3. /\ u \in Seq(Nat) /\ Len(u) = Len(e) + Len(b)
        /\ \A i \in 1..(Len(e) + Len(b)) : u[i] = IF i <= Len(e) THEN e[i] ELSE b[i - Len(e)]
    BY <1>2, ConcatProperties
  <1>4. PICK k, m : k = Len(e) /\ m = Len(b) /\ k \in Nat /\ m \in Nat
    BY <1>2, LenProperties
  <1>5. /\ n \in Seq(Nat) /\ Len(n) = Least(k + m, Keep)
        /\ \A i \in 1..Least(k + m, Keep) : n[i] = u[k + m - Least(k + m, Keep) + i]
    <2>1. /\ n \in Seq(Nat) /\ Len(n) = Least(Len(u), Keep)
          /\ \A i \in 1..Least(Len(u), Keep) : n[i] = u[Len(u) - Least(Len(u), Keep) + i]
      <3>1. u \in Seq(Nat) /\ Keep \in Nat \ {0}
        BY <1>0, <1>3
      <3>2. /\ Newest(Keep, u) \in Seq(Nat) /\ Len(Newest(Keep, u)) = Least(Len(u), Keep)
            /\ \A i \in 1..Least(Len(u), Keep) :
                 Newest(Keep, u)[i] = u[Len(u) - Least(Len(u), Keep) + i]
        BY <3>1, NewestIsSuffix
      <3> QED BY <1>1, <3>2
    <2>2. PICK x : x = Least(k + m, Keep)
      OBVIOUS
    <2>3. Len(u) = k + m /\ Least(Len(u), Keep) = x
      BY <1>3, <1>4, <2>2
    <2>4. \A i \in 1..x : n[i] = u[k + m - x + i]
      <3> SUFFICES ASSUME NEW i \in 1..x PROVE n[i] = u[k + m - x + i]
        OBVIOUS
      <3>1. i \in 1..Least(Len(u), Keep)
        BY <2>3
      <3>2. n[i] = u[Len(u) - Least(Len(u), Keep) + i]
        BY <2>1, <3>1
      <3>3. Len(u) - Least(Len(u), Keep) + i = k + m - x + i
        <4>1. x \in Int /\ k \in Int /\ m \in Int /\ i \in Int
          BY <1>0, <1>4, <2>2 DEF Least
        <4> QED BY <2>3, <4>1
      <3> QED BY <3>2, <3>3
    <2> QED BY <2>1, <2>2, <2>3, <2>4
  <1>6. Len(n) <= Keep /\ Len(n) \in Nat
    BY <1>0, <1>4, <1>5 DEF Least
  <1>7. n \o <<>> = n /\ <<>> \in Seq(Nat) /\ Len(<<>>) = 0 /\ Consecutive(<<>>)
    BY <1>5, ConcatEmptySeq, EmptySeq DEF Consecutive
  <1>8. v.entries = n /\ v.buffer = <<>>
    BY <1>1, ResumedView
  <1>10. Consecutive(n)
    <2>1. CASE m < Keep
      BY <1>0, <1>1, <1>2, <1>3, <1>4, <2>1, NewestConsecutive
    <2>2. CASE m = Keep
      <3>1. Len(n) = Keep /\ Least(k + m, Keep) = Keep
        BY <1>0, <1>4, <1>5, <2>2 DEF Least
      <3>2. ASSUME NEW i \in 1..m PROVE n[i] = b[i]
        <4>1. k + i \in 1..(k + m) /\ ~(k + i <= k) /\ k + i - k = i /\ k + m - Keep + i = k + i
          BY <1>4, <2>2
        <4>2. u[k + i] = IF k + i <= k THEN e[k + i] ELSE b[k + i - k]
          <5>1. \A j \in 1..(k + m) : u[j] = IF j <= k THEN e[j] ELSE b[j - k]
            BY <1>3, <1>4
          <5>2. PICK j : j = k + i
            OBVIOUS
          <5>3. j \in 1..(k + m) /\ ~(j <= k)
            BY <4>1, <5>2
          <5>4. u[j] = IF j <= k THEN e[j] ELSE b[j - k]
            BY <5>1, <5>3
          <5>5. u[j] = b[j - k]
            BY <5>3, <5>4
          <5>7. j - k = i
            BY <1>4, <4>1, <5>2
          <5>8. u[j] = b[i]
            BY <5>5, <5>7
          <5> QED BY <1>4, <4>1, <5>2, <5>8
        <4>3. n[i] = u[k + m - Keep + i]
          BY <1>5, <2>2, <3>1
        <4> QED BY <4>1, <4>2, <4>3
      <3>3. n = b
        BY <1>2, <1>4, <1>5, <2>2, <3>1, <3>2, SeqEqual
      <3> QED BY <1>2, <3>3
    <2> QED BY <1>0, <1>2, <1>4, <2>1, <2>2
  <1>11. Screen(v)
    BY <1>7, <1>8, <1>10 DEF Screen, All
  <1>12. n # <<>> => u # <<>> /\ n[Len(n)] = u[Len(u)]
    <2> SUFFICES ASSUME n # <<>> PROVE u # <<>> /\ n[Len(n)] = u[Len(u)]
      OBVIOUS
    <2>1. Len(n) > 0
      BY <1>5, EmptySeq
    <2>2. /\ Len(n) \in 1..Least(k + m, Keep) /\ k + m > 0
          /\ k + m - Least(k + m, Keep) + Len(n) = k + m
      <3>1. PICK x : x = Least(k + m, Keep) /\ Len(n) = x
        BY <1>5
      <3>2. x \in Nat /\ x <= k + m
        BY <1>0, <1>4, <3>1 DEF Least
      <3> QED BY <1>4, <2>1, <3>1, <3>2
    <2>3. Len(u) = k + m /\ u # <<>>
      BY <1>3, <1>4, <2>2, EmptySeq
    <2> QED BY <1>5, <2>2, <2>3
  <1> QED BY <1>1, <1>7, <1>8, <1>11, <1>12 DEF All

---------------------------------------------------------------------------
(* The queues of chunks.                                                      *)

Chunks == {m \in [req : Requests, from : 1..MaxLine, to : 1..MaxLine] : m.from <= m.to}
Messages == {Register} \cup Chunks
Orders == [type : {"subscribe", "unsubscribe"}, req : Requests]

About(q, r) == \E i \in 1..Len(q) : q[i].req = r

(* The chunk at j is the first about r.                                         *)
FirstOf(q, r, j) == q[j].req = r /\ \A i \in 1..(j - 1) : q[i].req # r

(* The chunks about r carry later and later lines, and leave none out.             *)
Ordered(q, r) ==
    \A i, j \in 1..Len(q) : i < j /\ q[i].req = r /\ q[j].req = r => q[i].to < q[j].from
Gapless(q, r) ==
    \A j \in 1..Len(q) : q[j].req = r =>
        \/ \A i \in 1..(j - 1) : q[i].req # r
        \/ \E i \in 1..(j - 1) : q[i].req = r /\ q[i].to + 1 = q[j].from

LEMMA MessageFacts ==
    ASSUME NEW m \in Messages, m.req \in Requests
    PROVE  m \in Chunks /\ m.from \in 1..MaxLine /\ m.to \in 1..MaxLine /\ m.from <= m.to
           /\ m # Register
  BY LogViewAssumption DEF Messages, Chunks, Register, Chunk

LEMMA RegisterFacts == Register.req \notin Requests /\ Register \in Messages
  BY LogViewAssumption DEF Messages, Register, Chunk

(* What a queue is about once a message has been added or taken.                  *)
LEMMA AboutAppend ==
    ASSUME NEW S, NEW q \in Seq(S), NEW m \in S, NEW r
    PROVE  About(Append(q, m), r) <=> About(q, r) \/ m.req = r
  <1>1. /\ Len(Append(q, m)) = Len(q) + 1 /\ Append(q, m)[Len(q) + 1] = m
        /\ \A i \in 1..Len(q) : Append(q, m)[i] = q[i]
    BY AppendProperties
  <1>2. Len(q) \in Nat
    BY LenProperties
  <1>3. 1..(Len(q) + 1) = (1..Len(q)) \cup {Len(q) + 1}
    BY <1>2
  <1> QED BY <1>1, <1>3 DEF About

LEMMA AboutTail ==
    ASSUME NEW S, NEW q \in Seq(S), q # <<>>, NEW r
    PROVE  /\ About(Tail(q), r) => About(q, r)
           /\ About(q, r) => About(Tail(q), r) \/ Head(q).req = r
           /\ Head(q) = q[1] /\ About(q, Head(q).req)
  <1>1. /\ Len(Tail(q)) = Len(q) - 1 /\ Head(q) = q[1]
        /\ \A i \in 1..Len(Tail(q)) : Tail(q)[i] = q[i + 1]
    BY HeadTailProperties
  <1>2. Len(q) \in Nat /\ Len(q) > 0
    BY LenProperties, EmptySeq
  <1>3. About(Tail(q), r) => About(q, r)
    BY <1>1, <1>2 DEF About
  <1>4. ASSUME NEW i \in 1..Len(q), q[i].req = r, i # 1 PROVE About(Tail(q), r)
    <2>1. i - 1 \in 1..Len(Tail(q)) /\ (i - 1) + 1 = i
      BY <1>1, <1>2, <1>4
    <2> QED BY <1>1, <1>4, <2>1 DEF About
  <1>5. 1 \in 1..Len(q)
    BY <1>2
  <1> QED BY <1>1, <1>3, <1>4, <1>5 DEF About

LEMMA AboutEmpty == \A r : ~About(<<>>, r)
  BY EmptySeq DEF About

(* A chunk that begins after the last line sent goes to the end of the queue.       *)
LEMMA AppendedQueue ==
    ASSUME NEW q \in Seq(Messages), NEW m \in Messages, NEW r \in Requests,
           Ordered(q, r), Gapless(q, r),
           m.req = r => /\ \A i \in 1..Len(q) : q[i].req = r => q[i].to < m.from
                        /\ About(q, r) => \E i \in 1..Len(q) : q[i].req = r /\ q[i].to + 1 = m.from
    PROVE  Ordered(Append(q, m), r) /\ Gapless(Append(q, m), r)
  <1>2. PICK a : a = Append(q, m)
    OBVIOUS
  <1>3. Len(a) = Len(q) + 1 /\ a[Len(q) + 1] = m /\ \A i \in 1..Len(q) : a[i] = q[i]
    BY <1>2, AppendProperties
  <1>4. PICK n \in Nat : n = Len(q)
    BY LenProperties
  <1>5. Len(a) = n + 1 /\ a[n + 1] = m /\ \A i \in 1..n : a[i] = q[i]
    BY <1>3, <1>4
  <1>6. Ordered(a, r)
    <2> SUFFICES ASSUME NEW i \in 1..(n + 1), NEW j \in 1..(n + 1), i < j, a[i].req = r, a[j].req = r
                 PROVE  a[i].to < a[j].from
      BY <1>5 DEF Ordered
    <2>1. i \in 1..n /\ a[i] = q[i]
      BY <1>5
    <2>2. CASE j = n + 1
      <3>1. a[j] = m
        BY <1>5, <2>2
      <3> QED BY <1>4, <2>1, <3>1
    <2>3. CASE j # n + 1
      <3>1. j \in 1..n /\ a[j] = q[j]
        BY <1>5, <2>3
      <3> QED BY <1>4, <2>1, <3>1 DEF Ordered
    <2> QED BY <2>2, <2>3
  <1>7. Gapless(a, r)
    <2> SUFFICES ASSUME NEW j \in 1..(n + 1), a[j].req = r
                 PROVE  \/ \A i \in 1..(j - 1) : a[i].req # r
                        \/ \E i \in 1..(j - 1) : a[i].req = r /\ a[i].to + 1 = a[j].from
      BY <1>5 DEF Gapless
    <2>1. \A i \in 1..(j - 1) : i \in 1..n /\ a[i] = q[i]
      BY <1>5
    <2>2. CASE j = n + 1
      <3>1. a[j] = m /\ 1..(j - 1) = 1..Len(q)
        BY <1>4, <1>5, <2>2
      <3> QED BY <2>1, <3>1 DEF About
    <2>3. CASE j # n + 1
      <3>1. j \in 1..Len(q) /\ a[j] = q[j]
        BY <1>4, <1>5, <2>3
      <3> QED BY <2>1, <3>1 DEF Gapless
    <2> QED BY <2>2, <2>3
  <1> QED BY <1>2, <1>6, <1>7

(* Its first chunk about r is the first of before, or the chunk added.               *)
LEMMA FirstOfAppended ==
    ASSUME NEW q \in Seq(Messages), NEW r, NEW a \in Seq(Messages),
           Len(a) = Len(q) + 1, \A i \in 1..Len(q) : a[i] = q[i],
           NEW j \in 1..Len(a), FirstOf(a, r, j)
    PROVE  \/ j \in 1..Len(q) /\ FirstOf(q, r, j) /\ a[j] = q[j]
           \/ ~About(q, r) /\ j = Len(q) + 1
  <1>1. PICK n \in Nat : n = Len(q)
    BY LenProperties
  <1>2. Len(a) = n + 1 /\ \A i \in 1..n : a[i] = q[i]
    BY <1>1
  <1>3. \A i \in 1..(j - 1) : i \in 1..n /\ a[i] = q[i]
    BY <1>2
  <1>4. CASE j = n + 1
    <2>1. 1..(j - 1) = 1..Len(q)
      BY <1>1, <1>2, <1>4
    <2> QED BY <1>1, <1>3, <1>4, <2>1 DEF About, FirstOf
  <1>5. CASE j # n + 1
    <2>1. j \in 1..Len(q) /\ a[j] = q[j]
      BY <1>1, <1>2, <1>5
    <2> QED BY <1>3, <2>1 DEF FirstOf
  <1> QED BY <1>4, <1>5

(* The rest of a queue; the first chunk of it goes on where the head ended.         *)
LEMMA QueueTail ==
    ASSUME NEW q \in Seq(Messages), q # <<>>, NEW r \in Requests, Ordered(q, r), Gapless(q, r)
    PROVE  /\ Ordered(Tail(q), r) /\ Gapless(Tail(q), r)
           /\ \A j \in 1..Len(Tail(q)) :
                /\ j + 1 \in 1..Len(q) /\ Tail(q)[j] = q[j + 1]
                /\ FirstOf(Tail(q), r, j) =>
                     IF Head(q).req = r THEN Head(q).to + 1 = Tail(q)[j].from
                     ELSE FirstOf(q, r, j + 1)
  <1>1. PICK t : t = Tail(q)
    OBVIOUS
  <1>2. PICK n \in Nat : n = Len(q) - 1 /\ Len(q) = n + 1
    BY LenProperties, EmptySeq
  <1>3. /\ Len(t) = n /\ Head(q) = q[1] /\ \A i \in 1..n : t[i] = q[i + 1]
    BY <1>1, <1>2, HeadTailProperties
  <1>4. \A i \in 1..n : i + 1 \in 1..(n + 1)
    BY <1>2
  <1>5. Ordered(t, r)
    <2> SUFFICES ASSUME NEW i \in 1..n, NEW j \in 1..n, i < j, t[i].req = r, t[j].req = r
                 PROVE  t[i].to < t[j].from
      BY <1>3 DEF Ordered
    <2>1. i + 1 \in 1..Len(q) /\ j + 1 \in 1..Len(q) /\ i + 1 < j + 1
      BY <1>2
    <2> QED BY <1>3, <2>1 DEF Ordered
  <1>6. ASSUME NEW j \in 1..n, NEW i \in 1..j, q[i].req = r, t[j].req = r,
               q[i].to + 1 = t[j].from
        PROVE  \/ i = 1 /\ \A k \in 1..(j - 1) : t[k].req # r
               \/ \E k \in 1..(j - 1) : t[k].req = r /\ t[k].to + 1 = t[j].from
    <2>1. CASE i = 1
      <3>1. ASSUME NEW k \in 1..(j - 1), t[k].req = r PROVE FALSE
        <4>1. k \in 1..n /\ k + 1 \in 1..Len(q) /\ j + 1 \in 1..Len(q) /\ 1 \in 1..Len(q)
              /\ 1 < k + 1 /\ k + 1 < j + 1
          BY <1>2
        <4>2. t[k] = q[k + 1] /\ t[j] = q[j + 1]
          BY <1>3, <4>1
        <4>3. q[1].to < q[k + 1].from /\ q[k + 1].to < q[j + 1].from
          BY <1>6, <2>1, <3>1, <4>1, <4>2 DEF Ordered
        <4>4. q[1] \in Messages /\ q[k + 1] \in Messages
          BY <4>1, ElementOfSeq
        <4>5. /\ q[1].to \in Int /\ q[k + 1].to \in Int /\ q[k + 1].from \in Int
              /\ q[k + 1].from <= q[k + 1].to
          BY <1>6, <2>1, <3>1, <4>2, <4>4, MessageFacts
        <4> QED BY <1>6, <2>1, <4>2, <4>3, <4>5
      <3> QED BY <2>1, <3>1
    <2>2. CASE i # 1
      <3>1. i - 1 \in 1..(j - 1) /\ i - 1 \in 1..n /\ (i - 1) + 1 = i
        BY <2>2
      <3>2. t[i - 1] = q[i]
        BY <1>3, <3>1
      <3> QED BY <1>6, <3>1, <3>2
    <2> QED BY <2>1, <2>2
  <1>7. ASSUME NEW j \in 1..n, t[j].req = r
        PROVE  \/ \A i \in 1..j : q[i].req # r
               \/ \E i \in 1..j : q[i].req = r /\ q[i].to + 1 = t[j].from
    <2>1. j + 1 \in 1..Len(q) /\ t[j] = q[j + 1] /\ (j + 1) - 1 = j
      BY <1>2, <1>3
    <2> QED BY <1>7, <2>1 DEF Gapless
  <1>8. \A j \in 1..n : \A k \in 1..(j - 1) : k \in 1..n /\ k + 1 \in 1..j
    OBVIOUS
  <1>9. Gapless(t, r)
    <2> SUFFICES ASSUME NEW j \in 1..n, t[j].req = r
                 PROVE  \/ \A i \in 1..(j - 1) : t[i].req # r
                        \/ \E i \in 1..(j - 1) : t[i].req = r /\ t[i].to + 1 = t[j].from
      BY <1>3 DEF Gapless
    <2>1. CASE \A i \in 1..j : q[i].req # r
      BY <1>3, <1>8, <2>1
    <2>2. CASE \E i \in 1..j : q[i].req = r /\ q[i].to + 1 = t[j].from
      BY <1>6, <2>2
    <2> QED BY <1>7, <2>1, <2>2
  <1>10. ASSUME NEW j \in 1..n, FirstOf(t, r, j), q[1].req = r
         PROVE  q[1].to + 1 = t[j].from
    <2>1. 1 \in 1..j /\ t[j].req = r
      BY <1>10 DEF FirstOf
    <2>2. PICK i \in 1..j : q[i].req = r /\ q[i].to + 1 = t[j].from
      BY <1>7, <1>10, <2>1
    <2>3. i = 1
      BY <1>6, <1>10, <2>1, <2>2 DEF FirstOf
    <2> QED BY <2>2, <2>3
  <1>11. ASSUME NEW j \in 1..n, FirstOf(t, r, j), q[1].req # r
         PROVE  FirstOf(q, r, j + 1)
    <2>1. ASSUME NEW i \in 1..j PROVE q[i].req # r
      <3>1. CASE i = 1
        BY <1>11, <3>1
      <3>2. CASE i # 1
        <4>1. i - 1 \in 1..(j - 1) /\ i - 1 \in 1..n /\ (i - 1) + 1 = i
          BY <3>2
        <4> QED BY <1>3, <1>11, <4>1 DEF FirstOf
      <3> QED BY <3>1, <3>2
    <2>2. (j + 1) - 1 = j /\ q[j + 1] = t[j]
      BY <1>3
    <2> QED BY <1>11, <2>1, <2>2 DEF FirstOf
  <1> QED BY <1>1, <1>2, <1>3, <1>4, <1>5, <1>9, <1>10, <1>11

(* A piece of a queue from its beginning.                                        *)
LEMMA QueuePrefix ==
    ASSUME NEW q \in Seq(Messages), NEW n \in 0..Len(q), NEW r \in Requests,
           Ordered(q, r), Gapless(q, r)
    PROVE  /\ SubSeq(q, 1, n) \in Seq(Messages) /\ Len(SubSeq(q, 1, n)) = n
           /\ Ordered(SubSeq(q, 1, n), r) /\ Gapless(SubSeq(q, 1, n), r)
           /\ \A j \in 1..n : /\ j \in 1..Len(q) /\ SubSeq(q, 1, n)[j] = q[j]
                              /\ FirstOf(SubSeq(q, 1, n), r, j) => FirstOf(q, r, j)
  <1>1. PICK p : p = SubSeq(q, 1, n)
    OBVIOUS
  <1>2. Len(q) \in Nat /\ n \in Nat /\ \A i \in 1..n : i \in 1..Len(q)
    BY LenProperties
  <1>3. \A i \in 1..n : q[i] \in Messages
    BY <1>2, ElementOfSeq
  <1>4. /\ SubSeq(q, 1, n) \in Seq(Messages)
        /\ Len(SubSeq(q, 1, n)) = IF 1 <= n THEN n - 1 + 1 ELSE 0
        /\ \A i \in 1..(n - 1 + 1) : SubSeq(q, 1, n)[i] = q[1 + i - 1]
    BY <1>2, <1>3, SubSeqProperties
  <1>5. p \in Seq(Messages) /\ Len(p) = n /\ \A i \in 1..n : p[i] = q[i]
    <2>1. Len(p) = n
      BY <1>1, <1>2, <1>4
    <2>2. ASSUME NEW i \in 1..n PROVE p[i] = q[i]
      <3>1. i \in 1..(n - 1 + 1) /\ 1 + i - 1 = i
        BY <1>2
      <3> QED BY <1>1, <1>4, <3>1
    <2> QED BY <1>1, <1>4, <2>1, <2>2
  <1>6. \A j \in 1..n : \A i \in 1..(j - 1) : i \in 1..n
    BY <1>2
  <1>7. Ordered(p, r)
    BY <1>2, <1>5 DEF Ordered
  <1>8. Gapless(p, r)
    <2> SUFFICES ASSUME NEW j \in 1..n, p[j].req = r
                 PROVE  \/ \A i \in 1..(j - 1) : p[i].req # r
                        \/ \E i \in 1..(j - 1) : p[i].req = r /\ p[i].to + 1 = p[j].from
      BY <1>5 DEF Gapless
    <2>1. \/ \A i \in 1..(j - 1) : q[i].req # r
          \/ \E i \in 1..(j - 1) : q[i].req = r /\ q[i].to + 1 = q[j].from
      BY <1>2, <1>5 DEF Gapless
    <2> QED BY <1>5, <1>6, <2>1
  <1>9. \A j \in 1..n : FirstOf(p, r, j) => FirstOf(q, r, j)
    BY <1>5, <1>6 DEF FirstOf
  <1> QED BY <1>1, <1>2, <1>5, <1>7, <1>8, <1>9

---------------------------------------------------------------------------
(* The invariants.                                                          *)

StreamOK(x, w) ==
    /\ x \in [state : Running \cup {"none", "gone"},
              read : 0..MaxLine, taken : 0..MaxLine, sent : 0..MaxLine]
    /\ x.sent <= x.taken /\ x.taken <= x.read /\ x.read <= w
    /\ x.taken - x.sent < Batch /\ x.read - x.taken <= 2 * Batch

(* LogViewTypeOK with the contents of the queues and of the view.                 *)
TypeInv ==
    /\ written \in 0..MaxLine
    /\ stream \in [Requests ->
         [state : Running \cup {"none", "gone"},
          read : 0..MaxLine, taken : 0..MaxLine, sent : 0..MaxLine]]
    /\ \A r \in Requests : StreamOK(stream[r], written)
    /\ conn \in Sockets \cup {0} /\ route \in Sockets \cup {0}
    /\ known \in [Sockets -> SocketStates] /\ strays \subseteq Requests
    /\ up \in [Sockets -> Seq(Messages)] /\ down \in Seq(Orders)
    /\ starting \subseteq Requests /\ subs \subseteq Requests /\ sse \subseteq Requests
    /\ ViewOK(view)

(* The stream of r belongs to the present connection.                             *)
Active(r) == conn # 0 /\ stream[r].state \in Running \ {"orphaned"}

(* Without a connection every stream is over or was closed with its session.          *)
Parked(r) == conn = 0 => stream[r].state \in {"none", "orphaned", "gone"}

(* A chunk is of a stream that has begun.                                         *)
Begun(r, s) == About(up[s], r) => stream[r].state # "none"

(* The chunks of r on a socket: in order, gapless, none beyond what was sent.        *)
QueueOK(r, s) ==
    /\ Ordered(up[s], r) /\ Gapless(up[s], r)
    /\ \A i \in 1..Len(up[s]) : up[s][i].req = r => up[s][i].to <= stream[r].sent

(* They are all on one socket, the present one while the stream belongs to it; and the *)
(* last line sent is still on its way when any is.                                *)
OneSocket(r, s) ==
    About(up[s], r) =>
        /\ \A t \in Sockets : About(up[t], r) => s = t
        /\ Active(r) => /\ s = conn
                        /\ \E i \in 1..Len(up[s]) :
                             up[s][i].req = r /\ up[s][i].to = stream[r].sent

(* This holds of every request but those of which a batch went astray.               *)
ChunksInv ==
    \A r \in Requests, s \in Sockets :
        /\ Parked(r) /\ Begun(r, s)
        /\ r \notin strays => QueueOK(r, s) /\ OneSocket(r, s)

(* Nothing has happened yet for a request that is about to be made.                 *)
Fresh(r) == stream[r].state = "none" /\ r \notin subs /\ ~About(down, r)

FreshInv ==
    /\ \A r \in starting : Fresh(r)
    /\ view.link = "asking" => view.req \notin starting /\ Fresh(view.req)
    /\ view.req \in Requests /\ stream[view.req].state = "none"
         => view.entries = <<>> /\ view.buffer = <<>>

(* While a view follows its stream, the first chunk on its way goes on where the      *)
(* view ends, and with none on its way the view ends where the stream does.          *)
Follows(r) == Viewed(r) /\ r \in subs /\ r \in sse /\ r \notin strays

ReachInv ==
    \A r \in Requests : Follows(r) =>
        /\ \A s \in Sockets : \A j \in 1..Len(up[s]) :
             FirstOf(up[s], r, j) => EndsWith(view, up[s][j].from - 1)
        /\ Active(r) /\ ~About(up[conn], r) => EndsWith(view, stream[r].sent)

ScreenInv == view.req \notin strays => Screen(view)

LogViewInv == TypeInv /\ ChunksInv /\ FreshInv /\ ReachInv /\ ScreenInv

---------------------------------------------------------------------------
(* The steps of a stream have one shape: the stream moves on, and what it gives up    *)
(* goes to the end of the present connection's queue, or is lost without one.         *)
Moves(r, y) ==
    /\ stream' = [stream EXCEPT ![r] = y] /\ stream[r].state \in Running
    /\ StreamOK(y, written) /\ stream[r].sent <= y.sent
    /\ \/ y.state \in {stream[r].state, "gone"}
       \/ stream[r].state = "open" /\ y.state \in {"ended", "failed"}
    /\ \/ UNCHANGED <<up, strays>> /\ (conn = 0 \/ y.sent = stream[r].sent)
       \/ /\ conn # 0 /\ stream[r].sent < y.sent
          /\ up' = [up EXCEPT ![conn] = Append(@, Chunk(r, stream[r].sent + 1, y.sent))]
          /\ strays' = IF stream[r].state = "orphaned" THEN strays \cup {r} ELSE strays
    /\ UNCHANGED <<written, conn, known, route, down, serverVars, view>>

LEMMA StreamStepMoves ==
    ASSUME TypeInv, NEW r \in Requests, StreamStep(r)
    PROVE  \E y : Moves(r, y)
  <1>1. PICK x : x = stream[r]
    OBVIOUS
  <1>2. /\ x \in [state : Running \cup {"none", "gone"},
                  read : 0..MaxLine, taken : 0..MaxLine, sent : 0..MaxLine]
        /\ x.sent <= x.taken /\ x.taken <= x.read /\ x.read <= written
        /\ x.taken - x.sent < Batch /\ x.read - x.taken <= 2 * Batch
        /\ written \in 0..MaxLine /\ MaxLine \in Nat /\ Batch \in Nat \ {0}
    BY <1>1, LogViewAssumption DEF TypeInv, StreamOK
  <1>3. CASE Decode(r)
    <2>1. PICK y : y = [x EXCEPT !.read = @ + 1]
      OBVIOUS
    <2>2. /\ x.state = "open" /\ x.read < written /\ x.read - x.taken < 2 * Batch
          /\ StreamSteps(r, y) /\ UNCHANGED <<up, strays>>
      BY <1>1, <1>3, <2>1 DEF Decode
    <2>3. y.read = x.read + 1 /\ y.taken = x.taken /\ y.sent = x.sent /\ y.state = x.state
      BY <1>2, <2>1
    <2>4. StreamOK(y, written)
      BY <1>2, <2>1, <2>2, <2>3 DEF StreamOK
    <2>5. x.sent <= y.sent /\ x.state \in Running
      BY <1>2, <2>2, <2>3 DEF Running
    <2> QED BY <1>1, <2>2, <2>3, <2>4, <2>5 DEF Moves, StreamSteps
  <1>4. CASE DockerEnds(r)
    <2>1. PICK y : y \in {[x EXCEPT !.state = "ended"], [x EXCEPT !.state = "failed"]}
                   /\ StreamSteps(r, y)
      BY <1>1, <1>4 DEF DockerEnds
    <2>2. x.state = "open" /\ UNCHANGED <<up, strays>>
      BY <1>1, <1>4 DEF DockerEnds
    <2>3. /\ y.read = x.read /\ y.taken = x.taken /\ y.sent = x.sent
          /\ y.state \in {"ended", "failed"}
      BY <1>2, <2>1
    <2>4. StreamOK(y, written)
      BY <1>2, <2>1, <2>3 DEF StreamOK, Running
    <2>5. x.sent <= y.sent /\ x.state \in Running
      BY <1>2, <2>2, <2>3 DEF Running
    <2> QED BY <1>1, <2>1, <2>2, <2>3, <2>4, <2>5 DEF Moves, StreamSteps
  <1>5. ASSUME NEW z, z.sent = x.sent, z.taken \in {x.taken, x.taken + 1}, z.taken <= x.read,
               z \in [state : Running, read : 0..MaxLine, taken : 0..MaxLine, sent : 0..MaxLine],
               z.read = x.read, z.state = x.state, Emit(r, z),
               \/ StreamSteps(r, Flushed(z))
               \/ StreamSteps(r, [Flushed(z) EXCEPT !.state = "gone"])
        PROVE  \E y : Moves(r, y)
    <2>1. PICK y : y \in {Flushed(z), [Flushed(z) EXCEPT !.state = "gone"]} /\ StreamSteps(r, y)
      BY <1>5
    <2>2. /\ y.read = x.read /\ y.taken = z.taken /\ y.sent = z.taken
          /\ y.state \in {x.state, "gone"} /\ x.state \in Running
      BY <1>5, <2>1 DEF Flushed
    <2>3. y \in [state : Running \cup {"none", "gone"},
                 read : 0..MaxLine, taken : 0..MaxLine, sent : 0..MaxLine]
      BY <1>5, <2>1 DEF Flushed
    <2>4. StreamOK(y, written)
      BY <1>2, <1>5, <2>2, <2>3 DEF StreamOK
    <2>5. x.sent <= y.sent /\ (y.sent # x.sent => x.sent < y.sent)
      BY <1>2, <1>5, <2>2
    <2>6. \/ UNCHANGED <<up, strays>> /\ (conn = 0 \/ y.sent = x.sent)
          \/ /\ conn # 0 /\ x.sent < y.sent
             /\ up' = [up EXCEPT ![conn] = Append(@, Chunk(r, x.sent + 1, y.sent))]
             /\ strays' = IF x.state = "orphaned" THEN strays \cup {r} ELSE strays
      BY <1>5, <2>2, <2>5 DEF Emit
    <2> QED BY <1>1, <2>1, <2>2, <2>4, <2>5, <2>6 DEF Moves, StreamSteps
  <1>6. CASE TakeEntry(r)
    <2>1. PICK z : z = [x EXCEPT !.taken = @ + 1]
      OBVIOUS
    <2>2. /\ x.state \in Running /\ x.taken < x.read
          /\ \/ z.taken - z.sent = Batch /\ Emit(r, z) /\ StreamSteps(r, Flushed(z))
             \/ z.taken - z.sent # Batch /\ UNCHANGED <<up, strays>> /\ StreamSteps(r, z)
      BY <1>1, <1>6, <2>1 DEF TakeEntry
    <2>3. z.read = x.read /\ z.taken = x.taken + 1 /\ z.sent = x.sent /\ z.state = x.state
      BY <1>2, <2>1
    <2>4. z \in [state : Running, read : 0..MaxLine, taken : 0..MaxLine, sent : 0..MaxLine]
      BY <1>2, <2>1, <2>2
    <2>5. CASE Emit(r, z) /\ StreamSteps(r, Flushed(z))
      <3>1. z.taken <= x.read
        BY <1>2, <2>2, <2>3
      <3> QED BY <1>5, <2>3, <2>4, <2>5, <3>1
    <2>6. CASE z.taken - z.sent # Batch /\ UNCHANGED <<up, strays>> /\ StreamSteps(r, z)
      <3>1. StreamOK(z, written)
        BY <1>2, <2>2, <2>3, <2>4, <2>6 DEF StreamOK
      <3>2. x.sent <= z.sent
        BY <1>2, <2>3
      <3> QED BY <1>1, <2>2, <2>3, <2>6, <3>1, <3>2 DEF Moves, StreamSteps
    <2> QED BY <2>2, <2>5, <2>6
  <1>7. CASE Tick(r)
    <2>1. x.state \in Running /\ Emit(r, x) /\ StreamSteps(r, Flushed(x))
      BY <1>1, <1>7 DEF Tick
    <2>2. x \in [state : Running, read : 0..MaxLine, taken : 0..MaxLine, sent : 0..MaxLine]
      BY <1>2, <2>1
    <2> QED BY <1>2, <1>5, <2>1, <2>2
  <1>8. CASE RunReturns(r)
    <2>1. /\ x.state \in Running /\ Emit(r, x)
          /\ StreamSteps(r, [Flushed(x) EXCEPT !.state = "gone"])
      BY <1>1, <1>8 DEF RunReturns, Running
    <2>2. x \in [state : Running, read : 0..MaxLine, taken : 0..MaxLine, sent : 0..MaxLine]
      BY <1>2, <2>1
    <2> QED BY <1>2, <1>5, <2>1, <2>2
  <1> QED BY <1>3, <1>4, <1>6, <1>7, <1>8 DEF StreamStep

(* A chunk that a stream sends.                                                 *)
LEMMA SentChunk ==
    ASSUME TypeInv, NEW r \in Requests, NEW y, Moves(r, y), stream[r].sent < y.sent
    PROVE  Chunk(r, stream[r].sent + 1, y.sent) \in Chunks
  BY LogViewAssumption DEF TypeInv, StreamOK, Moves, Chunks, Chunk

(* The other handlers leave a stream as it is, open it, end it, or begin to close it. *)
LEMMA ClosingFacts ==
    ASSUME NEW x, NEW w, StreamOK(x, w)
    PROVE  /\ StreamOK(Closing(x), w) /\ Closing(x).sent = x.sent
           /\ Closing(x).state \in {x.state, "closing"}
           /\ Closing(x).state = "closing" <=> x.state \in Running \ {"orphaned"}
           /\ StreamOK(Orphaned(x), w) /\ Orphaned(x).sent = x.sent
           /\ Orphaned(x).state = IF x.state \in Running THEN "orphaned" ELSE x.state
  <1>1. /\ StreamOK(Closing(x), w) /\ Closing(x).sent = x.sent
        /\ Closing(x).state \in {x.state, "closing"}
        /\ Closing(x).state = "closing" <=> x.state \in Running \ {"orphaned"}
    BY DEF Closing, StreamOK, Running
  <1>2. /\ StreamOK(Orphaned(x), w) /\ Orphaned(x).sent = x.sent
        /\ Orphaned(x).state = IF x.state \in Running THEN "orphaned" ELSE x.state
    BY DEF Orphaned, StreamOK, Running
  <1> QED BY <1>1, <1>2

LEMMA OpenedFacts ==
    ASSUME TypeInv
    PROVE  StreamOK(Opened, written) /\ Opened.state = "open"
  <1>1. /\ written \in 0..MaxLine /\ MaxLine \in Nat /\ LogTail \in Nat \ {0} /\ Batch \in Nat \ {0}
    BY LogViewAssumption DEF TypeInv
  <1>2. PICK at : at = IF written > LogTail THEN written - LogTail ELSE 0
    OBVIOUS
  <1>3. at \in 0..MaxLine /\ at <= written
    BY <1>1, <1>2
  <1>4. Opened = [state |-> "open", read |-> at, taken |-> at, sent |-> at]
    BY <1>2 DEF Opened
  <1> QED BY <1>1, <1>3, <1>4 DEF StreamOK, Running

---------------------------------------------------------------------------
(* Types.                                                                   *)

LEMMA EmptyView == ViewOK(NoView)
  BY EmptySeq, LogViewAssumption DEF NoView, ViewOK, View

(* The handlers of the browser that replace the view.                           *)
LEMMA ViewSteps ==
    ASSUME ViewOK(view), NEW v
    PROVE  /\ v = Failed => ViewOK(v) /\ v.link = "done" /\ v.req = view.req
                            /\ v.entries = view.entries /\ v.buffer = view.buffer
                            /\ v.paused = view.paused
           /\ v = [view EXCEPT !.paused = TRUE, !.status = "paused"] =>
                ViewOK(v) /\ v.link = view.link /\ v.req = view.req /\ v.paused
                /\ v.entries = view.entries /\ v.buffer = view.buffer
           /\ \A n \in Nat : v = [view EXCEPT !.entries = <<>>, !.buffer = <<>>, !.cleared = n] =>
                ViewOK(v) /\ v.link = view.link /\ v.req = view.req
                /\ v.entries = <<>> /\ v.buffer = <<>>
           /\ (view.req \in Requests /\
               v = [view EXCEPT !.link = "open",
                                !.status = IF view.paused THEN "paused" ELSE "live"]) =>
                ViewOK(v) /\ v.link = "open" /\ v.req = view.req
                /\ v.entries = view.entries /\ v.buffer = view.buffer
                /\ v.paused = view.paused
           /\ \A r \in Requests :
                v = [NoView EXCEPT !.req = r, !.link = "asking", !.paused = view.paused] =>
                  ViewOK(v) /\ v.link = "asking" /\ v.req = r
                  /\ v.entries = <<>> /\ v.buffer = <<>>
  <1>1. /\ <<>> \in Seq(Nat) /\ Len(<<>>) = 0 /\ 0 <= Keep /\ None \notin Requests
        /\ view.paused \in BOOLEAN /\ view \in View /\ Len(view.entries) <= Keep
        /\ Len(view.buffer) <= Keep
        /\ view.link \in {"asking", "open"} => view.req \in Requests
    BY EmptySeq, LogViewAssumption DEF ViewOK, View
  <1>2. v = Failed => ViewOK(v) /\ v.link = "done" /\ v.req = view.req
                      /\ v.entries = view.entries /\ v.buffer = view.buffer
                      /\ v.paused = view.paused
    BY <1>1 DEF ViewOK, View, Failed
  <1>3. v = [view EXCEPT !.paused = TRUE, !.status = "paused"] =>
          ViewOK(v) /\ v.link = view.link /\ v.req = view.req /\ v.paused
          /\ v.entries = view.entries /\ v.buffer = view.buffer
    BY <1>1 DEF ViewOK, View
  <1>4. ASSUME NEW n \in Nat, v = [view EXCEPT !.entries = <<>>, !.buffer = <<>>, !.cleared = n]
        PROVE  ViewOK(v) /\ v.link = view.link /\ v.req = view.req
               /\ v.entries = <<>> /\ v.buffer = <<>>
    BY <1>1, <1>4 DEF ViewOK, View
  <1>5. PICK st \in {"live", "paused"} : st = IF view.paused THEN "paused" ELSE "live"
    OBVIOUS
  <1>6. ASSUME view.req \in Requests, v = [view EXCEPT !.link = "open", !.status = st]
        PROVE  ViewOK(v) /\ v.link = "open" /\ v.req = view.req
               /\ v.entries = view.entries /\ v.buffer = view.buffer
               /\ v.paused = view.paused
    BY <1>1, <1>6 DEF ViewOK, View
  <1>7. ASSUME NEW r \in Requests,
               v = [NoView EXCEPT !.req = r, !.link = "asking", !.paused = view.paused]
        PROVE  ViewOK(v) /\ v.link = "asking" /\ v.req = r
               /\ v.entries = <<>> /\ v.buffer = <<>>
    BY <1>1, <1>7 DEF NoView, ViewOK, View
  <1> QED BY <1>2, <1>3, <1>4, <1>5, <1>6, <1>7

LEMMA ClearedView ==
    ASSUME ViewOK(view), Clear
    PROVE  /\ ViewOK(view') /\ view'.link = view.link /\ view'.req = view.req
           /\ view'.entries = <<>> /\ view'.buffer = <<>>
           /\ UNCHANGED <<agentVars, wireVars, serverVars>>
  <1>1. PICK u : u = view.entries \o view.buffer /\ u \in Seq(Nat)
    BY ConcatProperties DEF ViewOK, View
  <1>2. /\ u # <<>> /\ UNCHANGED <<agentVars, wireVars, serverVars>>
        /\ view' = [view EXCEPT !.entries = <<>>, !.buffer = <<>>, !.cleared = u[Len(u)]]
    BY <1>1 DEF Clear, Shows
  <1>3. u[Len(u)] \in Nat
    <2>1. Len(u) \in Nat \ {0}
      BY <1>1, <1>2, EmptySeq, LenProperties
    <2>2. Len(u) \in 1..Len(u)
      BY <2>1
    <2> QED BY <1>1, <2>2, ElementOfSeq
  <1>4. PICK n \in Nat : n = u[Len(u)]
    BY <1>3
  <1>5. PICK v : v = view'
    OBVIOUS
  <1>6. v = [view EXCEPT !.entries = <<>>, !.buffer = <<>>, !.cleared = n]
    BY <1>2, <1>4, <1>5
  <1> QED BY <1>2, <1>5, <1>6, ViewSteps

LEMMA TypeInitially == LogViewInit => TypeInv
  <1> SUFFICES ASSUME LogViewInit PROVE TypeInv
    OBVIOUS
  <1>1. StreamOK(NoStream, 0)
    BY LogViewAssumption DEF StreamOK, NoStream, Running
  <1>2. <<>> \in Seq(Messages) /\ <<>> \in Seq(Orders)
    BY EmptySeq
  <1>3. ViewOK(view)
    BY EmptyView DEF LogViewInit
  <1>4. 0 \in 0..MaxLine
    BY LogViewAssumption
  <1> QED BY <1>1, <1>2, <1>3, <1>4 DEF LogViewInit, TypeInv, StreamOK, SocketStates

LEMMA TypeStep ==
    ASSUME TypeInv, [LogViewNext]_vars
    PROVE  TypeInv'
  <1> USE DEF TypeInv
  <1>1. ASSUME NEW r \in Requests, NEW y, Moves(r, y) PROVE TypeInv'
    <2>1. \A q \in Requests : StreamOK(stream'[q], written)
      BY <1>1 DEF Moves
    <2>2. up' \in [Sockets -> Seq(Messages)]
      <3>1. CASE up' = up
        BY <3>1
      <3>2. CASE /\ conn # 0 /\ stream[r].sent < y.sent
                 /\ up' = [up EXCEPT ![conn] = Append(@, Chunk(r, stream[r].sent + 1, y.sent))]
        <4>1. PICK m : m = Chunk(r, stream[r].sent + 1, y.sent)
          OBVIOUS
        <4>2. m \in Messages
          BY <1>1, <3>2, <4>1, SentChunk DEF Messages
        <4>3. Append(up[conn], m) \in Seq(Messages)
          BY <3>2, <4>2, AppendProperties
        <4> QED BY <3>2, <4>1, <4>3
      <3> QED BY <1>1, <3>1, <3>2 DEF Moves
    <2>3. strays' \subseteq Requests
      BY <1>1 DEF Moves
    <2> QED BY <1>1, <2>1, <2>2, <2>3 DEF Moves, StreamOK, serverVars
  <1>2. CASE Write
    <2>1. written' \in 0..MaxLine /\ written' = written + 1
      BY <1>2, LogViewAssumption DEF Write
    <2>2. \A r \in Requests : StreamOK(stream[r], written')
      BY <2>1, LogViewAssumption DEF StreamOK
    <2> QED BY <1>2, <2>1, <2>2 DEF Write, wireVars, serverVars
  <1>3. CASE HandleLogs
    <2>1. PICK m : m = Head(down) /\ m \in Orders /\ down' \in Seq(Orders)
      BY <1>3, HeadTailProperties DEF HandleLogs
    <2>2. PICK r \in Requests : r = m.req
      BY <2>1 DEF Orders
    <2>3. /\ \/ stream[r].state = "none" /\ stream' = [stream EXCEPT ![r] = Opened]
             \/ stream[r].state = "none" /\ stream' = [stream EXCEPT ![r].state = "gone"]
             \/ stream' = [stream EXCEPT ![r] = Closing(stream[r])]
          /\ UNCHANGED <<written, conn, strays, up, known, route, serverVars, view>>
      BY <1>3, <2>1, <2>2 DEF HandleLogs
    <2>4. PICK g : g = [stream[r] EXCEPT !.state = "gone"]
      OBVIOUS
    <2>5. StreamOK(g, written)
      BY <2>4 DEF StreamOK
    <2>6. StreamOK(Opened, written) /\ StreamOK(Closing(stream[r]), written)
      BY OpenedFacts, ClosingFacts
    <2>7. PICK y : StreamOK(y, written) /\ stream' = [stream EXCEPT ![r] = y]
      BY <2>3, <2>4, <2>5, <2>6
    <2>8. \A q \in Requests : StreamOK(stream'[q], written)
      BY <2>7
    <2> QED BY <2>1, <2>3, <2>7, <2>8 DEF StreamOK, serverVars
  <1>4. CASE Connect
    <2>1. PICK s \in Sockets :
            /\ conn' = s /\ known' = [known EXCEPT ![s] = "dialled"]
            /\ up' = [up EXCEPT ![s] = <<>>]
      BY <1>4 DEF Connect
    <2>2. <<>> \in Seq(Messages)
      BY EmptySeq
    <2> QED BY <1>4, <2>1, <2>2 DEF Connect, SocketStates, serverVars
  <1>20. CASE SendRegister
    <2>1. Append(up[conn], Register) \in Seq(Messages)
      BY <1>20, RegisterFacts, AppendProperties DEF SendRegister
    <2> QED BY <1>20, <2>1 DEF SendRegister, SocketStates, agentVars, serverVars
  <1>5. CASE SessionEnds
    <2>1. PICK n \in 0..Len(up[conn]) : up' = [up EXCEPT ![conn] = SubSeq(up[conn], 1, n)]
      BY <1>5 DEF SessionEnds
    <2>2. up[conn] \in Seq(Messages) /\ Len(up[conn]) \in Nat
      BY <1>5, LenProperties DEF SessionEnds
    <2>3. SubSeq(up[conn], 1, n) \in Seq(Messages)
      <3>1. \A i \in 1..n : up[conn][i] \in Messages
        BY <2>2, ElementOfSeq
      <3> QED BY <2>2, <3>1, SubSeqProperties
    <2>4. \A r \in Requests : StreamOK(stream'[r], written)
      BY <1>5, ClosingFacts DEF SessionEnds
    <2>5. stream' \in [Requests -> [state : Running \cup {"none", "gone"},
                        read : 0..MaxLine, taken : 0..MaxLine, sent : 0..MaxLine]]
      BY <1>5, <2>4 DEF SessionEnds, StreamOK
    <2>6. down' \in Seq(Orders)
      BY <1>5, EmptySeq DEF SessionEnds
    <2> QED BY <1>5, <2>1, <2>2, <2>3, <2>4, <2>5, <2>6 DEF SessionEnds, serverVars
  <1>6. ASSUME NEW s \in Sockets, SocketClosed(s) PROVE TypeInv'
    BY <1>6 DEF SocketClosed, SocketStates, agentVars
  <1>7. ASSUME ViewOK(view'), UNCHANGED <<agentVars, wireVars, serverVars>> PROVE TypeInv'
    BY <1>7 DEF agentVars, wireVars, serverVars
  <1>8. ASSUME NEW r \in Requests, Subscribe(r) PROVE TypeInv'
    BY <1>7, <1>8, ViewSteps DEF Subscribe, Shows
  <1>9. CASE TogglePause
    BY <1>7, <1>9, ViewSteps, ResumedView DEF TogglePause, Shows
  <1>10. CASE Clear
    BY <1>7, <1>10, ClearedView
  <1>11. CASE Leave
    BY <1>7, <1>11, EmptyView DEF Leave, Shows
  <1>12. CASE ResponseEnds
    BY <1>7, <1>12, ViewSteps DEF ResponseEnds, Shows
  <1>13. CASE StreamLogs
    <2>1. view.req \in Requests
      BY <1>13 DEF StreamLogs, ViewOK
    <2>2. ViewOK(view')
      BY <1>13, <2>1, ViewSteps DEF StreamLogs
    <2> QED BY <1>13, <2>1, <2>2 DEF StreamLogs, agentVars, wireVars
  <1>14. ASSUME NEW r \in Requests, StartLogStream(r) PROVE TypeInv'
    <2>1. Append(down, Tell("subscribe", r)) \in Seq(Orders)
      <3>1. Tell("subscribe", r) \in Orders
        BY DEF Tell, Orders
      <3> QED BY <3>1, AppendProperties
    <2>2. ViewOK(view')
      BY <1>14, ViewSteps DEF StartLogStream
    <2> QED BY <1>14, <2>1, <2>2 DEF StartLogStream, agentVars
  <1>15. ASSUME NEW r \in Requests, Teardown(r) PROVE TypeInv'
    <2>1. Append(down, Tell("unsubscribe", r)) \in Seq(Orders)
      <3>1. Tell("unsubscribe", r) \in Orders
        BY DEF Tell, Orders
      <3> QED BY <3>1, AppendProperties
    <2> QED BY <1>15, <2>1 DEF Teardown, agentVars
  <1>16. ASSUME NEW s \in Sockets, Receive(s) PROVE TypeInv'
    <2>1. Tail(up[s]) \in Seq(Messages)
      BY <1>16, HeadTailProperties DEF Receive
    <2>2. ViewOK(view')
      <3>1. PICK m : m = Head(up[s]) /\ m \in Messages
        BY <1>16, HeadTailProperties DEF Receive
      <3>2. \/ view' = view
            \/ m.req \in subs /\ m # Register /\ view' = Push(Lines(m.from, m.to))
        BY <1>16, <3>1 DEF Receive
      <3>3. ASSUME m.req \in subs, m # Register, view' = Push(Lines(m.from, m.to))
            PROVE  ViewOK(view')
        <4>1. m.from \in Nat /\ m.to \in Nat /\ m.from <= m.to
          BY <3>1, <3>3, MessageFacts
        <4> QED BY <3>3, <4>1, PushedView
      <3> QED BY <3>2, <3>3
    <2> QED BY <1>16, <2>1, <2>2 DEF Receive, SocketStates, agentVars, serverVars
  <1>17. CASE UNCHANGED vars
    BY <1>17 DEF vars, agentVars, wireVars, serverVars
  <1>18. \A r \in Requests : StreamStep(r) => TypeInv'
    BY <1>1, StreamStepMoves
  <1> QED
    BY <1>2, <1>3, <1>4, <1>5, <1>6, <1>8, <1>9, <1>10, <1>11, <1>12, <1>13, <1>14, <1>15,
       <1>16, <1>17, <1>18, <1>20 DEF LogViewNext

---------------------------------------------------------------------------
(* The queues of chunks under every step.                                        *)

LEMMA ChunksAfterMove ==
    ASSUME TypeInv, ChunksInv, NEW r \in Requests, NEW y, Moves(r, y)
    PROVE  ChunksInv'
  <1> SUFFICES ASSUME NEW q \in Requests, NEW s \in Sockets
               PROVE  /\ Parked(q)' /\ Begun(q, s)'
                      /\ q \notin strays' => QueueOK(q, s)' /\ OneSocket(q, s)'
    BY DEF ChunksInv
  <1>1. /\ stream'[q] = IF q = r THEN y ELSE stream[q]
        /\ conn' = conn /\ stream[r].state \in Running /\ stream[r].sent <= y.sent
        /\ \A x \in Requests : stream[x].sent \in Int
        /\ y.sent \in Int
    BY DEF Moves, TypeInv, StreamOK
  <1>2. /\ Parked(q) /\ \A t \in Sockets : Begun(q, t)
        /\ q \notin strays => \A t \in Sockets : QueueOK(q, t) /\ OneSocket(q, t)
        /\ strays \subseteq strays'
    BY DEF ChunksInv, Moves
  <1>3. /\ y.state # "none"
        /\ conn = 0 /\ q = r => y.state \in {"orphaned", "gone"}
        /\ q = r => stream[q].state # "none"
        /\ y.state \in Running \ {"orphaned"} => stream[r].state \in Running \ {"orphaned"}
    BY <1>2 DEF Moves, Parked, Running
  <1>4. Parked(q)'
    BY <1>1, <1>2, <1>3 DEF Parked
  <1>5. \A t \in Sockets : up[t] \in Seq(Messages)
    BY DEF TypeInv
  <1>6. \A t \in Sockets : \A i \in 1..Len(up[t]) :
          up[t][i].req = q => up[t][i].to \in Int /\ up[t][i].from \in Int
    <2> SUFFICES ASSUME NEW t \in Sockets, NEW i \in 1..Len(up[t]), up[t][i].req = q
                 PROVE  up[t][i].to \in Int /\ up[t][i].from \in Int
      OBVIOUS
    <2>1. up[t][i] \in Messages
      BY <1>5, ElementOfSeq
    <2> QED BY <2>1, MessageFacts
  <1>9. Begun(q, s)'
    <2>1. CASE up' = up
      BY <1>1, <1>2, <1>3, <2>1 DEF Begun
    <2>2. CASE /\ conn # 0 /\ stream[r].sent < y.sent
               /\ up' = [up EXCEPT ![conn] = Append(@, Chunk(r, stream[r].sent + 1, y.sent))]
      <3>1. PICK m : m = Chunk(r, stream[r].sent + 1, y.sent)
        OBVIOUS
      <3>2. m \in Messages /\ m.req = r
        BY <2>2, <3>1, SentChunk DEF Chunk, Messages
      <3>3. conn \in Sockets /\ up[conn] \in Seq(Messages)
        BY <2>2 DEF TypeInv
      <3>4. About(Append(up[conn], m), q) <=> About(up[conn], q) \/ q = r
        BY <3>2, <3>3, AboutAppend
      <3>5. About(up'[s], q) => About(up[s], q) \/ q = r
        BY <2>2, <3>1, <3>3, <3>4 DEF TypeInv
      <3> QED BY <1>1, <1>2, <1>3, <3>5 DEF Begun
    <2> QED BY <2>1, <2>2 DEF Moves
  <1>10. SUFFICES ASSUME q \notin strays' PROVE QueueOK(q, s)' /\ OneSocket(q, s)'
    BY <1>4, <1>9
  <1>11. q \notin strays
    BY <1>2, <1>10
  <1>7. CASE up' = up /\ (conn = 0 \/ y.sent = stream[r].sent)
    <2>1. QueueOK(q, s)'
      BY <1>1, <1>2, <1>11, <1>6, <1>7 DEF QueueOK
    <2>2. Active(q)' => Active(q) /\ stream'[q].sent = stream[q].sent
      BY <1>1, <1>3, <1>7 DEF Active
    <2>3. OneSocket(q, s)'
      BY <1>1, <1>2, <1>11, <1>3, <1>7, <2>2 DEF OneSocket
    <2> QED BY <2>1, <2>3
  <1>8. CASE /\ conn # 0 /\ stream[r].sent < y.sent
             /\ up' = [up EXCEPT ![conn] = Append(@, Chunk(r, stream[r].sent + 1, y.sent))]
             /\ strays' = IF stream[r].state = "orphaned" THEN strays \cup {r} ELSE strays
    <2>1. PICK m : m = Chunk(r, stream[r].sent + 1, y.sent)
      OBVIOUS
    <2>2. /\ m \in Chunks /\ m \in Messages /\ m.req = r
          /\ m.from = stream[r].sent + 1 /\ m.to = y.sent
      BY <1>8, <2>1, SentChunk DEF Chunk, Messages
    <2>3. conn \in Sockets /\ up[conn] \in Seq(Messages)
      BY <1>8 DEF TypeInv
    <2>4. \A t \in Sockets : up'[t] = IF t = conn THEN Append(up[conn], m) ELSE up[t]
      BY <1>8, <2>1, <2>3 DEF TypeInv
    <2>5. q = r => Active(r)
      BY <1>1, <1>8, <1>10 DEF Active
    <2>6. q = r => /\ \A i \in 1..Len(up[conn]) : up[conn][i].req = r => up[conn][i].to < m.from
                   /\ About(up[conn], r) =>
                        \E i \in 1..Len(up[conn]) : up[conn][i].req = r /\ up[conn][i].to + 1 = m.from
      BY <1>1, <1>2, <1>11, <1>6, <2>2, <2>3, <2>5 DEF QueueOK, OneSocket
    <2>7. PICK a : a = Append(up[conn], m)
      OBVIOUS
    <2>8. Ordered(a, q) /\ Gapless(a, q)
      <3>1. Ordered(up[conn], q) /\ Gapless(up[conn], q)
        BY <1>2, <1>11, <2>3 DEF QueueOK
      <3> QED BY <2>2, <2>3, <2>6, <2>7, <3>1, AppendedQueue
    <2>9. /\ Len(a) = Len(up[conn]) + 1 /\ a[Len(up[conn]) + 1] = m
          /\ \A i \in 1..Len(up[conn]) : a[i] = up[conn][i]
          /\ Len(up[conn]) \in Nat
      BY <2>2, <2>3, <2>7, AppendProperties, LenProperties
    <2>10. \A i \in 1..Len(a) : a[i].req = q => a[i].to <= stream'[q].sent
      <3> SUFFICES ASSUME NEW i \in 1..Len(a), a[i].req = q PROVE a[i].to <= stream'[q].sent
        OBVIOUS
      <3>1. CASE i = Len(up[conn]) + 1
        BY <1>1, <2>2, <2>9, <3>1
      <3>2. CASE i # Len(up[conn]) + 1
        <4>1. i \in 1..Len(up[conn]) /\ a[i] = up[conn][i]
          BY <2>9, <3>2
        <4>2. up[conn][i].to <= stream[q].sent /\ up[conn][i].to \in Int
          BY <1>2, <1>11, <1>6, <2>3, <4>1 DEF QueueOK
        <4> QED BY <1>1, <4>1, <4>2
      <3> QED BY <3>1, <3>2
    <2>11. QueueOK(q, s)'
      <3>1. CASE s = conn
        BY <2>4, <2>7, <2>8, <2>10, <3>1 DEF QueueOK
      <3>2. CASE s # conn
        BY <1>1, <1>2, <1>11, <1>6, <2>4, <3>2 DEF QueueOK
      <3> QED BY <3>1, <3>2
    <2>12. \A t \in Sockets : About(up'[t], q) <=> About(up[t], q) \/ (t = conn /\ q = r)
      <3>1. About(a, q) <=> About(up[conn], q) \/ q = r
        BY <2>2, <2>3, <2>7, AboutAppend
      <3> QED BY <2>4, <2>7, <3>1
    <2>13. CASE q = r
      <3>1. \A t \in Sockets : About(up'[t], q) => t = conn
        BY <1>2, <1>11, <2>5, <2>12, <2>13 DEF OneSocket
      <3>2. \E i \in 1..Len(a) : a[i].req = q /\ a[i].to = stream'[q].sent
        <4>1. Len(up[conn]) + 1 \in 1..Len(a)
          BY <2>9
        <4> QED BY <1>1, <2>2, <2>9, <2>13, <4>1
      <3>3. About(up'[s], q) => up'[s] = a
        BY <2>4, <2>7, <3>1
      <3>4. OneSocket(q, s)'
        BY <1>1, <1>3, <2>13, <3>1, <3>2, <3>3 DEF OneSocket
      <3> QED BY <2>11, <3>4
    <2>14. CASE q # r
      <3>1. Active(q)' = Active(q) /\ stream'[q] = stream[q]
        BY <1>1, <2>14 DEF Active
      <3>2. ASSUME About(up[s], q), Active(q)
            PROVE  \E i \in 1..Len(up'[s]) : up'[s][i].req = q /\ up'[s][i].to = stream[q].sent
        <4>1. s = conn
          BY <1>2, <1>11, <3>2 DEF OneSocket
        <4>2. PICK i \in 1..Len(up[s]) : up[s][i].req = q /\ up[s][i].to = stream[q].sent
          BY <1>2, <1>11, <3>2 DEF OneSocket
        <4>3. i \in 1..Len(a) /\ a[i] = up[s][i]
          BY <2>9, <4>1, <4>2
        <4> QED BY <2>4, <2>7, <4>1, <4>2, <4>3
      <3>3. OneSocket(q, s)'
        BY <1>1, <1>2, <1>11, <2>12, <2>14, <3>1, <3>2 DEF OneSocket
      <3> QED BY <2>11, <3>3
    <2> QED BY <2>13, <2>14
  <1> QED BY <1>7, <1>8 DEF Moves

(* logs.subscribe opens a stream of which nothing has been sent; the other messages    *)
(* only stop streams.                                                       *)
LEMMA ChunksAfterOrder ==
    ASSUME TypeInv, ChunksInv, conn # 0, UNCHANGED <<up, conn, strays>>,
           \A q \in Requests :
             \/ stream[q].state = "none" /\ stream'[q].state # "none"
             \/ /\ stream'[q].sent = stream[q].sent
                /\ stream[q].state # "none" => stream'[q].state # "none"
                /\ stream'[q].state \in Running \ {"orphaned"}
                     => stream[q].state \in Running \ {"orphaned"}
    PROVE  ChunksInv'
  <1> SUFFICES ASSUME NEW q \in Requests, NEW s \in Sockets
               PROVE  /\ Parked(q)' /\ Begun(q, s)'
                      /\ q \notin strays' => QueueOK(q, s)' /\ OneSocket(q, s)'
    BY DEF ChunksInv
  <1>1. Begun(q, s) /\ (q \notin strays => QueueOK(q, s) /\ OneSocket(q, s))
    BY DEF ChunksInv
  <1>2. Parked(q)'
    BY DEF Parked
  <1>3. CASE stream[q].state = "none" /\ stream'[q].state # "none"
    <2>1. ~About(up[s], q)
      BY <1>1, <1>3 DEF Begun
    <2> QED BY <1>1, <1>2, <2>1 DEF Begun, QueueOK, OneSocket, About
  <1>4. CASE /\ stream'[q].sent = stream[q].sent
             /\ stream[q].state # "none" => stream'[q].state # "none"
             /\ stream'[q].state \in Running \ {"orphaned"}
                  => stream[q].state \in Running \ {"orphaned"}
    <2>1. Active(q)' => Active(q)
      BY <1>4 DEF Active
    <2> QED BY <1>1, <1>2, <1>4, <2>1 DEF Begun, QueueOK, OneSocket
  <1> QED BY <1>3, <1>4

(* A socket that has just been dialled carries nothing.                             *)
LEMMA NothingYet ==
    ASSUME NEW q
    PROVE  ~About(<<>>, q) /\ Ordered(<<>>, q) /\ Gapless(<<>>, q) /\ Len(<<>>) = 0
  <1>1. Len(<<>>) = 0
    BY EmptySeq
  <1> QED BY <1>1, AboutEmpty DEF Ordered, Gapless

LEMMA ChunksAfterConnect ==
    ASSUME TypeInv, ChunksInv, Connect
    PROVE  ChunksInv'
  <1> SUFFICES ASSUME NEW q \in Requests, NEW t \in Sockets
               PROVE  /\ Parked(q)' /\ Begun(q, t)'
                      /\ q \notin strays' => QueueOK(q, t)' /\ OneSocket(q, t)'
    BY DEF ChunksInv
  <1>1. PICK s \in Sockets : conn' = s /\ up' = [up EXCEPT ![s] = <<>>]
    BY DEF Connect
  <1>2. /\ conn = 0 /\ stream' = stream /\ strays' = strays
        /\ stream[q].state \notin Running \ {"orphaned"}
    BY DEF Connect, ChunksInv, Parked, Running
  <1>3. ~Active(q)' /\ s # 0
    BY <1>1, <1>2 DEF Active, Sockets
  <1>4. \A x \in Sockets : up'[x] = IF x = s THEN <<>> ELSE up[x]
    BY <1>1 DEF TypeInv
  <1>5. Begun(q, t)'
    BY <1>2, <1>4, AboutEmpty DEF ChunksInv, Begun
  <1>6. SUFFICES ASSUME q \notin strays PROVE QueueOK(q, t)' /\ OneSocket(q, t)'
    BY <1>1, <1>2, <1>3, <1>5 DEF Parked
  <1>7. QueueOK(q, t)'
    <2>1. CASE t = s
      BY <1>4, <2>1, NothingYet DEF QueueOK
    <2>2. CASE t # s
      BY <1>2, <1>4, <1>6, <2>2 DEF ChunksInv, QueueOK
    <2> QED BY <2>1, <2>2
  <1>8. OneSocket(q, t)'
    BY <1>2, <1>3, <1>4, <1>6, AboutEmpty DEF ChunksInv, OneSocket
  <1> QED BY <1>7, <1>8

(* A registration is of no request.                                              *)
LEMMA ChunksAfterRegister ==
    ASSUME TypeInv, ChunksInv, SendRegister
    PROVE  ChunksInv'
  <1> SUFFICES ASSUME NEW q \in Requests, NEW t \in Sockets
               PROVE  /\ Parked(q)' /\ Begun(q, t)'
                      /\ q \notin strays' => QueueOK(q, t)' /\ OneSocket(q, t)'
    BY DEF ChunksInv
  <1>1. PICK u, m : u = up[conn] /\ m = Register
    OBVIOUS
  <1>2. PICK a : a = Append(u, m)
    OBVIOUS
  <1>3. /\ conn \in Sockets /\ u \in Seq(Messages) /\ m \in Messages /\ m.req # q
        /\ UNCHANGED <<stream, conn, strays>>
        /\ \A x \in Sockets : up'[x] = IF x = conn THEN a ELSE up[x]
    BY <1>1, <1>2, RegisterFacts DEF SendRegister, TypeInv, agentVars
  <1>4. /\ Len(a) = Len(u) + 1 /\ a[Len(u) + 1] = m /\ Len(u) \in Nat
        /\ \A i \in 1..Len(u) : a[i] = u[i]
    BY <1>2, <1>3, AppendProperties, LenProperties
  <1>5. About(a, q) <=> About(u, q)
    BY <1>2, <1>3, AboutAppend
  <1>6. \A x \in Sockets : About(up'[x], q) <=> About(up[x], q)
    BY <1>1, <1>3, <1>5
  <1>7. Parked(q)' /\ Begun(q, t)'
    BY <1>3, <1>6 DEF ChunksInv, Parked, Begun
  <1>8. SUFFICES ASSUME q \notin strays PROVE QueueOK(q, t)' /\ OneSocket(q, t)'
    BY <1>3, <1>7
  <1>9. /\ \A x \in Sockets : QueueOK(q, x) /\ OneSocket(q, x)
        /\ Active(q)' = Active(q)
    BY <1>3, <1>8 DEF ChunksInv, Active
  <1>10. \A i \in 1..Len(a) : a[i].req = q => i \in 1..Len(u) /\ a[i] = u[i]
    <2> SUFFICES ASSUME NEW i \in 1..Len(a), a[i].req = q PROVE i \in 1..Len(u)
      BY <1>4
    <2>1. i # Len(u) + 1
      BY <1>3, <1>4
    <2> QED BY <1>4, <2>1
  <1>11. Ordered(a, q) /\ Gapless(a, q)
    <2>1. Ordered(u, q) /\ Gapless(u, q)
      BY <1>1, <1>3, <1>9 DEF QueueOK
    <2> QED BY <1>2, <1>3, <2>1, AppendedQueue
  <1>12. QueueOK(q, t)'
    <2>1. CASE t = conn
      <3>1. \A i \in 1..Len(a) : a[i].req = q => a[i].to <= stream[q].sent
        BY <1>1, <1>3, <1>9, <1>10 DEF QueueOK
      <3> QED BY <1>3, <1>11, <2>1, <3>1 DEF QueueOK
    <2>2. CASE t # conn
      BY <1>3, <1>9, <2>2 DEF QueueOK
    <2> QED BY <2>1, <2>2
  <1>13. ASSUME About(up[t], q), Active(q)
         PROVE  /\ t = conn
                /\ \E i \in 1..Len(a) : a[i].req = q /\ a[i].to = stream[q].sent
    <2>1. t = conn
      BY <1>9, <1>13 DEF OneSocket
    <2>2. PICK i \in 1..Len(u) : u[i].req = q /\ u[i].to = stream[q].sent
      BY <1>1, <1>9, <1>13, <2>1 DEF OneSocket
    <2>3. i \in 1..Len(a) /\ a[i] = u[i]
      BY <1>4
    <2> QED BY <2>1, <2>2, <2>3
  <1>14. OneSocket(q, t)'
    BY <1>3, <1>6, <1>9, <1>13 DEF OneSocket
  <1> QED BY <1>12, <1>14

LEMMA ChunksAfterSession ==
    ASSUME TypeInv, ChunksInv, SessionEnds
    PROVE  ChunksInv'
  <1> SUFFICES ASSUME NEW q \in Requests, NEW t \in Sockets
               PROVE  /\ Parked(q)' /\ Begun(q, t)'
                      /\ q \notin strays' => QueueOK(q, t)' /\ OneSocket(q, t)'
    BY DEF ChunksInv
  <1>1. conn \in Sockets /\ conn' = 0 /\ up[conn] \in Seq(Messages)
    BY DEF SessionEnds, TypeInv
  <1>2. PICK n \in 0..Len(up[conn]) : up' = [up EXCEPT ![conn] = SubSeq(up[conn], 1, n)]
    BY DEF SessionEnds
  <1>3. PICK p : p = SubSeq(up[conn], 1, n)
    OBVIOUS
  <1>4. \A x \in Sockets : up'[x] = IF x = conn THEN p ELSE up[x]
    BY <1>1, <1>2, <1>3 DEF TypeInv
  <1>5. /\ stream'[q] = Orphaned(stream[q]) /\ strays' = strays
        /\ StreamOK(stream[q], written)
    BY DEF SessionEnds, TypeInv
  <1>6. /\ stream'[q].sent = stream[q].sent
        /\ stream'[q].state = IF stream[q].state \in Running THEN "orphaned" ELSE stream[q].state
        /\ stream[q].state \in Running \cup {"none", "gone"}
    <2>1. PICK x : x = stream[q]
      OBVIOUS
    <2>2. /\ x.state \in Running \cup {"none", "gone"}
          /\ x \in [state : Running \cup {"none", "gone"},
                  read : 0..MaxLine, taken : 0..MaxLine, sent : 0..MaxLine]
      BY <1>5, <2>1 DEF StreamOK
    <2>3. /\ Orphaned(x).sent = x.sent
          /\ Orphaned(x).state = IF x.state \in Running THEN "orphaned" ELSE x.state
      BY <2>2 DEF Orphaned
    <2> QED BY <1>5, <2>1, <2>2, <2>3
  <1>7. Parked(q)' /\ ~Active(q)'
    BY <1>1, <1>6 DEF Parked, Active
  <1>8. \A i \in 1..n : i \in 1..Len(up[conn]) /\ p[i] = up[conn][i]
    BY <1>1, <1>3, LenProperties
  <1>9. Len(p) = n
    BY <1>1, <1>3, SubSeqProperties, LenProperties
  <1>10. \A x \in Sockets : About(up'[x], q) => About(up[x], q)
    BY <1>4, <1>8, <1>9 DEF About
  <1>11. Begun(q, t)'
    BY <1>6, <1>10 DEF ChunksInv, Begun
  <1>12. SUFFICES ASSUME q \notin strays PROVE QueueOK(q, t)' /\ OneSocket(q, t)'
    BY <1>5, <1>7, <1>11
  <1>13. QueueOK(q, t) /\ QueueOK(q, conn) /\ \A x \in Sockets : OneSocket(q, x)
    BY <1>1, <1>12 DEF ChunksInv
  <1>14. /\ Len(p) = n /\ Ordered(p, q) /\ Gapless(p, q)
         /\ \A j \in 1..n : j \in 1..Len(up[conn]) /\ p[j] = up[conn][j]
    BY <1>1, <1>3, <1>13, QueuePrefix DEF QueueOK
  <1>15. QueueOK(q, t)'
    BY <1>4, <1>6, <1>13, <1>14 DEF QueueOK
  <1>16. OneSocket(q, t)'
    BY <1>7, <1>10, <1>13 DEF OneSocket
  <1> QED BY <1>15, <1>16

LEMMA ChunksAfterReceive ==
    ASSUME TypeInv, ChunksInv, NEW s \in Sockets, Receive(s)
    PROVE  ChunksInv'
  <1> SUFFICES ASSUME NEW q \in Requests, NEW t \in Sockets
               PROVE  /\ Parked(q)' /\ Begun(q, t)'
                      /\ q \notin strays' => QueueOK(q, t)' /\ OneSocket(q, t)'
    BY DEF ChunksInv
  <1>1. /\ up[s] \in Seq(Messages) /\ up[s] # <<>> /\ stream' = stream /\ conn' = conn
        /\ strays' = strays
        /\ up' = [up EXCEPT ![s] = Tail(up[s])]
    BY DEF Receive, TypeInv, agentVars
  <1>2. PICK b : b = Tail(up[s])
    OBVIOUS
  <1>3. \A x \in Sockets : up'[x] = IF x = s THEN b ELSE up[x]
    BY <1>1, <1>2 DEF TypeInv
  <1>12. \A x \in Sockets : About(up'[x], q) => About(up[x], q)
    <2>1. About(b, q) => About(up[s], q)
      BY <1>1, <1>2, AboutTail
    <2> QED BY <1>3, <2>1
  <1>13. Parked(q)' /\ Begun(q, t)'
    BY <1>1, <1>12 DEF ChunksInv, Parked, Begun
  <1>14. SUFFICES ASSUME q \notin strays PROVE QueueOK(q, t)' /\ OneSocket(q, t)'
    BY <1>1, <1>13
  <1>4. QueueOK(q, s) /\ QueueOK(q, t) /\ \A x \in Sockets : OneSocket(q, x)
    BY <1>14 DEF ChunksInv
  <1>5. /\ Ordered(b, q) /\ Gapless(b, q)
        /\ \A j \in 1..Len(b) : j + 1 \in 1..Len(up[s]) /\ b[j] = up[s][j + 1]
    BY <1>1, <1>2, <1>4, QueueTail DEF QueueOK
  <1>6. Len(b) = Len(up[s]) - 1 /\ Len(up[s]) \in Nat /\ b \in Seq(Messages) /\ Len(b) \in Nat
    BY <1>1, <1>2, HeadTailProperties, LenProperties
  <1>8. QueueOK(q, t)'
    BY <1>1, <1>3, <1>4, <1>5 DEF QueueOK
  <1>9. ASSUME About(b, q), Active(q)
        PROVE  \E i \in 1..Len(b) : b[i].req = q /\ b[i].to = stream[q].sent
    <2>1. PICK i \in 1..Len(up[s]) : up[s][i].req = q /\ up[s][i].to = stream[q].sent
      BY <1>3, <1>4, <1>12, <1>9 DEF OneSocket
    <2>2. PICK k \in 1..Len(b) : b[k].req = q
      BY <1>9 DEF About
    <2>3. CASE i = 1
      <3>1. k + 1 \in 1..Len(up[s]) /\ 1 < k + 1 /\ b[k] = up[s][k + 1]
        BY <1>5, <2>2
      <3>2. up[s][1].to < b[k].from
        BY <1>4, <2>1, <2>2, <2>3, <3>1 DEF QueueOK, Ordered
      <3>3. b[k].to <= stream[q].sent
        BY <1>4, <2>2, <3>1 DEF QueueOK
      <3>4. b[k] \in Messages
        BY <1>6, <2>2, ElementOfSeq
      <3>5. b[k].from \in Int /\ b[k].to \in Int /\ b[k].from <= b[k].to
        BY <2>2, <3>4, MessageFacts
      <3>6. stream[q].sent \in Int
        BY DEF TypeInv
      <3> QED BY <2>1, <2>3, <3>2, <3>3, <3>5, <3>6
    <2>4. CASE i # 1
      <3>1. i - 1 \in 1..Len(b) /\ (i - 1) + 1 = i
        BY <1>6, <2>1, <2>4
      <3>2. b[i - 1] = up[s][i]
        BY <1>5, <3>1
      <3> QED BY <2>1, <3>1, <3>2
    <2> QED BY <2>3, <2>4
  <1>10. Active(q)' = Active(q)
    BY <1>1 DEF Active
  <1>11. OneSocket(q, t)'
    <2>1. CASE t = s
      BY <1>1, <1>3, <1>4, <1>12, <1>9, <1>10, <2>1 DEF OneSocket
    <2>2. CASE t # s
      BY <1>1, <1>3, <1>4, <1>12, <1>10, <2>2 DEF OneSocket
    <2> QED BY <2>1, <2>2
  <1> QED BY <1>8, <1>11

LEMMA ChunksKept ==
    ASSUME TypeInv, ChunksInv, [LogViewNext]_vars
    PROVE  ChunksInv'
  <1>1. ASSUME UNCHANGED <<stream, conn, strays, up>> PROVE ChunksInv'
    BY <1>1 DEF ChunksInv, Parked, Begun, QueueOK, OneSocket, Active
  <1>2. \A r \in Requests : StreamStep(r) => ChunksInv'
    BY StreamStepMoves, ChunksAfterMove
  <1>3. CASE HandleLogs
    <2>1. PICK r : r = Head(down).req
      OBVIOUS
    <2>2. /\ \/ stream[r].state = "none" /\ stream' = [stream EXCEPT ![r] = Opened]
             \/ stream[r].state = "none" /\ stream' = [stream EXCEPT ![r].state = "gone"]
             \/ stream' = [stream EXCEPT ![r] = Closing(stream[r])]
          /\ UNCHANGED <<up, conn, strays>> /\ conn # 0
      BY <1>3, <2>1 DEF HandleLogs
    <2>3. /\ stream \in [Requests -> [state : Running \cup {"none", "gone"},
               read : 0..MaxLine, taken : 0..MaxLine, sent : 0..MaxLine]]
          /\ \A q \in Requests : StreamOK(stream[q], written)
      BY DEF TypeInv
    <2>4. Opened.state # "none"
      BY OpenedFacts
    <2>5. ASSUME NEW q \in Requests
          PROVE  \/ stream[q].state = "none" /\ stream'[q].state # "none"
                 \/ /\ stream'[q].sent = stream[q].sent
                    /\ stream[q].state # "none" => stream'[q].state # "none"
                    /\ stream'[q].state \in Running \ {"orphaned"}
                         => stream[q].state \in Running \ {"orphaned"}
      <3>1. CASE q # r
        BY <2>2, <2>3, <3>1
      <3>2. CASE q = r
        <4>1. /\ Closing(stream[q]).sent = stream[q].sent
              /\ Closing(stream[q]).state \in {stream[q].state, "closing"}
              /\ Closing(stream[q]).state = "closing" => stream[q].state \in Running \ {"orphaned"}
          BY <2>3, ClosingFacts
        <4>2. stream[q].state # "none" => Closing(stream[q]).state # "none"
          BY <4>1
        <4> QED BY <2>2, <2>3, <2>4, <3>2, <4>1, <4>2 DEF Running
      <3> QED BY <3>1, <3>2
    <2> QED BY <2>2, <2>5, ChunksAfterOrder
  <1>4. ASSUME NEW s \in Sockets, SocketClosed(s) PROVE ChunksInv'
    BY <1>1, <1>4 DEF SocketClosed, agentVars
  <1>5. ASSUME NEW r \in Requests, \/ Subscribe(r) \/ StartLogStream(r) \/ Teardown(r)
        PROVE  ChunksInv'
    BY <1>1, <1>5 DEF Subscribe, StartLogStream, Teardown, Shows, agentVars, wireVars
  <1>6. CASE \/ Write \/ TogglePause \/ Clear \/ Leave \/ ResponseEnds \/ StreamLogs
             \/ UNCHANGED vars
    BY <1>1, <1>6 DEF Write, TogglePause, Clear, Leave, ResponseEnds, StreamLogs, Shows,
                      agentVars, wireVars, vars
  <1> QED
    BY <1>2, <1>3, <1>4, <1>5, <1>6, ChunksAfterConnect, ChunksAfterRegister,
       ChunksAfterSession, ChunksAfterReceive
    DEF LogViewNext

---------------------------------------------------------------------------
(* Requests that are about to be made.                                          *)

(* Nothing reaches a request that has not been asked for.                        *)
LEMMA FreshKept ==
    ASSUME TypeInv, FreshInv, NEW q \in Requests, Fresh(q), [LogViewNext]_vars
    PROVE  Fresh(q)' \/ q \in starting \ starting'
  <1>1. /\ stream[q].state = "none" /\ q \notin subs /\ ~About(down, q)
        /\ down \in Seq(Orders) /\ stream[q] = stream[q]
        /\ stream \in [Requests -> [state : Running \cup {"none", "gone"},
               read : 0..MaxLine, taken : 0..MaxLine, sent : 0..MaxLine]]
    BY DEF Fresh, TypeInv
  <1>2. \A r \in Requests : StreamStep(r) => Fresh(q)'
    <2> SUFFICES ASSUME NEW r \in Requests, NEW y, Moves(r, y) PROVE Fresh(q)'
      BY StreamStepMoves
    <2> QED BY <1>1 DEF Moves, Fresh, Running, serverVars
  <1>3. CASE HandleLogs
    <2>1. PICK r : r = Head(down).req
      OBVIOUS
    <2>2. down # <<>> /\ down' = Tail(down) /\ subs' = subs
      BY <1>3 DEF HandleLogs, serverVars
    <2>3. r # q /\ ~About(down', q)
      BY <1>1, <2>1, <2>2, AboutTail
    <2>4. \/ stream' = [stream EXCEPT ![r] = Opened]
          \/ stream' = [stream EXCEPT ![r].state = "gone"]
          \/ stream' = [stream EXCEPT ![r] = Closing(stream[r])]
      BY <1>3, <2>1 DEF HandleLogs
    <2>5. stream'[q] = stream[q]
      BY <1>1, <2>3, <2>4
    <2> QED BY <1>1, <2>2, <2>3, <2>5 DEF Fresh
  <1>4. CASE SessionEnds
    <2>1. stream'[q] = Orphaned(stream[q]) /\ subs' = subs /\ down' = <<>>
      BY <1>4 DEF SessionEnds, serverVars
    <2>2. StreamOK(stream[q], written)
      BY DEF TypeInv
    <2>3. stream'[q].state = "none"
      BY <1>1, <2>1, <2>2, ClosingFacts DEF Running
    <2> QED BY <1>1, <2>1, <2>3, AboutEmpty DEF Fresh
  <1>5. ASSUME NEW s \in Sockets, SocketClosed(s) PROVE Fresh(q)'
    BY <1>1, <1>5 DEF SocketClosed, Fresh, agentVars
  <1>6. ASSUME NEW r \in Requests, StartLogStream(r)
        PROVE  Fresh(q)' \/ q \in starting \ starting'
    <2>1. CASE r = q
      BY <1>6, <2>1 DEF StartLogStream
    <2>2. CASE r # q
      <3>1. PICK m : m = Tell("subscribe", r)
        OBVIOUS
      <3>2. m \in Orders /\ m.req = r
        BY <3>1 DEF Tell, Orders
      <3>3. ~About(Append(down, m), q)
        BY <1>1, <2>2, <3>2, AboutAppend
      <3>4. /\ stream' = stream /\ subs' \subseteq subs \cup {r}
            /\ down' = down \/ down' = Append(down, m)
        BY <1>6, <3>1 DEF StartLogStream, agentVars
      <3> QED BY <1>1, <2>2, <3>3, <3>4 DEF Fresh
    <2> QED BY <2>1, <2>2
  <1>7. ASSUME NEW r \in Requests, Teardown(r) PROVE Fresh(q)'
    <2>1. PICK m : m = Tell("unsubscribe", r)
      OBVIOUS
    <2>2. m \in Orders /\ m.req = r
      BY <2>1 DEF Tell, Orders
    <2>3. r # q => ~About(Append(down, m), q)
      BY <1>1, <2>2, AboutAppend
    <2>4. /\ stream' = stream /\ subs' \subseteq subs
          /\ down' = down \/ (r \in subs /\ down' = Append(down, m))
      BY <1>7, <2>1 DEF Teardown, agentVars
    <2> QED BY <1>1, <2>3, <2>4 DEF Fresh
  <1>8. ASSUME UNCHANGED <<stream, subs, down>> PROVE Fresh(q)'
    BY <1>1, <1>8 DEF Fresh
  <1>9. ASSUME NEW r \in Requests, Subscribe(r) PROVE Fresh(q)'
    BY <1>8, <1>9 DEF Subscribe, Shows, agentVars, wireVars, serverVars
  <1>10. ASSUME NEW s \in Sockets, Receive(s) PROVE Fresh(q)'
    BY <1>8, <1>10 DEF Receive, agentVars, serverVars
  <1>11. CASE \/ Write \/ Connect \/ SendRegister \/ TogglePause \/ Clear \/ Leave
              \/ ResponseEnds \/ StreamLogs \/ UNCHANGED vars
    BY <1>8, <1>11 DEF Write, Connect, SendRegister, TogglePause, Clear, Leave, ResponseEnds, StreamLogs,
                       Shows, agentVars, wireVars, serverVars, vars
  <1> QED
    BY <1>2, <1>3, <1>4, <1>5, <1>6, <1>7, <1>9, <1>10, <1>11 DEF LogViewNext

(* A stream that has begun stays begun.                                          *)
LEMMA BegunStays ==
    ASSUME TypeInv, NEW q \in Requests, [LogViewNext]_vars, stream'[q].state = "none"
    PROVE  stream[q].state = "none"
  <1>1. /\ stream \in [Requests -> [state : Running \cup {"none", "gone"},
               read : 0..MaxLine, taken : 0..MaxLine, sent : 0..MaxLine]]
        /\ StreamOK(stream[q], written)
    BY DEF TypeInv
  <1>2. \A r \in Requests : ~StreamStep(r) \/ stream[q].state = "none"
    <2> SUFFICES ASSUME NEW r \in Requests, NEW y, Moves(r, y) PROVE stream[q].state = "none"
      BY StreamStepMoves
    <2> QED BY <1>1 DEF Moves, Running
  <1>3. /\ Closing(stream[q]).state = "none" => stream[q].state = "none"
        /\ Orphaned(stream[q]).state = "none" => stream[q].state = "none"
    BY <1>1, ClosingFacts
  <1>4. CASE HandleLogs
    <2>1. PICK r : r = Head(down).req
      OBVIOUS
    <2>2. \/ stream' = [stream EXCEPT ![r] = Opened]
          \/ stream' = [stream EXCEPT ![r].state = "gone"]
          \/ stream' = [stream EXCEPT ![r] = Closing(stream[r])]
      BY <1>4, <2>1 DEF HandleLogs
    <2> QED BY <1>1, <1>3, <2>2, OpenedFacts
  <1>5. CASE SessionEnds
    BY <1>3, <1>5 DEF SessionEnds
  <1>6. CASE stream' = stream
    BY <1>6
  <1>7. ASSUME NEW s \in Sockets, SocketClosed(s) \/ Receive(s) PROVE stream' = stream
    BY <1>7 DEF SocketClosed, Receive, agentVars
  <1>8. ASSUME NEW r \in Requests, Subscribe(r) \/ StartLogStream(r) \/ Teardown(r)
        PROVE  stream' = stream
    BY <1>8 DEF Subscribe, StartLogStream, Teardown, Shows, agentVars
  <1>9. ASSUME \/ Write \/ Connect \/ SendRegister \/ TogglePause \/ Clear \/ Leave
               \/ ResponseEnds \/ StreamLogs \/ UNCHANGED vars
        PROVE  stream' = stream
    BY <1>9 DEF Write, Connect, SendRegister, TogglePause, Clear, Leave, ResponseEnds, StreamLogs, Shows,
                agentVars, vars
  <1> QED BY <1>2, <1>4, <1>5, <1>6, <1>7, <1>8, <1>9 DEF LogViewNext

(* A request starts once it has been asked for; a request is asked for afresh; and a   *)
(* view without a stream is empty.                                             *)
LEMMA ViewBegins ==
    ASSUME TypeInv, ChunksInv, FreshInv, [LogViewNext]_vars
    PROVE  /\ \A q \in starting' : q \in starting \/ (view.link = "asking" /\ q = view.req)
           /\ view'.link = "asking" =>
                view'.req \in Requests \ (starting \cup starting') /\ Fresh(view'.req)
           /\ view'.req \in Requests /\ stream[view'.req].state = "none" =>
                view'.entries = <<>> /\ view'.buffer = <<>>
  <1> DEFINE Concl ==
        /\ \A q \in starting' : q \in starting \/ (view.link = "asking" /\ q = view.req)
        /\ view'.link = "asking" =>
             view'.req \in Requests \ (starting \cup starting') /\ Fresh(view'.req)
        /\ view'.req \in Requests /\ stream[view'.req].state = "none" =>
             view'.entries = <<>> /\ view'.buffer = <<>>
  <1>1. /\ ViewOK(view) /\ view \in View /\ starting \subseteq Requests /\ subs \subseteq Requests
        /\ view.req \in Requests /\ stream[view.req].state = "none"
             => view.entries = <<>> /\ view.buffer = <<>>
        /\ view.link = "asking" => view.req \in Requests \ starting /\ Fresh(view.req)
    BY DEF TypeInv, ViewOK, FreshInv
  <1>2. ASSUME view' = view, starting' = starting PROVE Concl
    BY <1>1, <1>2
  <1>3. ASSUME NEW r \in Requests, StreamStep(r) PROVE Concl
    <2>1. PICK y : Moves(r, y)
      BY <1>3, StreamStepMoves
    <2> QED BY <1>2, <2>1 DEF Moves, serverVars
  <1>4. ASSUME NEW r \in Requests, Subscribe(r) PROVE Concl
    <2>1. /\ view'.req = r /\ view'.link = "asking" /\ view'.entries = <<>> /\ view'.buffer = <<>>
          /\ starting' = starting /\ r \notin starting /\ r \notin subs /\ stream[r].state = "none"
          /\ \A i \in DOMAIN down : down[i].req # r
      BY <1>1, <1>4, ViewSteps DEF Subscribe, Shows, serverVars
    <2>2. ~About(down, r)
      <3>1. DOMAIN down = 1..Len(down)
        BY LenProperties DEF TypeInv
      <3> QED BY <2>1, <3>1 DEF About
    <2> QED BY <2>1, <2>2 DEF Fresh
  <1>5. CASE TogglePause
    <2>1. starting' = starting
      BY <1>5 DEF TogglePause, Shows, serverVars
    <2>2. CASE ~view.paused
      BY <1>1, <1>5, <2>1, <2>2, ViewSteps DEF TogglePause, Shows
    <2>3. CASE view.paused
      <3>1. /\ view'.req = view.req /\ view'.link = view.link /\ view'.buffer = <<>>
            /\ view'.entries = Newest(Keep, view.entries \o view.buffer)
        BY <1>1, <1>5, <2>3, ResumedView DEF TogglePause, Shows
      <3>2. view.entries = <<>> /\ view.buffer = <<>> => Newest(Keep, view.entries \o view.buffer) = <<>>
        <4>1. <<>> \o <<>> = <<>> /\ <<>> \in Seq(Nat) /\ Len(<<>>) = 0
          BY EmptySeq, ConcatEmptySeq
        <4>2. Keep \in Nat \ {0} /\ 0 <= Keep
          BY LogViewAssumption
        <4>3. Newest(Keep, <<>>) = <<>>
          BY <4>1, <4>2, NewestIsSuffix
        <4> QED BY <4>1, <4>3
      <3> QED BY <1>1, <2>1, <3>1, <3>2
    <2> QED BY <2>2, <2>3
  <1>6. CASE Clear
    BY <1>1, <1>6, ClearedView DEF serverVars
  <1>7. CASE Leave
    BY <1>1, <1>7, LogViewAssumption DEF Leave, Shows, NoView, serverVars
  <1>8. CASE ResponseEnds
    BY <1>1, <1>8, ViewSteps DEF ResponseEnds, Shows, serverVars
  <1>9. CASE StreamLogs
    <2>1. view.req \in Requests
      BY <1>1, <1>9 DEF StreamLogs, ViewOK
    <2>2. /\ view'.link = "open" /\ view'.req = view.req
          /\ view'.entries = view.entries /\ view'.buffer = view.buffer
      <3>1. PICK v : v = view' /\ ViewOK(view)
        BY <1>1
      <3>2. v = [view EXCEPT !.link = "open",
                             !.status = IF view.paused THEN "paused" ELSE "live"]
        BY <1>9, <3>1 DEF StreamLogs
      <3> QED BY <2>1, <3>1, <3>2, ViewSteps
    <2> QED BY <1>1, <1>9, <2>2 DEF StreamLogs
  <1>10. ASSUME NEW r \in Requests, StartLogStream(r) PROVE Concl
    <2>1. starting' \subseteq starting /\ (view' = view \/ view' = Failed)
      BY <1>10 DEF StartLogStream
    <2> QED BY <1>1, <2>1, ViewSteps
  <1>11. ASSUME NEW s \in Sockets, Receive(s) PROVE Concl
    <2>1. PICK m : m = Head(up[s])
      OBVIOUS
    <2>2. up[s] # <<>> /\ up[s] \in Seq(Messages) /\ starting' = starting
      BY <1>11 DEF Receive, TypeInv, serverVars
    <2>3. m \in Messages /\ About(up[s], m.req)
      BY <2>1, <2>2, HeadTailProperties, AboutTail
    <2>4. \/ view' = view
          \/ m.req \in subs /\ m.req = view.req /\ view' = Push(Lines(m.from, m.to))
      BY <1>11, <2>1 DEF Receive, Viewed
    <2>5. ASSUME m.req \in subs, m.req = view.req, view' = Push(Lines(m.from, m.to))
          PROVE  Concl
      <3>1. m.from \in Nat /\ m.to \in Nat /\ m.from <= m.to /\ m.req \in Requests
        BY <1>1, <2>3, <2>5, MessageFacts
      <3>2. view'.req = view.req /\ view'.link = view.link
        BY <1>1, <2>5, <3>1, PushedView
      <3>3. stream[view.req].state # "none"
        BY <2>3, <2>5, <3>1 DEF ChunksInv, Begun
      <3> QED BY <1>1, <2>2, <3>2, <3>3
    <2> QED BY <1>2, <2>2, <2>4, <2>5
  <1>12. ASSUME NEW s \in Sockets, SocketClosed(s) PROVE Concl
    BY <1>2, <1>12 DEF SocketClosed
  <1>13. ASSUME NEW r \in Requests, Teardown(r) PROVE Concl
    BY <1>2, <1>13 DEF Teardown
  <1>14. CASE \/ Write \/ HandleLogs \/ Connect \/ SendRegister \/ SessionEnds
              \/ UNCHANGED vars
    BY <1>2, <1>14 DEF Write, HandleLogs, Connect, SendRegister, SessionEnds, serverVars, vars
  <1>15. Concl
    BY <1>3, <1>4, <1>5, <1>6, <1>7, <1>8, <1>9, <1>10, <1>11, <1>12, <1>13, <1>14
    DEF LogViewNext
  <1> QED BY <1>15 DEF Concl

LEMMA FreshInvKept ==
    ASSUME TypeInv, ChunksInv, FreshInv, [LogViewNext]_vars
    PROVE  FreshInv'
  <1>1. /\ ViewOK(view) /\ view \in View /\ starting \subseteq Requests
    BY DEF TypeInv, ViewOK
  <1>2. \A q \in starting : q \in Requests /\ Fresh(q)
    BY <1>1 DEF FreshInv
  <1>3. view.link = "asking" => view.req \in Requests /\ view.req \notin starting /\ Fresh(view.req)
    BY <1>1 DEF FreshInv, ViewOK
  <1>4. \A q \in starting' : Fresh(q)'
    BY <1>2, <1>3, ViewBegins, FreshKept
  <1>5. ASSUME NEW q, q = view'.req, view'.link = "asking"
        PROVE  q \notin starting' /\ Fresh(q)'
    <2>1. q \in Requests \ (starting \cup starting') /\ Fresh(q)
      BY <1>5, ViewBegins
    <2> QED BY <2>1, FreshKept
  <1>6. view'.req \in Requests /\ stream'[view'.req].state = "none" =>
          view'.entries = <<>> /\ view'.buffer = <<>>
    BY ViewBegins, BegunStays
  <1> QED BY <1>4, <1>5, <1>6 DEF FreshInv, Fresh

---------------------------------------------------------------------------
(* The view and the chunks on their way to it.                                   *)

(* Reach(q): what ReachInv says of one request.                                  *)
Reach(q) ==
    Follows(q) =>
        /\ \A s \in Sockets : \A j \in 1..Len(up[s]) :
             FirstOf(up[s], q, j) => EndsWith(view, up[s][j].from - 1)
        /\ Active(q) /\ ~About(up[conn], q) => EndsWith(view, stream[q].sent)

LEMMA ReachOfAll == ReachInv <=> \A q \in Requests : Reach(q)
  BY DEF ReachInv, Reach

(* A step that brings no new first chunk, and leaves the end of the view alone.        *)
LEMMA ReachHolds ==
    ASSUME NEW q \in Requests, Reach(q), Follows(q)' => Follows(q),
           All(view') # <<>> => /\ All(view) # <<>>
                                /\ All(view')[Len(All(view'))] = All(view)[Len(All(view))],
           \A s \in Sockets : \A j \in 1..Len(up'[s]) : FirstOf(up'[s], q, j) =>
             \E k \in 1..Len(up[s]) : FirstOf(up[s], q, k) /\ up[s][k] = up'[s][j],
           Active(q)' /\ ~About(up'[conn'], q) =>
             Active(q) /\ ~About(up[conn], q) /\ stream'[q].sent = stream[q].sent
    PROVE  Reach(q)'
  <1> SUFFICES ASSUME Follows(q)'
               PROVE  /\ \A s \in Sockets : \A j \in 1..Len(up'[s]) :
                           FirstOf(up'[s], q, j) => EndsWith(view', up'[s][j].from - 1)
                      /\ Active(q)' /\ ~About(up'[conn'], q) => EndsWith(view', stream'[q].sent)
    BY DEF Reach
  <1>1. /\ \A s \in Sockets : \A j \in 1..Len(up[s]) :
             FirstOf(up[s], q, j) => EndsWith(view, up[s][j].from - 1)
        /\ Active(q) /\ ~About(up[conn], q) => EndsWith(view, stream[q].sent)
    BY DEF Reach
  <1>2. \A n : EndsWith(view, n) => EndsWith(view', n)
    BY DEF EndsWith
  <1>3. ASSUME NEW s \in Sockets, NEW j \in 1..Len(up'[s]), FirstOf(up'[s], q, j)
        PROVE  EndsWith(view', up'[s][j].from - 1)
    <2>1. PICK k \in 1..Len(up[s]) : FirstOf(up[s], q, k) /\ up[s][k] = up'[s][j]
      BY <1>3
    <2>2. EndsWith(view, up[s][k].from - 1)
      BY <1>1, <2>1
    <2> QED BY <1>2, <2>1, <2>2
  <1>4. ASSUME Active(q)', ~About(up'[conn'], q) PROVE EndsWith(view', stream'[q].sent)
    BY <1>1, <1>2, <1>4
  <1> QED BY <1>3, <1>4

(* The same for a step that does not touch the queues and the streams.             *)
LEMMA ReachSame ==
    ASSUME NEW q \in Requests, Reach(q), Follows(q)' => Follows(q),
           All(view') # <<>> => /\ All(view) # <<>>
                                /\ All(view')[Len(All(view'))] = All(view)[Len(All(view))],
           UNCHANGED <<up, conn, stream>>
    PROVE  Reach(q)'
  <1>1. \A s \in Sockets : \A j \in 1..Len(up'[s]) : FirstOf(up'[s], q, j) =>
          \E k \in 1..Len(up[s]) : FirstOf(up[s], q, k) /\ up[s][k] = up'[s][j]
    OBVIOUS
  <1>2. Active(q)' /\ ~About(up'[conn'], q) =>
          Active(q) /\ ~About(up[conn], q) /\ stream'[q].sent = stream[q].sent
    BY DEF Active
  <1> QED BY <1>1, <1>2, ReachHolds

LEMMA ReachAfterMove ==
    ASSUME TypeInv, ChunksInv, NEW r \in Requests, NEW y, Moves(r, y),
           NEW q \in Requests, Reach(q)
    PROVE  Reach(q)'
  <1>1. /\ stream'[q] = IF q = r THEN y ELSE stream[q]
        /\ conn' = conn /\ stream[r].state \in Running /\ view' = view
        /\ (Follows(q)' => Follows(q))
    BY DEF Moves, TypeInv, StreamOK, Follows, Viewed, serverVars
  <1>2. Active(q)' => Active(q)
    BY <1>1 DEF Active, Moves, Running
  <1>3. CASE up' = up /\ (conn = 0 \/ y.sent = stream[r].sent)
    <2>1. Active(q)' /\ ~About(up'[conn'], q) =>
            Active(q) /\ ~About(up[conn], q) /\ stream'[q].sent = stream[q].sent
      BY <1>1, <1>2, <1>3 DEF Active
    <2>2. \A s \in Sockets : \A j \in 1..Len(up'[s]) : FirstOf(up'[s], q, j) =>
            \E k \in 1..Len(up[s]) : FirstOf(up[s], q, k) /\ up[s][k] = up'[s][j]
      BY <1>3
    <2> QED BY <1>1, <2>1, <2>2, ReachHolds
  <1>4. CASE /\ conn # 0 /\ stream[r].sent < y.sent
             /\ up' = [up EXCEPT ![conn] = Append(@, Chunk(r, stream[r].sent + 1, y.sent))]
             /\ strays' = IF stream[r].state = "orphaned" THEN strays \cup {r} ELSE strays
    <2>1. PICK m : m = Chunk(r, stream[r].sent + 1, y.sent)
      OBVIOUS
    <2>2. /\ m \in Chunks /\ m \in Messages /\ m.req = r
          /\ m.from = stream[r].sent + 1 /\ stream[r].sent \in Int
      BY SMTT(30), <1>4, <2>1, SentChunk DEF Chunk, Messages, TypeInv
    <2>3. conn \in Sockets /\ up[conn] \in Seq(Messages)
      BY <1>4 DEF TypeInv
    <2>4. PICK a : a = Append(up[conn], m)
      OBVIOUS
    <2>5. \A t \in Sockets : up'[t] = IF t = conn THEN a ELSE up[t]
      BY <1>4, <2>1, <2>3, <2>4 DEF TypeInv
    <2>6. q # r => (Active(q)' <=> Active(q)) /\ stream'[q].sent = stream[q].sent
      BY <1>1, <1>4 DEF Active
    <2>7. About(a, q) <=> About(up[conn], q) \/ q = r
      BY <2>2, <2>3, <2>4, AboutAppend
    <2>8. \A j \in 1..Len(a) : FirstOf(a, q, j) =>
             \/ j \in 1..Len(up[conn]) /\ FirstOf(up[conn], q, j) /\ a[j] = up[conn][j]
             \/ ~About(up[conn], q) /\ q = r /\ a[j] = m
      <3>1. PICK u : u = up[conn] /\ u \in Seq(Messages) /\ a = Append(u, m)
        BY <2>3, <2>4
      <3>2. /\ Len(a) = Len(u) + 1 /\ a[Len(u) + 1] = m /\ a \in Seq(Messages)
            /\ \A i \in 1..Len(u) : a[i] = u[i]
        BY <2>2, <3>1, AppendProperties
      <3>3. ASSUME NEW j \in 1..Len(a), FirstOf(a, q, j)
            PROVE  \/ j \in 1..Len(u) /\ FirstOf(u, q, j) /\ a[j] = u[j]
                   \/ ~About(u, q) /\ a[j] = m
        BY <3>1, <3>2, <3>3, FirstOfAppended
      <3>4. ASSUME NEW j \in 1..Len(a), FirstOf(a, q, j), a[j] = m PROVE q = r
        BY <2>2, <3>4 DEF FirstOf
      <3> QED BY <3>1, <3>3, <3>4
    <2>9. CASE q = r /\ ~About(up[conn], q)
      <3> SUFFICES ASSUME Follows(q)'
                   PROVE  /\ \A s \in Sockets : \A j \in 1..Len(up'[s]) :
                               FirstOf(up'[s], q, j) => EndsWith(view', up'[s][j].from - 1)
                          /\ ~(Active(q)' /\ ~About(up'[conn'], q))
        BY DEF Reach
      <3>0. Follows(q) /\ q \notin strays'
        BY <1>1 DEF Follows
      <3>4. Active(q)
        BY <1>1, <1>4, <2>9, <3>0 DEF Active, Moves
      <3>1. /\ EndsWith(view, stream[q].sent)
            /\ \A s \in Sockets : \A j \in 1..Len(up[s]) :
                 FirstOf(up[s], q, j) => EndsWith(view, up[s][j].from - 1)
        BY <1>1, <2>9, <3>0, <3>4 DEF Reach
      <3>2. ASSUME NEW s \in Sockets, NEW j \in 1..Len(up'[s]), FirstOf(up'[s], q, j)
            PROVE  EndsWith(view', up'[s][j].from - 1)
        <4>1. CASE s # conn
          BY <1>1, <2>5, <3>1, <3>2, <4>1
        <4>2. CASE s = conn
          <5>1. a[j] = m \/ EndsWith(view, a[j].from - 1)
            BY <2>3, <2>5, <2>8, <3>1, <3>2, <4>2
          <5>2. m.from - 1 = stream[q].sent
            BY <2>2, <2>9
          <5> QED BY <1>1, <2>5, <3>1, <4>2, <5>1, <5>2
        <4> QED BY <4>1, <4>2
      <3>3. About(up'[conn'], q)
        BY <1>1, <2>3, <2>5, <2>7, <2>9
      <3> QED BY <3>2, <3>3
    <2>10. CASE q # r \/ About(up[conn], q)
      <3>1. ASSUME NEW s \in Sockets, NEW j \in 1..Len(up'[s]), FirstOf(up'[s], q, j)
            PROVE  \E k \in 1..Len(up[s]) : FirstOf(up[s], q, k) /\ up[s][k] = up'[s][j]
        <4>1. CASE s # conn
          BY <2>5, <3>1, <4>1
        <4>2. CASE s = conn
          BY <2>5, <2>8, <2>10, <3>1, <4>2
        <4> QED BY <4>1, <4>2
      <3>2. Active(q)' /\ ~About(up'[conn'], q) =>
              Active(q) /\ ~About(up[conn], q) /\ stream'[q].sent = stream[q].sent
        BY <1>1, <1>2, <2>3, <2>5, <2>6, <2>7, <2>10
      <3> QED BY <1>1, <3>1, <3>2, ReachHolds
    <2> QED BY <2>9, <2>10
  <1> QED BY <1>3, <1>4 DEF Moves

(* The chunk a view shows was the first on its way; what is left goes on after it.     *)
LEMMA ShownChunk ==
    ASSUME LogViewInv, NEW s \in Sockets, up[s] # <<>>, NEW m, m = Head(up[s]),
           Follows(m.req), view' = Push(Lines(m.from, m.to)),
           up' = [up EXCEPT ![s] = Tail(@)], UNCHANGED <<stream, conn, strays, subs, sse>>
    PROVE  Screen(view') /\ \A q \in Requests : Reach(q)'
  <1>1. /\ TypeInv /\ ChunksInv /\ ReachInv /\ Screen(view) /\ ViewOK(view)
        /\ up[s] \in Seq(Messages) /\ m.req \notin strays
    BY DEF LogViewInv, ScreenInv, Follows, Viewed, TypeInv
  <1>2. m \in Messages /\ m = up[s][1] /\ 1 \in 1..Len(up[s])
    <2>1. Len(up[s]) \in Nat /\ Len(up[s]) > 0
      BY <1>1, LenProperties, EmptySeq
    <2>2. m \in Messages
      BY <1>1, HeadTailProperties
    <2> QED BY <1>1, <2>1, <2>2, AboutTail
  <1>3. m.req \in Requests /\ view.req = m.req
    BY <1>1 DEF Follows, Viewed, TypeInv
  <1>4. m.from \in Nat \ {0} /\ m.to \in Nat /\ m.from <= m.to
    BY <1>2, <1>3, MessageFacts
  <1>5. EndsWith(view, m.from - 1)
    <2>1. FirstOf(up[s], m.req, 1)
      BY <1>2 DEF FirstOf
    <2> QED BY <1>1, <1>2, <1>3, <2>1 DEF ReachInv
  <1>6. /\ Screen(view') /\ EndsWith(view', m.to)
        /\ view'.req = view.req /\ view'.link = view.link
    BY <1>1, <1>4, <1>5, PushedScreen, PushedView
  <1>7. \A q \in Requests : q # m.req => Reach(q)'
    BY <1>3, <1>6 DEF Reach, Follows, Viewed
  <1>8. PICK q \in Requests : q = m.req
    BY <1>3
  <1>9. /\ Ordered(up[s], q) /\ Gapless(up[s], q)
        /\ \A t \in Sockets : OneSocket(q, t)
    BY <1>1, <1>8 DEF ChunksInv, QueueOK
  <1>10. PICK b : b = Tail(up[s])
    OBVIOUS
  <1>11. \A t \in Sockets : up'[t] = IF t = s THEN b ELSE up[t]
    BY <1>1, <1>10 DEF TypeInv
  <1>12. \A j \in 1..Len(b) : FirstOf(b, q, j) => m.to + 1 = b[j].from
    BY <1>1, <1>8, <1>9, <1>10, QueueTail
  <1>13. About(up[s], q)
    BY <1>2, <1>8 DEF About
  <1>14. ASSUME NEW t \in Sockets, NEW j \in 1..Len(up'[t]), FirstOf(up'[t], q, j)
         PROVE  EndsWith(view', up'[t][j].from - 1)
    <2>1. CASE t = s
      <3>1. m.to + 1 = b[j].from
        BY <1>11, <1>12, <1>14, <2>1
      <3>2. b[j].from - 1 = m.to
        <4>1. PICK x, z : x = b[j].from /\ z = m.to /\ z \in Int /\ z + 1 = x
          BY <1>4, <3>1
        <4>2. x - 1 = z
          BY <4>1
        <4> QED BY <4>1, <4>2
      <3> QED BY <1>6, <1>11, <2>1, <3>2
    <2>2. CASE t # s
      <3>1. About(up[t], q)
        BY <1>11, <1>14, <2>2 DEF FirstOf, About
      <3> QED BY <1>9, <1>13, <2>2, <3>1 DEF OneSocket
    <2> QED BY <2>1, <2>2
  <1>15. ASSUME Active(q)', ~About(up'[conn'], q)
         PROVE  EndsWith(view', stream'[q].sent)
    <2>1. Active(q)
      BY <1>15 DEF Active
    <2>2. s = conn /\ \E i \in 1..Len(up[s]) : up[s][i].req = q /\ up[s][i].to = stream[q].sent
      BY <1>9, <1>13, <2>1 DEF OneSocket
    <2>3. ~About(b, q)
      BY <1>11, <1>15, <2>2
    <2>4. PICK i \in 1..Len(up[s]) : up[s][i].req = q /\ up[s][i].to = stream[q].sent
      BY <2>2
    <2>5. i = 1
      <3> SUFFICES ASSUME i # 1 PROVE FALSE
        OBVIOUS
      <3>1. /\ Len(b) = Len(up[s]) - 1 /\ Len(up[s]) \in Nat
            /\ \A j \in 1..Len(b) : b[j] = up[s][j + 1]
        BY <1>1, <1>10, HeadTailProperties, LenProperties
      <3>2. i - 1 \in 1..Len(b) /\ (i - 1) + 1 = i
        BY <2>4, <3>1
      <3>3. b[i - 1] = up[s][i]
        BY <3>1, <3>2
      <3> QED BY <2>3, <2>4, <3>2, <3>3 DEF About
    <2> QED BY <1>2, <1>6, <2>4, <2>5
  <1>16. Reach(q)'
    BY <1>14, <1>15 DEF Reach
  <1> QED BY <1>6, <1>7, <1>8, <1>16

---------------------------------------------------------------------------
(* The screen under every step.                                              *)

LEMMA EmptyEnds ==
    ASSUME NEW v, v.entries = <<>>, v.buffer = <<>>
    PROVE  Screen(v) /\ All(v) = <<>>
  <1>1. <<>> \o <<>> = <<>> /\ Len(<<>>) = 0
    BY EmptySeq, ConcatEmptySeq
  <1>2. Consecutive(<<>>)
    BY <1>1 DEF Consecutive
  <1> QED BY <1>1, <1>2 DEF Screen, All

LEMMA ScreenOf ==
    ASSUME NEW v, Screen(view), v.entries = view.entries, v.buffer = view.buffer,
           v.paused \/ v.paused = view.paused
    PROVE  Screen(v) /\ All(v) = All(view)
  BY DEF Screen, All

(* Nothing is left for a request that is not followed, or of an empty view.           *)
LEMMA ReachVacuous ==
    ASSUME NEW q \in Requests, ~Follows(q)' \/ All(view') = <<>>
    PROVE  Reach(q)'
  BY DEF Reach, EndsWith

LEMMA ReachAfterOrder ==
    ASSUME LogViewInv, HandleLogs, NEW q \in Requests
    PROVE  Reach(q)'
  <1>1. TypeInv /\ FreshInv /\ Reach(q)
    BY ReachOfAll DEF LogViewInv
  <1>2. PICK r : r = Head(down).req
    OBVIOUS
  <1>3. /\ \/ stream[r].state = "none" /\ stream' = [stream EXCEPT ![r] = Opened]
           \/ stream[r].state = "none" /\ stream' = [stream EXCEPT ![r].state = "gone"]
           \/ stream' = [stream EXCEPT ![r] = Closing(stream[r])]
        /\ UNCHANGED <<up, conn, strays, view, subs, sse>>
    BY <1>2 DEF HandleLogs, serverVars
  <1>4. Follows(q)' <=> Follows(q)
    BY <1>3 DEF Follows, Viewed
  <1>5. CASE stream[q].state = "none"
    <2>1. Follows(q) => view.entries = <<>> /\ view.buffer = <<>>
      BY <1>1, <1>5 DEF FreshInv, Follows, Viewed
    <2>2. Follows(q)' => All(view') = <<>>
      BY <1>3, <1>4, <2>1, EmptyEnds
    <2> QED BY <2>2, ReachVacuous
  <1>6. CASE stream[q].state # "none"
    <2>1. StreamOK(stream[q], written) /\ stream \in [Requests ->
            [state : Running \cup {"none", "gone"},
             read : 0..MaxLine, taken : 0..MaxLine, sent : 0..MaxLine]]
      BY <1>1 DEF TypeInv
    <2>2. stream'[q] = stream[q] \/ stream'[q] = Closing(stream[q])
      BY <1>3, <1>6, <2>1
    <2>3. /\ Closing(stream[q]).sent = stream[q].sent
          /\ Closing(stream[q]).state \in {stream[q].state, "closing"}
          /\ Closing(stream[q]).state = "closing" => stream[q].state \in Running \ {"orphaned"}
      BY <2>1, ClosingFacts
    <2>4. Active(q)' => Active(q) /\ stream'[q].sent = stream[q].sent
      BY <1>3, <2>2, <2>3 DEF Active
    <2>5. \A s \in Sockets : \A j \in 1..Len(up'[s]) : FirstOf(up'[s], q, j) =>
            \E k \in 1..Len(up[s]) : FirstOf(up[s], q, k) /\ up[s][k] = up'[s][j]
      BY <1>3
    <2>6. Active(q)' /\ ~About(up'[conn'], q) =>
            Active(q) /\ ~About(up[conn], q) /\ stream'[q].sent = stream[q].sent
      BY <1>3, <2>4
    <2> QED BY <1>1, <1>3, <1>4, <2>5, <2>6, ReachHolds
  <1> QED BY <1>5, <1>6

LEMMA ReachAfterConnect ==
    ASSUME LogViewInv, Connect, NEW q \in Requests
    PROVE  Reach(q)'
  <1>1. TypeInv /\ ChunksInv /\ Reach(q)
    BY ReachOfAll DEF LogViewInv
  <1>2. PICK s \in Sockets : conn' = s /\ up' = [up EXCEPT ![s] = <<>>]
    BY DEF Connect
  <1>3. conn = 0 /\ UNCHANGED <<stream, strays, view, subs, sse>>
    BY DEF Connect, serverVars
  <1>4. ~Active(q)'
    BY <1>1, <1>2, <1>3 DEF ChunksInv, Parked, Active, Running
  <1>5. \A x \in Sockets : up'[x] = IF x = s THEN <<>> ELSE up[x]
    BY <1>1, <1>2 DEF TypeInv
  <1>6. \A x \in Sockets : \A j \in 1..Len(up'[x]) : FirstOf(up'[x], q, j) =>
          \E k \in 1..Len(up[x]) : FirstOf(up[x], q, k) /\ up[x][k] = up'[x][j]
    BY <1>5, NothingYet
  <1>7. Follows(q)' <=> Follows(q)
    BY <1>3 DEF Follows, Viewed
  <1> QED BY <1>1, <1>3, <1>4, <1>6, <1>7, ReachHolds

LEMMA ReachAfterRegister ==
    ASSUME LogViewInv, SendRegister, NEW q \in Requests
    PROVE  Reach(q)'
  <1>1. TypeInv /\ Reach(q)
    BY ReachOfAll DEF LogViewInv
  <1>2. PICK u, m : u = up[conn] /\ m = Register
    OBVIOUS
  <1>3. PICK a : a = Append(u, m)
    OBVIOUS
  <1>4. /\ conn \in Sockets /\ u \in Seq(Messages) /\ m \in Messages /\ m.req # q
        /\ UNCHANGED <<stream, conn, strays, view, subs, sse>>
        /\ \A x \in Sockets : up'[x] = IF x = conn THEN a ELSE up[x]
    BY <1>1, <1>2, <1>3, RegisterFacts DEF SendRegister, TypeInv, agentVars, serverVars
  <1>5. /\ a \in Seq(Messages) /\ Len(a) = Len(u) + 1 /\ a[Len(u) + 1] = m
        /\ \A i \in 1..Len(u) : a[i] = u[i]
    BY <1>3, <1>4, AppendProperties
  <1>6. ASSUME NEW j \in 1..Len(a), FirstOf(a, q, j)
        PROVE  j \in 1..Len(u) /\ FirstOf(u, q, j) /\ a[j] = u[j]
    <2>1. j # Len(u) + 1
      BY <1>4, <1>5, <1>6 DEF FirstOf
    <2> QED BY <1>4, <1>5, <1>6, <2>1, FirstOfAppended
  <1>7. \A x \in Sockets : \A j \in 1..Len(up'[x]) : FirstOf(up'[x], q, j) =>
          \E k \in 1..Len(up[x]) : FirstOf(up[x], q, k) /\ up[x][k] = up'[x][j]
    <2> SUFFICES ASSUME NEW x \in Sockets, NEW j \in 1..Len(up'[x]), FirstOf(up'[x], q, j)
                 PROVE  \E k \in 1..Len(up[x]) : FirstOf(up[x], q, k) /\ up[x][k] = up'[x][j]
      OBVIOUS
    <2>1. CASE x = conn
      BY <1>2, <1>4, <1>6, <2>1
    <2>2. CASE x # conn
      BY <1>4, <2>2
    <2> QED BY <2>1, <2>2
  <1>8. About(a, q) <=> About(u, q)
    BY <1>3, <1>4, AboutAppend
  <1>9. Active(q)' /\ ~About(up'[conn'], q) =>
          Active(q) /\ ~About(up[conn], q) /\ stream'[q].sent = stream[q].sent
    BY <1>2, <1>4, <1>8 DEF Active
  <1>10. Follows(q)' <=> Follows(q)
    BY <1>4 DEF Follows, Viewed
  <1> QED BY <1>1, <1>4, <1>7, <1>9, <1>10, ReachHolds

LEMMA ReachAfterSession ==
    ASSUME LogViewInv, SessionEnds, NEW q \in Requests
    PROVE  Reach(q)'
  <1>1. TypeInv /\ ChunksInv /\ Reach(q)
    BY ReachOfAll DEF LogViewInv
  <1>2. conn \in Sockets /\ up[conn] \in Seq(Messages)
    BY <1>1 DEF SessionEnds, TypeInv
  <1>3. PICK n \in 0..Len(up[conn]) : up' = [up EXCEPT ![conn] = SubSeq(up[conn], 1, n)]
    BY DEF SessionEnds
  <1>4. PICK p : p = SubSeq(up[conn], 1, n)
    OBVIOUS
  <1>5. \A x \in Sockets : up'[x] = IF x = conn THEN p ELSE up[x]
    BY <1>1, <1>2, <1>3, <1>4 DEF TypeInv
  <1>6. conn' = 0 /\ UNCHANGED <<strays, view, subs, sse>>
    BY DEF SessionEnds, serverVars
  <1>7. Len(p) = n /\ n \in 0..Len(up[conn]) /\ Len(up[conn]) \in Nat
    BY <1>2, <1>4, SubSeqProperties, LenProperties
  <1>8. \A j \in 1..n : /\ j \in 1..Len(up[conn]) /\ p[j] = up[conn][j]
                        /\ FirstOf(p, q, j) => FirstOf(up[conn], q, j)
    <2>1. \A j \in 1..n : j \in 1..Len(up[conn]) /\ p[j] = up[conn][j]
      BY <1>2, <1>4, <1>7
    <2> QED BY <1>7, <2>1 DEF FirstOf
  <1>9. \A x \in Sockets : \A j \in 1..Len(up'[x]) : FirstOf(up'[x], q, j) =>
          \E k \in 1..Len(up[x]) : FirstOf(up[x], q, k) /\ up[x][k] = up'[x][j]
    BY <1>5, <1>7, <1>8
  <1>10. (Follows(q)' <=> Follows(q)) /\ ~Active(q)'
    BY <1>6 DEF Follows, Viewed, Active
  <1> QED BY <1>1, <1>6, <1>9, <1>10, ReachHolds

(* A message that the view does not show was not about a request it follows.          *)
LEMMA ReachAfterReceive ==
    ASSUME LogViewInv, NEW s \in Sockets, Receive(s)
    PROVE  ScreenInv' /\ \A q \in Requests : Reach(q)'
  <1>1. /\ TypeInv /\ ChunksInv /\ ScreenInv /\ \A q \in Requests : Reach(q)
        /\ up[s] \in Seq(Messages)
    BY ReachOfAll DEF LogViewInv, TypeInv
  <1>2. PICK m : m = Head(up[s])
    OBVIOUS
  <1>3. /\ up[s] # <<>> /\ up' = [up EXCEPT ![s] = Tail(@)]
        /\ UNCHANGED <<stream, conn, strays, subs, sse>>
        /\ \/ m = Register /\ view' = view
           \/ m # Register /\ Follows(m.req) /\ view' = Push(Lines(m.from, m.to))
           \/ m # Register /\ ~Follows(m.req) /\ view' = view
           \/ m # Register /\ view.req \in strays /\ view' = Push(Lines(m.from, m.to))
    BY <1>2 DEF Receive, Follows, Viewed, agentVars, serverVars
  <1>4. CASE Follows(m.req) /\ view' = Push(Lines(m.from, m.to))
    BY <1>2, <1>3, <1>4, ShownChunk DEF ScreenInv
  <1>6. CASE m # Register /\ view.req \in strays /\ view' = Push(Lines(m.from, m.to))
    <2>1. ViewOK(view) /\ m \in Messages
      BY <1>1, <1>2, <1>3, HeadTailProperties DEF TypeInv
    <2>2. m.from \in Nat /\ m.to \in Nat /\ m.from <= m.to
      BY <1>6, <2>1, RegisterFacts DEF Messages, Chunks
    <2>3. view'.req = view.req
      BY <1>6, <2>1, <2>2, PushedView
    <2>4. view'.req \in strays'
      BY <1>3, <1>6, <2>3
    <2> QED BY <2>4, ReachVacuous DEF ScreenInv, Follows, Viewed
  <1>5. CASE view' = view /\ (m = Register \/ ~Follows(m.req))
    <2> SUFFICES ASSUME NEW q \in Requests, Follows(q)' PROVE Reach(q)'
      BY <1>1, <1>3, <1>5, ReachVacuous DEF ScreenInv
    <2>1. Follows(q) /\ m.req # q
      BY <1>3, <1>5, RegisterFacts DEF Follows, Viewed
    <2>2. PICK b : b = Tail(up[s])
      OBVIOUS
    <2>3. \A x \in Sockets : up'[x] = IF x = s THEN b ELSE up[x]
      BY <1>1, <1>3, <2>2 DEF TypeInv
    <2>4. Ordered(up[s], q) /\ Gapless(up[s], q)
      BY <1>1, <1>3, <2>1 DEF ChunksInv, QueueOK, Follows
    <2>5. \A j \in 1..Len(b) : /\ j + 1 \in 1..Len(up[s]) /\ b[j] = up[s][j + 1]
                               /\ FirstOf(b, q, j) => FirstOf(up[s], q, j + 1)
      BY <1>1, <1>2, <1>3, <2>1, <2>2, <2>4, QueueTail
    <2>6. \A x \in Sockets : \A j \in 1..Len(up'[x]) : FirstOf(up'[x], q, j) =>
            \E k \in 1..Len(up[x]) : FirstOf(up[x], q, k) /\ up[x][k] = up'[x][j]
      <3> SUFFICES ASSUME NEW x \in Sockets, NEW j \in 1..Len(up'[x]), FirstOf(up'[x], q, j)
                   PROVE  \E k \in 1..Len(up[x]) : FirstOf(up[x], q, k) /\ up[x][k] = up'[x][j]
        OBVIOUS
      <3>1. CASE x = s
        <4>1. /\ j + 1 \in 1..Len(up[s]) /\ b[j] = up[s][j + 1] /\ FirstOf(up[s], q, j + 1)
          BY <2>3, <2>5, <3>1
        <4>2. PICK k : k = j + 1
          OBVIOUS
        <4> QED BY <2>3, <3>1, <4>1, <4>2
      <3>2. CASE x # s
        BY <2>3, <3>2
      <3> QED BY <3>1, <3>2
    <2>7. About(up[s], q) => About(b, q)
      BY <1>1, <1>2, <1>3, <2>1, <2>2, AboutTail
    <2>8. Active(q)' /\ ~About(up'[conn'], q) =>
            Active(q) /\ ~About(up[conn], q) /\ stream'[q].sent = stream[q].sent
      <3> SUFFICES ASSUME Active(q)', ~About(up'[conn'], q)
                   PROVE  Active(q) /\ ~About(up[conn], q)
        BY <1>3
      <3>1. Active(q) /\ conn \in Sockets
        BY <1>1, <1>3 DEF Active, TypeInv
      <3> QED BY <1>3, <2>3, <2>7, <3>1
    <2> QED BY <1>1, <1>5, <2>1, <2>6, <2>8, ReachHolds
  <1> QED BY <1>3, <1>4, <1>5, <1>6

LEMMA ScreenKept ==
    ASSUME LogViewInv, [LogViewNext]_vars
    PROVE  ScreenInv' /\ \A q \in Requests : Reach(q)'
  <1> DEFINE Good == ScreenInv' /\ \A q \in Requests : Reach(q)'
  <1>1. /\ TypeInv /\ ChunksInv /\ FreshInv /\ ScreenInv /\ \A q \in Requests : Reach(q)
        /\ ViewOK(view)
    BY ReachOfAll DEF LogViewInv, TypeInv
  <1>2. ASSUME NEW r \in Requests, StreamStep(r) PROVE Good
    <2>1. PICK y : Moves(r, y)
      BY <1>1, <1>2, StreamStepMoves
    <2>2. view' = view /\ strays \subseteq strays'
      BY <2>1 DEF Moves
    <2>3. ScreenInv'
      BY <1>1, <2>2 DEF ScreenInv
    <2> QED BY <1>1, <2>1, <2>3, ReachAfterMove
  <1>3. CASE HandleLogs
    BY <1>1, <1>3, ReachAfterOrder DEF HandleLogs, ScreenInv
  <1>4. CASE Connect
    BY <1>1, <1>4, ReachAfterConnect DEF Connect, ScreenInv
  <1>20. CASE SendRegister
    BY <1>1, <1>20, ReachAfterRegister DEF SendRegister, ScreenInv, agentVars
  <1>5. CASE SessionEnds
    BY <1>1, <1>5, ReachAfterSession DEF SessionEnds, ScreenInv
  <1>6. ASSUME NEW s \in Sockets, Receive(s) PROVE Good
    BY <1>6, ReachAfterReceive
  <1>7. ASSUME view' = view, subs' \subseteq subs, sse' \subseteq sse,
               UNCHANGED <<up, conn, stream, strays>>
        PROVE  Good
    <2>1. \A q \in Requests : Follows(q)' => Follows(q)
      BY <1>7 DEF Follows, Viewed
    <2> QED BY <1>1, <1>7, <2>1, ReachSame DEF ScreenInv
  <1>8. CASE \/ Write \/ (\E s \in Sockets : SocketClosed(s))
             \/ (\E r \in Requests : Teardown(r)) \/ UNCHANGED vars
    <2>1. /\ view' = view /\ subs' \subseteq subs /\ sse' \subseteq sse
          /\ UNCHANGED <<up, conn, stream, strays>>
      BY <1>8 DEF Write, SocketClosed, Teardown, agentVars, wireVars, serverVars, vars
    <2> QED BY <1>7, <2>1
  <1>9. ASSUME ScreenInv', view'.link # "open" \/ All(view') = <<>> PROVE Good
    BY <1>9, ReachVacuous DEF ScreenInv, Follows, Viewed
  <1>10. ASSUME NEW r \in Requests, Subscribe(r) PROVE Good
    <2>1. view'.link = "asking" /\ view'.entries = <<>> /\ view'.buffer = <<>>
      BY <1>1, <1>10, ViewSteps DEF Subscribe, Shows
    <2> QED BY <1>9, <2>1, EmptyEnds DEF ScreenInv
  <1>11. CASE Leave
    <2>1. view'.link = "off" /\ view'.entries = <<>> /\ view'.buffer = <<>>
      BY <1>11 DEF Leave, Shows, NoView
    <2> QED BY <1>9, <2>1, EmptyEnds DEF ScreenInv
  <1>12. CASE Clear
    <2>1. view'.entries = <<>> /\ view'.buffer = <<>>
      BY <1>1, <1>12, ClearedView
    <2> QED BY <1>9, <2>1, EmptyEnds DEF ScreenInv
  <1>13. ASSUME view' = Failed, strays' = strays PROVE ScreenInv' /\ view'.link # "open"
    <2>1. /\ view'.link = "done" /\ view'.req = view.req /\ view'.entries = view.entries
          /\ view'.buffer = view.buffer /\ view'.paused = view.paused
      BY <1>1, <1>13, ViewSteps
    <2> QED BY <1>1, <1>13, <2>1, ScreenOf DEF ScreenInv
  <1>14. CASE ResponseEnds
    BY <1>9, <1>13, <1>14 DEF ResponseEnds, Shows, agentVars
  <1>15. ASSUME UNCHANGED <<agentVars, wireVars, serverVars>>, view'.req = view.req,
                view'.link = view.link, Screen(view) => Screen(view'),
                All(view') # <<>> => /\ All(view) # <<>>
                                     /\ All(view')[Len(All(view'))] = All(view)[Len(All(view))]
         PROVE  Good
    <2>1. \A q \in Requests : Follows(q)' => Follows(q)
      BY <1>15 DEF Follows, Viewed, agentVars, serverVars
    <2>2. UNCHANGED <<up, conn, stream, strays>>
      BY <1>15 DEF agentVars, wireVars
    <2> QED BY <1>1, <1>15, <2>1, <2>2, ReachSame DEF ScreenInv
  <1>21. ASSUME UNCHANGED <<agentVars, wireVars, serverVars>>, view'.req = view.req,
                view.req \in strays
         PROVE  Good
    <2>1. view'.req \in strays'
      BY <1>21 DEF agentVars
    <2> QED BY <2>1, ReachVacuous DEF ScreenInv, Follows, Viewed
  <1>16. CASE TogglePause
    <2>0. CASE view.req \in strays
      <3>1. view'.req = view.req
        BY <1>1, <1>16, ResumedView, ViewSteps DEF TogglePause, Shows
      <3> QED BY <1>16, <1>21, <2>0, <3>1 DEF TogglePause, Shows
    <2>1. CASE view.paused /\ view.req \notin strays
      <3>1. PICK v : /\ v = view'
                     /\ v = [view EXCEPT !.paused = FALSE, !.status = "live", !.buffer = <<>>,
                               !.entries = Newest(Keep, view.entries \o view.buffer)]
        BY <1>16, <2>1 DEF TogglePause, Shows
      <3>2. v.req = view.req /\ v.link = view.link
        BY <1>1, <3>1, ResumedView
      <3>0. Screen(view)
        BY <1>1, <2>1 DEF ScreenInv
      <3>3. /\ Screen(v)
            /\ All(v) # <<>> => All(view) # <<>>
            /\ All(v) # <<>> => All(v)[Len(All(v))] = All(view)[Len(All(view))]
        BY <1>1, <3>0, <3>1, ResumedScreen
      <3>4. UNCHANGED <<agentVars, wireVars, serverVars>>
        BY <1>16 DEF TogglePause, Shows
      <3> QED BY <1>15, <3>1, <3>2, <3>3, <3>4
    <2>2. CASE ~view.paused /\ view.req \notin strays
      <3>0. Screen(view)
        BY <1>1, <2>2 DEF ScreenInv
      <3>1. /\ view'.link = view.link /\ view'.req = view.req /\ view'.paused
            /\ view'.entries = view.entries /\ view'.buffer = view.buffer
        BY <1>1, <1>16, <2>2, ViewSteps DEF TogglePause, Shows
      <3>2. Screen(view') /\ All(view') = All(view)
        BY <3>0, <3>1, ScreenOf
      <3>3. UNCHANGED <<agentVars, wireVars, serverVars>>
        BY <1>16 DEF TogglePause, Shows
      <3> QED BY <1>15, <3>1, <3>2, <3>3
    <2> QED BY <2>0, <2>1, <2>2
  <1>17. CASE StreamLogs
    <2>1. view.req \in Requests /\ Fresh(view.req) /\ subs' = subs
      BY <1>1, <1>17 DEF StreamLogs, ViewOK, FreshInv
    <2>2. PICK v : /\ v = view'
                   /\ v = [view EXCEPT !.link = "open",
                                       !.status = IF view.paused THEN "paused" ELSE "live"]
      BY <1>17 DEF StreamLogs
    <2>3. /\ v.req = view.req /\ v.entries = view.entries /\ v.buffer = view.buffer
          /\ v.paused = view.paused
      BY <1>1, <2>1, <2>2, ViewSteps
    <2>4. ScreenInv'
      <3>1. Screen(view) => Screen(v)
        BY <2>3, ScreenOf
      <3>2. strays' = strays
        BY <1>17 DEF StreamLogs, agentVars
      <3> QED BY <1>1, <2>2, <2>3, <3>1, <3>2 DEF ScreenInv
    <2>5. \A q \in Requests : ~Follows(q)'
      BY <2>1, <2>2, <2>3 DEF Follows, Viewed, Fresh
    <2> QED BY <2>4, <2>5, ReachVacuous
  <1>18. ASSUME NEW r \in Requests, StartLogStream(r) PROVE Good
    <2>1. /\ r \in starting /\ sse' \subseteq sse /\ UNCHANGED <<up, conn, stream, strays>>
          /\ \/ subs' = subs \cup {r} /\ view' = view
             \/ subs' = subs /\ (view' = view \/ view' = Failed)
      BY <1>18 DEF StartLogStream, agentVars
    <2>2. CASE view' = Failed
      BY <1>9, <1>13, <2>1, <2>2
    <2>3. CASE view' = view
      <3> SUFFICES ASSUME NEW q \in Requests PROVE Reach(q)'
        BY <1>1, <2>1, <2>3 DEF ScreenInv
      <3>1. CASE q = r
        <4>1. view.req = r => view.entries = <<>> /\ view.buffer = <<>>
          BY <1>1, <2>1 DEF FreshInv, Fresh
        <4>2. Follows(q)' => All(view') = <<>>
          BY <2>3, <3>1, <4>1, EmptyEnds DEF Follows, Viewed
        <4> QED BY <4>2, ReachVacuous
      <3>2. CASE q # r
        <4>1. Follows(q)' => Follows(q)
          BY <2>1, <2>3, <3>2 DEF Follows, Viewed
        <4> QED BY <1>1, <2>1, <2>3, <4>1, ReachSame
      <3> QED BY <3>1, <3>2
    <2> QED BY <2>1, <2>2, <2>3
  <1>19. Good
    BY <1>2, <1>3, <1>4, <1>5, <1>6, <1>8, <1>10, <1>11, <1>12, <1>14, <1>16, <1>17, <1>18, <1>20
    DEF LogViewNext
  <1> QED BY <1>19

---------------------------------------------------------------------------
(* The theorems.                                                             *)

(* The types of LogView hold throughout: the channel between the decoder and the       *)
(* batches (Stream.run) and the two buffers of useContainerLogs keep their bounds.    *)
THEOREM LogViewTypes == LogViewSpec => []LogViewTypeOK
  <1>1. TypeInv => LogViewTypeOK
    BY DEF TypeInv, LogViewTypeOK, StreamOK, ViewOK, View
  <1> QED BY <1>1, TypeInitially, TypeStep, PTL DEF LogViewSpec

(* What is on screen is a piece of the container's log, whatever the pauses, the       *)
(* overflows of the buffer and the reconnections, except when a goroutine outlives the    *)
(* agent's session and sends a batch of the view's stream on the next connection, which   *)
(* Emit through Client.Send allows: what the lost session still carried is then missing. *)
THEOREM ScreenIsContiguous == LogViewSpec => []ViewContiguous
  <1>1. LogViewInit => LogViewInv
    <2> SUFFICES ASSUME LogViewInit PROVE LogViewInv
      OBVIOUS
    <2>1. TypeInv
      BY TypeInitially
    <2>2. \A r : \A s \in Sockets : up[s] = <<>> /\ ~About(up[s], r)
      BY AboutEmpty DEF LogViewInit
    <2>3. Len(<<>>) = 0
      BY EmptySeq
    <2>4. ChunksInv
      BY <2>2, <2>3 DEF ChunksInv, Begun, Parked, QueueOK, OneSocket, Ordered, Gapless, LogViewInit, NoStream
    <2>5. view.entries = <<>> /\ view.buffer = <<>> /\ view.link = "off" /\ view.req = None
      BY DEF LogViewInit, NoView
    <2>6. FreshInv
      BY <2>5 DEF FreshInv, LogViewInit
    <2>7. ScreenInv /\ ReachInv
      BY <2>5, EmptyEnds DEF ScreenInv, ReachInv, Follows, Viewed
    <2> QED BY <2>1, <2>4, <2>6, <2>7 DEF LogViewInv
  <1>2. LogViewInv /\ [LogViewNext]_vars => LogViewInv'
    <2> SUFFICES ASSUME LogViewInv, [LogViewNext]_vars PROVE LogViewInv'
      OBVIOUS
    <2>1. TypeInv /\ ChunksInv /\ FreshInv
      BY DEF LogViewInv
    <2>2. ScreenInv' /\ ReachInv'
      BY ScreenKept, ReachOfAll DEF Reach, ReachInv
    <2> QED BY <2>1, <2>2, TypeStep, ChunksKept, FreshInvKept DEF LogViewInv
  <1>3. LogViewInv => ViewContiguous
    BY DEF LogViewInv, ScreenInv, Screen, ViewContiguous, WholePiece, All
  <1> QED BY <1>1, <1>2, <1>3, PTL DEF LogViewSpec
===========================================================================
