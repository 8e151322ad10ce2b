--------------------------- MODULE ExchangeProofs ----------------------------
(***************************************************************************)
(* Theorems of Exchange, for streams of any length, of any lines in any    *)
(* order the providers send them, cut anywhere: what the client receives   *)
(* and what is metered.                                                    *)
(***************************************************************************)
EXTENDS Exchange, Inductions

-----------------------------------------------------------------------------
(* The reference: what is stripped from a stream. *)

(***************************************************************************)
(* Appending to what was appended.                                         *)
(***************************************************************************)
LEMMA AppendConcat ==
    ASSUME NEW p \in Seq(Lines), NEW q \in Seq(Lines), NEW l \in Lines
    PROVE  Append(p \o q, l) = p \o Append(q, l)
OBVIOUS

(***************************************************************************)
(* Stripped keeps or skips one line after the other.                       *)
(***************************************************************************)
LEMMA StrippedSteps ==
    ASSUME NEW s \in Seq(Lines)
    PROVE  \E kept \in [0..Len(s) -> Seq(Lines)] :
               /\ kept[0] = <<>>
               /\ \A i \in 1..Len(s) :
                    kept[i] = IF Synthetic(s, i) THEN kept[i - 1] ELSE Append(kept[i - 1], s[i])
               /\ Stripped(s) = kept[Len(s)]
<1> DEFINE n == Len(s)
           Kept(k) == k = [i \in 0..n |->
                             IF i = 0 THEN <<>>
                             ELSE IF Synthetic(s, i) THEN k[i - 1] ELSE Append(k[i - 1], s[i])]
           step == [i \in 1..n |-> [q \in Seq(Lines) |->
                                      IF Synthetic(s, i) THEN q ELSE Append(q, s[i])]]
<1>1. n \in Nat /\ \A i \in 1..n : s[i] \in Lines
  OBVIOUS
<1>2. step \in [1..n -> [Seq(Lines) -> Seq(Lines)]]
  <2>1. \A i \in 1..n, q \in Seq(Lines) : Append(q, s[i]) \in Seq(Lines)
    BY <1>1
  <2> HIDE DEF n
  <2> QED
    BY <2>1
<1>3. PICK f \in [0..n -> Seq(Lines)] :
        f[0] = <<>> /\ \A i \in 1..n : f[i] = step[i][f[i - 1]]
  <2> DEFINE V == Seq(Lines)
  <2>1. <<>> \in V /\ step \in [1..n -> [V -> V]]
    BY <1>2
  <2> HIDE DEF n, step, V
  <2>2. \E f : Steps(n, V, <<>>, step, f)
    BY <1>1, <2>1, StepsExist
  <2> QED
    BY <2>2 DEF Steps, V
<1>4. \A i \in 1..n : f[i] = IF Synthetic(s, i) THEN f[i - 1] ELSE Append(f[i - 1], s[i])
  <2> SUFFICES ASSUME NEW i \in 1..n
               PROVE  f[i] = IF Synthetic(s, i) THEN f[i - 1] ELSE Append(f[i - 1], s[i])
    OBVIOUS
  <2>1. i - 1 \in 0..n
    BY <1>1
  <2>2. f[i - 1] \in Seq(Lines)
    BY <2>1
  <2> HIDE DEF n
  <2> QED
    BY <1>3, <2>2
<1>5. Kept(f)
  <2> HIDE DEF n
  <2>1. \A i \in 0..n : i = 0 \/ i \in 1..n
    BY <1>1
  <2>2. \A i \in 0..n :
          f[i] = IF i = 0 THEN <<>>
                 ELSE IF Synthetic(s, i) THEN f[i - 1] ELSE Append(f[i - 1], s[i])
    BY <1>3, <1>4, <2>1
  <2> QED
    BY <2>2
<1> DEFINE g == CHOOSE k : Kept(k)
<1>6. Kept(g)
  <2> HIDE DEF Kept
  <2> QED
    BY <1>5
<1>7. Stripped(s) = g[n]
  BY DEF Stripped
<1> HIDE DEF g
<1>8. DOMAIN g = 0..n
  BY <1>6
<1>9. g[0] = <<>>
  BY <1>1, <1>6
<1>10. \A i \in 1..n : g[i] = IF Synthetic(s, i) THEN g[i - 1] ELSE Append(g[i - 1], s[i])
  <2> SUFFICES ASSUME NEW i \in 1..n
               PROVE  g[i] = IF Synthetic(s, i) THEN g[i - 1] ELSE Append(g[i - 1], s[i])
    OBVIOUS
  <2>1. i \in 0..n /\ i # 0
    BY <1>1
  <2> HIDE DEF n
  <2> QED
    BY <1>6, <2>1
<1> HIDE DEF n, Kept
<1> DEFINE S == {i \in 0..n : g[i] \in Seq(Lines)}
<1>11. \A i \in 0..n : i \in S
  <2>1. 0 \in S
    <3>1. <<>> \in Seq(Lines) /\ 0 \in 0..n
      BY <1>1
    <3> QED
      BY <1>9, <3>1
  <2>2. ASSUME NEW i \in 0..(n - 1), i \in S
        PROVE  i + 1 \in S
    <3>1. i + 1 \in 1..n /\ i + 1 \in 0..n /\ (i + 1) - 1 = i
      BY <1>1
    <3>2. g[i + 1] = IF Synthetic(s, i + 1) THEN g[i] ELSE Append(g[i], s[i + 1])
      BY <1>10, <3>1
    <3>3. g[i] \in Seq(Lines) /\ s[i + 1] \in Lines
      BY <1>1, <2>2, <3>1
    <3>4. Append(g[i], s[i + 1]) \in Seq(Lines)
      BY <3>3
    <3> QED
      BY <3>1, <3>2, <3>3, <3>4
  <2> HIDE DEF S
  <2> QED
    BY <1>1, <2>1, <2>2, Counting
<1>12. g \in [0..n -> Seq(Lines)]
  <2>1. g = [i \in 0..n |-> g[i]]
    BY <1>6, <1>8 DEF Kept
  <2> QED
    BY <1>11, <2>1
<1> QED
  BY <1>7, <1>9, <1>10, <1>12 DEF n

(***************************************************************************)
(* A usage frame reaches no further than its event: after a blank line, or *)
(* at the beginning, a new one is on its own.                              *)
(***************************************************************************)
LEMMA SyntheticFrame ==
    ASSUME NEW s \in Seq(Lines), s = <<>> \/ s[Len(s)] = "blank",
           NEW r \in Seq(Lines), \A i \in 1..(Len(r) - 1) : r[i] # "blank"
    PROVE  /\ \A i \in 1..Len(s) : Synthetic(s \o r, i) <=> Synthetic(s, i)
           /\ \A i \in 1..Len(r) :
                Synthetic(s \o r, Len(s) + i) <=> \E j \in DOMAIN r : r[j] = "usage"
<1> DEFINE t == s \o r
           n == Len(s)
           m == Len(r)
<1>1. /\ n \in Nat /\ m \in Nat /\ Len(t) = n + m
      /\ DOMAIN s = 1..n /\ DOMAIN r = 1..m /\ DOMAIN t = 1..(n + m)
      /\ \A i \in 1..n : t[i] = s[i]
      /\ \A i \in 1..m : t[n + i] = r[i]
  OBVIOUS
<1>2. n > 0 => s[n] = "blank"
  OBVIOUS
<1> HIDE DEF t, n, m
<1>3. \A i, j \in 1..n : SameEvent(t, i, j) <=> SameEvent(s, i, j)
  BY <1>1 DEF SameEvent
<1>4. \A i \in 1..n, j \in 1..m : ~SameEvent(t, i, n + j) /\ ~SameEvent(t, n + j, i)
  <2> SUFFICES ASSUME NEW i \in 1..n, NEW j \in 1..m
               PROVE  ~SameEvent(t, i, n + j) /\ ~SameEvent(t, n + j, i)
    OBVIOUS
  <2>1. n \in i..((n + j) - 1) /\ i <= n + j /\ t[n] = "blank"
    BY <1>1, <1>2
  <2> QED
    BY <2>1 DEF SameEvent
<1>5. \A i, j \in 1..m : SameEvent(t, n + i, n + j)
  <2>1. ASSUME NEW i \in 1..m, NEW j \in 1..m, NEW p \in (n + i)..((n + j) - 1)
        PROVE  t[p] # "blank"
    <3>1. p - n \in 1..(m - 1) /\ p - n \in 1..m /\ n + (p - n) = p
      BY <1>1
    <3>2. t[p] = r[p - n]
      BY <1>1, <3>1
    <3>3. r[p - n] # "blank"
      BY <3>1 DEF m
    <3> QED
      BY <3>2, <3>3
  <2> QED
    BY <2>1 DEF SameEvent
<1>6. \A j \in 1..(n + m) : j \in 1..n \/ \E k \in 1..m : j = n + k
  <2> SUFFICES ASSUME NEW j \in 1..(n + m), j \notin 1..n
               PROVE  j - n \in 1..m /\ j = n + (j - n)
    OBVIOUS
  <2> QED
    BY <1>1
<1>7. \A i \in 1..n : i \in 1..(n + m)
  BY <1>1
<1>8. \A i \in 1..m : n + i \in 1..(n + m)
  BY <1>1
<1>9. \A i \in 1..n : Synthetic(t, i) <=> Synthetic(s, i)
  <2> SUFFICES ASSUME NEW i \in 1..n
               PROVE  Synthetic(t, i) <=> Synthetic(s, i)
    OBVIOUS
  <2>1. ASSUME Synthetic(t, i)
        PROVE  Synthetic(s, i)
    <3>1. PICK j \in 1..(n + m) : t[j] = "usage" /\ SameEvent(t, i, j)
      BY <1>1, <2>1 DEF Synthetic
    <3>2. j \in 1..n
      BY <1>4, <1>6, <3>1
    <3> QED
      BY <1>1, <1>3, <3>1, <3>2 DEF Synthetic
  <2>2. ASSUME Synthetic(s, i)
        PROVE  Synthetic(t, i)
    BY <1>1, <1>3, <1>7, <2>2 DEF Synthetic
  <2> QED
    BY <2>1, <2>2
<1>10. \A i \in 1..m : Synthetic(t, n + i) <=> \E j \in 1..m : r[j] = "usage"
  <2> SUFFICES ASSUME NEW i \in 1..m
               PROVE  Synthetic(t, n + i) <=> \E j \in 1..m : r[j] = "usage"
    OBVIOUS
  <2>1. ASSUME Synthetic(t, n + i)
        PROVE  \E j \in 1..m : r[j] = "usage"
    <3>1. PICK j \in 1..(n + m) : t[j] = "usage" /\ SameEvent(t, n + i, j)
      BY <1>1, <2>1 DEF Synthetic
    <3>2. PICK k \in 1..m : j = n + k
      BY <1>4, <1>6, <3>1
    <3> QED
      BY <1>1, <3>1, <3>2
  <2>2. ASSUME NEW j \in 1..m, r[j] = "usage"
        PROVE  Synthetic(t, n + i)
    <3>1. n + j \in DOMAIN t /\ t[n + j] = "usage" /\ SameEvent(t, n + i, n + j)
      BY <1>1, <1>5, <1>8, <2>2
    <3> QED
      BY <3>1 DEF Synthetic
  <2> QED
    BY <2>1, <2>2
<1> QED
  BY <1>1, <1>9, <1>10 DEF t, n, m

(***************************************************************************)
(* So Stripped takes one event after the other: it skips one with a usage  *)
(* frame and keeps any other as it is.                                     *)
(***************************************************************************)
LEMMA StrippedFrame ==
    ASSUME NEW s \in Seq(Lines), s = <<>> \/ s[Len(s)] = "blank",
           NEW r \in Seq(Lines), \A i \in 1..(Len(r) - 1) : r[i] # "blank"
    PROVE  /\ Stripped(s) \in Seq(Lines)
           /\ Stripped(s \o r) = IF \E j \in DOMAIN r : r[j] = "usage"
                                 THEN Stripped(s) ELSE Stripped(s) \o r
<1> DEFINE t == s \o r
           n == Len(s)
           m == Len(r)
           Dropped == \E j \in DOMAIN r : r[j] = "usage"
<1>1. /\ n \in Nat /\ m \in Nat /\ Len(t) = n + m /\ t \in Seq(Lines)
      /\ \A i \in 1..n : t[i] = s[i]
      /\ \A i \in 1..m : t[n + i] = r[i]
  OBVIOUS
<1>2. PICK a \in [0..n -> Seq(Lines)] :
        /\ a[0] = <<>>
        /\ \A i \in 1..n :
             a[i] = IF Synthetic(s, i) THEN a[i - 1] ELSE Append(a[i - 1], s[i])
        /\ Stripped(s) = a[n]
  BY StrippedSteps
<1>3. PICK b \in [0..(n + m) -> Seq(Lines)] :
        /\ b[0] = <<>>
        /\ \A i \in 1..(n + m) :
             b[i] = IF Synthetic(t, i) THEN b[i - 1] ELSE Append(b[i - 1], t[i])
        /\ Stripped(t) = b[n + m]
  <2> HIDE DEF t
  <2> QED
    BY <1>1, StrippedSteps
<1>4. /\ \A i \in 1..n : Synthetic(t, i) <=> Synthetic(s, i)
      /\ \A i \in 1..m : Synthetic(t, n + i) <=> Dropped
  BY SyntheticFrame
<1> HIDE DEF t, n, Dropped
<1> DEFINE A == {i \in 0..n : b[i] = a[i]}
<1>5. \A i \in 0..n : i \in A
  <2>1. 0 \in A
    BY <1>1, <1>2, <1>3
  <2>2. ASSUME NEW i \in 0..(n - 1), i \in A
        PROVE  i + 1 \in A
    <3> HIDE DEF m
    <3>1. i + 1 \in 1..n /\ i + 1 \in 0..n /\ i + 1 \in 1..(n + m) /\ (i + 1) - 1 = i
      BY <1>1
    <3>2. /\ a[i + 1] = IF Synthetic(s, i + 1) THEN a[i] ELSE Append(a[i], s[i + 1])
          /\ b[i + 1] = IF Synthetic(t, i + 1) THEN b[i] ELSE Append(b[i], t[i + 1])
      BY <1>2, <1>3, <3>1
    <3> QED
      BY <1>1, <1>4, <2>2, <3>1, <3>2
  <2> HIDE DEF A
  <2> QED
    BY <1>1, <2>1, <2>2, Counting
<1>6. b[n] = a[n] /\ a[n] \in Seq(Lines)
  BY <1>1, <1>5
<1> DEFINE B == {i \in 0..m : b[n + i] = IF Dropped THEN a[n] ELSE a[n] \o SubSeq(r, 1, i)}
<1>7. \A i \in 0..m : i \in B
  <2>1. 0 \in B
    <3>1. SubSeq(r, 1, 0) = <<>> /\ a[n] \o <<>> = a[n]
      BY <1>6
    <3>2. n + 0 = n /\ 0 \in 0..m
      BY <1>1
    <3> QED
      BY <1>6, <3>1, <3>2
  <2>2. ASSUME NEW i \in 0..(m - 1), i \in B
        PROVE  i + 1 \in B
    <3>1. /\ i + 1 \in 1..m /\ i + 1 \in 0..m /\ n + (i + 1) \in 1..(n + m)
          /\ (n + (i + 1)) - 1 = n + i
      BY <1>1
    <3>2. b[n + (i + 1)] = IF Dropped THEN b[n + i] ELSE Append(b[n + i], r[i + 1])
      BY <1>1, <1>3, <1>4, <3>1
    <3>3. CASE Dropped
      BY <2>2, <3>1, <3>2, <3>3
    <3>4. CASE ~Dropped
      <4>1. b[n + i] = a[n] \o SubSeq(r, 1, i)
        BY <2>2, <3>4
      <4>2. Append(a[n] \o SubSeq(r, 1, i), r[i + 1]) = a[n] \o SubSeq(r, 1, i + 1)
        <5>1. SubSeq(r, 1, i + 1) = Append(SubSeq(r, 1, i), r[i + 1])
          BY <3>1
        <5>2. SubSeq(r, 1, i) \in Seq(Lines)
          BY <3>1
        <5>3. r[i + 1] \in Lines
          BY <3>1
        <5> DEFINE p == a[n]
                   q == SubSeq(r, 1, i)
                   l == r[i + 1]
        <5>4. p \in Seq(Lines) /\ q \in Seq(Lines) /\ l \in Lines
          BY <1>6, <5>2, <5>3
        <5> HIDE DEF p, q, l
        <5>5. Append(p \o q, l) = p \o Append(q, l)
          BY <5>4, AppendConcat
        <5> QED
          BY <5>1, <5>5 DEF p, q, l
      <4> QED
        BY <3>1, <3>2, <3>4, <4>1, <4>2
    <3> QED
      BY <3>3, <3>4
  <2> HIDE DEF B
  <2> QED
    BY <1>1, <2>1, <2>2, Counting
<1>8. SubSeq(r, 1, m) = r
  OBVIOUS
<1>9. b[n + m] = IF Dropped THEN a[n] ELSE a[n] \o r
  <2>1. m \in 0..m
    BY <1>1
  <2>2. b[n + m] = IF Dropped THEN a[n] ELSE a[n] \o SubSeq(r, 1, m)
    BY <1>7, <2>1
  <2> HIDE DEF m
  <2> QED
    BY <1>8, <2>2
<1> QED
  BY <1>2, <1>3, <1>6, <1>9 DEF t, Dropped

-----------------------------------------------------------------------------
(* The extractors. *)

\* A line the provider sends.
Own(l) == l \notin IF x.provider = "anthropic" THEN OpenAIData ELSE AnthropicData

Includes(s, L) == \E i \in DOMAIN s : s[i] \in L

(***************************************************************************)
(* What one data line of the provider tells its extractor.                 *)
(***************************************************************************)
LEMMA ObserveOne ==
    ASSUME NEW v \in Usage, NEW d \in DataLines, Own(d)
    PROVE  LET w == Observe(v, d)
           IN  /\ w \in Usage
               /\ w.has <=> v.has \/ d \in Authoritative
               /\ d \in Authoritative => w.out = 3
               /\ d \notin Authoritative /\ d # "start" => w.out = v.out
               /\ d \notin Authoritative /\ d # "start" => w.in = v.in
               /\ d = "start" => w.in = 2
               /\ d = "delta" => w.in = v.in
               /\ d \in Authoritative \ {"delta"} => w.in = 2
<1>1. v = [in |-> v.in, out |-> v.out, named |-> v.named, has |-> v.has]
      /\ v.in \in Nat /\ v.out \in Nat /\ v.named \in BOOLEAN /\ v.has \in BOOLEAN
  BY DEF Usage
<1>2. CASE x.provider = "anthropic"
  <2>1. Observe(v, d) = ObserveAnthropic(v, d) /\ d \in {"start", "delta", "ping"}
    BY <1>2 DEF Observe, Own, DataLines, AnthropicData
  <2>2. CASE d = "start"
    <3> DEFINE w == [in |-> 2, out |-> 1, named |-> TRUE, has |-> v.has]
    <3>1. Observe(v, d) = w
      BY <1>1, <2>1, <2>2 DEF ObserveAnthropic
    <3>2. d \notin Authoritative
      BY <2>2 DEF Authoritative
    <3>3. w \in Usage
      BY <1>1 DEF Usage
    <3>4. w.in = 2 /\ w.has = v.has
      OBVIOUS
    <3> HIDE DEF w
    <3> QED
      BY <1>1, <2>2, <3>1, <3>2, <3>3, <3>4
  <2>3. CASE d = "delta"
    <3> DEFINE w == [in |-> v.in, out |-> 3, named |-> v.named, has |-> TRUE]
    <3>1. Observe(v, d) = w
      BY <1>1, <2>1, <2>3 DEF ObserveAnthropic
    <3>2. d \in Authoritative
      BY <2>3 DEF Authoritative
    <3>3. w \in Usage
      BY <1>1 DEF Usage
    <3>4. w.in = v.in /\ w.out = 3 /\ w.has = TRUE
      OBVIOUS
    <3> HIDE DEF w
    <3> QED
      BY <1>1, <2>3, <3>1, <3>2, <3>3, <3>4
  <2>4. CASE d = "ping"
    <3>1. Observe(v, d) = v
      BY <2>1, <2>4 DEF ObserveAnthropic
    <3> QED
      BY <1>1, <2>4, <3>1 DEF Usage, Authoritative
  <2> QED
    BY <2>1, <2>2, <2>3, <2>4
<1>3. CASE x.provider # "anthropic"
  <2>1. Observe(v, d) = ObserveOpenAI(v, d) /\ d \in {"content", "usage", "both", "done"}
    BY <1>3 DEF Observe, Own, DataLines, OpenAIData, AnthropicData
  <2>2. CASE d = "content"
    <3> DEFINE w == [in |-> v.in, out |-> v.out, named |-> TRUE, has |-> v.has]
    <3>1. Observe(v, d) = w
      BY <1>1, <2>1, <2>2 DEF ObserveOpenAI
    <3>2. d \notin Authoritative
      BY <2>2 DEF Authoritative
    <3>3. w \in Usage
      BY <1>1 DEF Usage
    <3>4. w.in = v.in /\ w.out = v.out /\ w.has = v.has
      OBVIOUS
    <3> HIDE DEF w
    <3> QED
      BY <1>1, <2>2, <3>1, <3>2, <3>3, <3>4
  <2>3. CASE d \in {"usage", "both"}
    <3>1. Observe(v, d) = [in |-> 2, out |-> 3, named |-> TRUE, has |-> TRUE]
      BY <2>1, <2>3 DEF ObserveOpenAI
    <3> QED
      BY <2>3, <3>1 DEF Usage, Authoritative
  <2>4. CASE d = "done"
    <3>1. Observe(v, d) = v
      BY <2>1, <2>4 DEF ObserveOpenAI
    <3> QED
      BY <1>1, <2>4, <3>1 DEF Usage, Authoritative
  <2> QED
    BY <2>1, <2>2, <2>3, <2>4
<1> QED
  BY <1>2, <1>3

(***************************************************************************)
(* ObserveAll takes one data line after the other.                         *)
(***************************************************************************)
LEMMA ObserveSteps ==
    ASSUME NEW v \in Usage, NEW ds \in Seq(DataLines), \A i \in DOMAIN ds : Own(ds[i])
    PROVE  \E w : /\ w[0] = v
                  /\ \A i \in 1..Len(ds) : w[i] = Observe(w[i - 1], ds[i])
                  /\ ObserveAll(v, ds) = w[Len(ds)]
<1> DEFINE n == Len(ds)
           Seen(k) == k = [i \in 0..n |-> IF i = 0 THEN v ELSE Observe(k[i - 1], ds[i])]
           step == [i \in 1..n |-> [q \in Usage |-> Observe(q, ds[i])]]
<1>1. n \in Nat /\ DOMAIN ds = 1..n /\ \A i \in 1..n : ds[i] \in DataLines /\ Own(ds[i])
  OBVIOUS
<1>2. step \in [1..n -> [Usage -> Usage]]
  <2>1. \A i \in 1..n, q \in Usage : Observe(q, ds[i]) \in Usage
    BY <1>1, ObserveOne
  <2> HIDE DEF n
  <2> QED
    BY <2>1
<1>3. PICK f : Steps(n, Usage, v, step, f)
  <2> HIDE DEF n, step
  <2> QED
    BY <1>1, <1>2, StepsExist
<1>4. \A i \in 1..n : f[i] = Observe(f[i - 1], ds[i])
  <2> SUFFICES ASSUME NEW i \in 1..n
               PROVE  f[i] = Observe(f[i - 1], ds[i])
    OBVIOUS
  <2>1. i - 1 \in 0..n
    BY <1>1
  <2>2. f[i - 1] \in Usage
    BY <1>3, <2>1 DEF Steps
  <2> HIDE DEF n
  <2> QED
    BY <1>3, <2>2 DEF Steps
<1>5. Seen(f)
  <2> HIDE DEF n
  <2>1. \A i \in 0..n : i = 0 \/ i \in 1..n
    BY <1>1
  <2>2. \A i \in 0..n : f[i] = IF i = 0 THEN v ELSE Observe(f[i - 1], ds[i])
    BY <1>3, <1>4, <2>1 DEF Steps
  <2>3. f = [i \in 0..n |-> f[i]]
    BY <1>3 DEF Steps
  <2> QED
    BY <2>2, <2>3
<1> DEFINE g == CHOOSE k : Seen(k)
<1>6. Seen(g)
  <2> HIDE DEF Seen
  <2> QED
    BY <1>5
<1>7. ObserveAll(v, ds) = g[n]
  BY DEF ObserveAll
<1> HIDE DEF g
<1>8. g[0] = v
  BY <1>1, <1>6
<1>9. \A i \in 1..n : g[i] = Observe(g[i - 1], ds[i])
  <2> SUFFICES ASSUME NEW i \in 1..n
               PROVE  g[i] = Observe(g[i - 1], ds[i])
    OBVIOUS
  <2>1. i \in 0..n /\ i # 0
    BY <1>1
  <2> HIDE DEF n
  <2> QED
    BY <1>6, <2>1
<1> QED
  BY <1>7, <1>8, <1>9

\* What the extractor holds, when it holds anything authoritative.
Accurate(v) ==
    /\ v \in Usage
    /\ v.has => v.out = 3
    /\ x.provider # "anthropic" /\ v.has => v.in = 2

(***************************************************************************)
(* The data lines of an event leave the extractor with the authoritative   *)
(* counts if it had them or they were among the lines, as no               *)
(* message_start follows a message_delta.                                  *)
(***************************************************************************)
LEMMA Observed ==
    ASSUME NEW v, Accurate(v),
           NEW ds \in Seq(DataLines), \A i \in DOMAIN ds : Own(ds[i]),
           StartsFirst(ds), Includes(ds, {"start"}) => ~v.has
    PROVE  LET w == ObserveAll(v, ds)
           IN  /\ Accurate(w)
               /\ w.has <=> v.has \/ Includes(ds, Authoritative)
               /\ x.provider = "anthropic" /\ (v.in = 2 \/ Includes(ds, {"start"})) => w.in = 2
<1> DEFINE n == Len(ds)
<1>1. /\ n \in Nat /\ DOMAIN ds = 1..n
      /\ \A i \in 1..n : ds[i] \in DataLines /\ Own(ds[i])
      /\ v \in Usage
  BY DEF Accurate
<1>2. PICK w : /\ w[0] = v
               /\ \A i \in 1..n : w[i] = Observe(w[i - 1], ds[i])
               /\ ObserveAll(v, ds) = w[n]
  BY <1>1, ObserveSteps
<1> DEFINE Had(i, L) == \E j \in 1..i : ds[j] \in L
           Good(i) == /\ Accurate(w[i])
                      /\ w[i].has <=> v.has \/ Had(i, Authoritative)
                      /\ x.provider = "anthropic" /\ (v.in = 2 \/ Had(i, {"start"})) =>
                             w[i].in = 2
           S == {i \in 0..n : Good(i)}
<1> HIDE DEF n
<1>3. 0 \in S
  <2>1. ~Had(0, Authoritative) /\ ~Had(0, {"start"}) /\ 0 \in 0..n
    BY <1>1
  <2> QED
    BY <1>2, <2>1
<1>4. ASSUME NEW k \in 0..(n - 1), k \in S
      PROVE  k + 1 \in S
  <2> DEFINE i == k + 1
             d == ds[i]
  <2>1. i \in 1..n /\ i \in 0..n /\ i - 1 = k
    BY <1>1
  <2>2. d \in DataLines /\ Own(d) /\ w[i] = Observe(w[k], d)
    BY <1>1, <1>2, <2>1
  <2>3. \A L : Had(i, L) <=> Had(k, L) \/ d \in L
    <3>1. \A j \in 1..i : j \in 1..k \/ j = i
      BY <2>1
    <3>2. i \in 1..i /\ \A j \in 1..k : j \in 1..i
      BY <2>1
    <3> QED
      BY <3>1, <3>2
  <2>4. d = "start" => x.provider = "anthropic" /\ ~w[k].has
    <3> SUFFICES ASSUME d = "start"
                 PROVE  x.provider = "anthropic" /\ ~w[k].has
      OBVIOUS
    <3>1. x.provider = "anthropic"
      BY <2>2 DEF Own, AnthropicData
    <3>2. ~v.has
      <4>1. i \in DOMAIN ds /\ ds[i] \in {"start"}
        BY <1>1, <2>1
      <4>2. Includes(ds, {"start"})
        BY <4>1 DEF Includes
      <4> QED
        BY <4>2
    <3>3. ASSUME NEW j \in 1..k, ds[j] \in Authoritative
          PROVE  FALSE
      <4>1. j \in 1..n /\ j < i
        BY <1>1, <2>1
      <4>2. ds[j] = "delta"
        BY <1>1, <3>1, <3>3, <4>1 DEF Own, OpenAIData, Authoritative
      <4>3. i < j
        BY <1>1, <2>1, <4>1, <4>2 DEF StartsFirst
      <4> QED
        BY <2>1, <4>1, <4>3
    <3> QED
      BY <1>4, <3>1, <3>2, <3>3
  <2>5. x.provider # "anthropic" => d # "delta"
    BY <2>2 DEF Own, AnthropicData
  <2>6. w[k] \in Usage /\ Good(k)
    BY <1>4 DEF Accurate
  <2> HIDE DEF i, d, Had
  <2>7. /\ w[i] \in Usage
        /\ w[i].has <=> w[k].has \/ d \in Authoritative
        /\ d \in Authoritative => w[i].out = 3
        /\ d \notin Authoritative /\ d # "start" => w[i].out = w[k].out
        /\ d \notin Authoritative /\ d # "start" => w[i].in = w[k].in
        /\ d = "start" => w[i].in = 2
        /\ d = "delta" => w[i].in = w[k].in
        /\ d \in Authoritative \ {"delta"} => w[i].in = 2
    BY <2>2, <2>6, ObserveOne
  <2>8. "start" \notin Authoritative
    BY DEF Authoritative
  <2>9. Accurate(w[i])
    BY <2>4, <2>5, <2>6, <2>7, <2>8 DEF Accurate
  <2>10. Good(i)
    BY <2>3, <2>6, <2>7, <2>8, <2>9
  <2> QED
    BY <2>1, <2>10 DEF i
<1>5. Good(n)
  <2> HIDE DEF S
  <2>1. \A i \in 0..n : i \in S
    BY <1>1, <1>3, <1>4, Counting
  <2>2. n \in 0..n
    BY <1>1
  <2> QED
    BY <2>1, <2>2 DEF S
<1> QED
  BY <1>1, <1>2, <1>5 DEF Includes


-----------------------------------------------------------------------------
(* The invariant. *)

\* The event being read is the end of what was read, and what was written
\* before it is whole events.
Framed ==
    /\ x \in Exchanges
    /\ Len(raw) <= Len(seen)
    /\ seen = Flushed \o raw
    /\ pc \in {"start", "sent"} => seen = <<>> /\ out = <<>>
    /\ gone => pc \in {"ended", "done"}
    /\ pc # "streaming" => raw = <<>>
    /\ pc # "done" => event = NoEvent
    /\ pc = "streaming" => Flushed = <<>> \/ Flushed[Len(Flushed)] = "blank"
    /\ raw = <<>> => dataLines = <<>>
    /\ Includes(raw, {"usage"}) <=> Includes(dataLines, {"usage"})

\* The extractor, with the data lines it has yet to see, knows what arrived.
Reported ==
    /\ \A i \in DOMAIN src : Own(src[i])
    /\ \A i \in DOMAIN seen : Own(seen[i])
    /\ \A i \in DOMAIN dataLines : Arrived(dataLines[i])
    /\ StartsFirst(src)
    /\ StartsFirst(dataLines)
    /\ Includes(src, {"start"}) => ~Includes(seen, {"delta"})
    /\ Includes(dataLines, {"start"}) => ~u.has
    /\ Accurate(u)
    /\ u.has \/ Includes(dataLines, Authoritative) <=> Includes(seen, Authoritative)
    /\ x.provider = "anthropic" /\ Includes(seen, {"start"}) =>
         u.in = 2 \/ Includes(dataLines, {"start"})

ExchangeInv ==
    /\ TypeOK
    /\ Framed
    /\ Reported
    /\ PassedThrough
    /\ MeteredAsReported

(***************************************************************************)
(* What a sequence of lines includes, when lines are added and taken.      *)
(***************************************************************************)
LEMMA IncludesAppend ==
    ASSUME NEW s \in Seq(Lines), NEW l \in Lines, NEW L
    PROVE  Includes(Append(s, l), L) <=> Includes(s, L) \/ l \in L
<1> DEFINE t == Append(s, l)
<1>1. /\ Len(s) \in Nat /\ DOMAIN s = 1..Len(s) /\ DOMAIN t = 1..(Len(s) + 1)
      /\ \A i \in 1..Len(s) : t[i] = s[i]
      /\ t[Len(s) + 1] = l
  OBVIOUS
<1>2. \A i \in 1..(Len(s) + 1) : i \in 1..Len(s) \/ i = Len(s) + 1
  BY <1>1
<1>3. Len(s) + 1 \in 1..(Len(s) + 1) /\ \A i \in 1..Len(s) : i \in 1..(Len(s) + 1)
  BY <1>1
<1> HIDE DEF t
<1>4. Includes(t, L) <=> Includes(s, L) \/ l \in L
  BY <1>1, <1>2, <1>3 DEF Includes
<1> QED
  BY <1>4 DEF t

(***************************************************************************)
(* Taking the first line leaves the order of the others.                   *)
(***************************************************************************)
LEMMA TailKeeps ==
    ASSUME NEW s \in Seq(Lines), s # <<>>
    PROVE  /\ Tail(s) \in Seq(Lines)
           /\ Head(s) \in Lines
           /\ Head(s) = s[1]
           /\ 1 \in DOMAIN s
           /\ \A i \in DOMAIN Tail(s) : i + 1 \in DOMAIN s /\ Tail(s)[i] = s[i + 1]
           /\ StartsFirst(s) => StartsFirst(Tail(s))
<1>1. /\ Len(s) \in Nat \ {0} /\ DOMAIN s = 1..Len(s) /\ Head(s) = s[1]
      /\ Tail(s) \in Seq(Lines) /\ Head(s) \in Lines
      /\ DOMAIN Tail(s) = 1..(Len(s) - 1)
      /\ \A i \in 1..(Len(s) - 1) : Tail(s)[i] = s[i + 1]
  OBVIOUS
<1>2. \A i \in 1..(Len(s) - 1) : i \in Nat /\ i + 1 \in 1..Len(s)
  BY <1>1
<1>3. 1 \in 1..Len(s)
  BY <1>1
<1>4. ASSUME StartsFirst(s), NEW i \in 1..(Len(s) - 1), NEW j \in 1..(Len(s) - 1),
             Tail(s)[i] = "start", Tail(s)[j] = "delta"
      PROVE  i < j
  <2>1. i + 1 < j + 1
    BY <1>1, <1>2, <1>4 DEF StartsFirst
  <2> QED
    BY <2>1
<1>5. StartsFirst(s) => StartsFirst(Tail(s))
  <2> DEFINE t == Tail(s)
  <2>1. DOMAIN t = 1..(Len(s) - 1)
    BY <1>1
  <2>2. ASSUME StartsFirst(s), NEW i \in DOMAIN t, NEW j \in DOMAIN t,
               t[i] = "start", t[j] = "delta"
        PROVE  i < j
    BY <1>4, <2>1, <2>2
  <2> HIDE DEF t
  <2>3. StartsFirst(s) => StartsFirst(t)
    BY <2>2 DEF StartsFirst
  <2> QED
    BY <2>3 DEF t
<1> QED
  BY <1>1, <1>2, <1>3, <1>5

(***************************************************************************)
(* What the invariant says of a stream that is being read.                 *)
(***************************************************************************)
LEMMA WhileStreaming ==
    ASSUME ExchangeInv, pc = "streaming"
    PROVE  /\ src \in Seq(Lines) /\ raw \in Seq(Lines) /\ seen \in Seq(Lines)
           /\ out \in Seq(Lines) /\ dataLines \in Seq(DataLines)
           /\ Flushed \in Seq(Lines)
           /\ seen = Flushed \o raw
           /\ Flushed = <<>> \/ Flushed[Len(Flushed)] = "blank"
           /\ \A i \in DOMAIN raw : raw[i] # "blank"
           /\ ~gone
           /\ out = Original(Flushed)
           /\ event = NoEvent
           /\ \A i \in DOMAIN dataLines : Own(dataLines[i])
<1>1. TypeOK /\ Framed /\ Reported /\ PassedThrough
  BY DEF ExchangeInv
<1>2. gone \in BOOLEAN /\ ~gone /\ event = NoEvent
  BY <1>1 DEF TypeOK, Framed
<1>3. out = Original(Flushed)
  BY <1>1, <1>2 DEF PassedThrough
<1>4. raw \in Seq(Lines) /\ \A i \in DOMAIN raw : raw[i] # "blank"
  <2>1. raw \in Seq(Lines \ {"blank"})
    BY <1>1 DEF TypeOK
  <2> DEFINE T == Lines \ {"blank"}
  <2>2. T \subseteq Lines /\ "blank" \notin T /\ raw \in Seq(T)
    BY <2>1
  <2> HIDE DEF T
  <2>3. \A i \in DOMAIN raw : raw[i] \in T
    BY <2>2
  <2>4. raw \in Seq(Lines)
    BY <2>2
  <2> QED
    BY <2>2, <2>3, <2>4
<1>5. seen \in Seq(Lines) /\ Len(raw) <= Len(seen)
  BY <1>1 DEF TypeOK, Framed
<1>6. Flushed \in Seq(Lines)
  <2>1. Len(seen) - Len(raw) \in 0..Len(seen)
    BY <1>4, <1>5
  <2> QED
    BY <1>5, <2>1 DEF Flushed
<1>7. \A i \in DOMAIN dataLines : Own(dataLines[i])
  <2> SUFFICES ASSUME NEW i \in DOMAIN dataLines
               PROVE  Own(dataLines[i])
    OBVIOUS
  <2>1. PICK j \in DOMAIN seen : seen[j] = dataLines[i]
    BY <1>1 DEF Reported, Arrived
  <2>2. Own(seen[j])
    BY <1>1 DEF Reported
  <2> QED
    BY <2>1, <2>2
<1> QED
  BY <1>1, <1>2, <1>3, <1>4, <1>6, <1>7 DEF TypeOK, Framed

-----------------------------------------------------------------------------
(* The end of an event. *)

(***************************************************************************)
(* Adding the end of an event that is being read to what was read.         *)
(***************************************************************************)
LEMMA FrameEnds ==
    ASSUME ExchangeInv, pc = "streaming", NEW r,
           \/ r = raw /\ seen' = seen
           \/ \E l \in {"blank"} \cup Partial : r = Append(raw, l) /\ seen' = Append(seen, l)
    PROVE  /\ r \in Seq(Lines)
           /\ \A i \in 1..(Len(r) - 1) : r[i] # "blank"
           /\ seen' \in Seq(Lines)
           /\ seen' = Flushed \o r
           /\ r = Append(raw, "blank") => seen'[Len(seen')] = "blank"
           /\ \A L : "blank" \notin L /\ L \cap Partial = {} =>
                /\ Includes(r, L) <=> Includes(raw, L)
                /\ Includes(seen', L) <=> Includes(seen, L)
           /\ \A i \in DOMAIN seen' : seen'[i] \in {"blank"} \cup Partial \/ \E j \in DOMAIN seen : seen'[i] = seen[j]
<1>1. /\ raw \in Seq(Lines) /\ seen \in Seq(Lines) /\ Flushed \in Seq(Lines)
      /\ seen = Flushed \o raw /\ \A i \in DOMAIN raw : raw[i] # "blank"
  BY WhileStreaming
<1>2. CASE r = raw /\ seen' = seen
  <2>1. \A i \in 1..(Len(r) - 1) : i \in DOMAIN raw
    BY <1>1, <1>2
  <2>2. r # Append(raw, "blank")
    <3>1. Len(Append(raw, "blank")) = Len(raw) + 1 /\ Len(raw) \in Nat
      BY <1>1
    <3> QED
      BY <1>2, <3>1
  <2> QED
    BY <1>1, <1>2, <2>1, <2>2
<1>3. ASSUME NEW l \in {"blank"} \cup Partial, r = Append(raw, l), seen' = Append(seen, l)
      PROVE  /\ r \in Seq(Lines)
             /\ \A i \in 1..(Len(r) - 1) : r[i] # "blank"
             /\ seen' \in Seq(Lines)
             /\ seen' = Flushed \o r
             /\ r = Append(raw, "blank") => seen'[Len(seen')] = "blank"
             /\ \A L : "blank" \notin L /\ L \cap Partial = {} =>
                  /\ Includes(r, L) <=> Includes(raw, L)
                  /\ Includes(seen', L) <=> Includes(seen, L)
             /\ \A i \in DOMAIN seen' :
                  seen'[i] \in {"blank"} \cup Partial \/ \E j \in DOMAIN seen : seen'[i] = seen[j]
  <2>1. l \in Lines
    BY <1>3 DEF Lines
  <2>2. r \in Seq(Lines) /\ seen' \in Seq(Lines)
    BY <1>1, <1>3, <2>1
  <2>3. \A i \in 1..(Len(r) - 1) : r[i] # "blank"
    <3>1. Len(r) - 1 = Len(raw) /\ \A i \in 1..Len(raw) : r[i] = raw[i]
      BY <1>1, <1>3, <2>1
    <3>2. DOMAIN raw = 1..Len(raw)
      BY <1>1
    <3> QED
      BY <1>1, <3>1, <3>2
  <2>4. seen' = Flushed \o r
    <3> DEFINE p == Flushed
    <3>1. p \in Seq(Lines) /\ seen = p \o raw
      BY <1>1
    <3> HIDE DEF p
    <3>2. Append(p \o raw, l) = p \o Append(raw, l)
      BY <1>1, <2>1, <3>1, AppendConcat
    <3> QED
      BY <1>3, <3>1, <3>2 DEF p
  <2>5. seen'[Len(seen')] = l
    BY <1>1, <1>3, <2>1
  <2>6. r = Append(raw, "blank") => l = "blank"
    <3>1. /\ Append(raw, "blank")[Len(raw) + 1] = "blank"
          /\ Append(raw, l)[Len(raw) + 1] = l
      BY <1>1, <2>1
    <3> QED
      BY <1>3, <3>1
  <2>7. ASSUME NEW L, "blank" \notin L, L \cap Partial = {}
        PROVE  /\ Includes(r, L) <=> Includes(raw, L)
               /\ Includes(seen', L) <=> Includes(seen, L)
    <3>1. l \notin L
      BY <2>7
    <3> QED
      BY <1>1, <1>3, <2>1, <3>1, IncludesAppend
  <2>8. \A i \in DOMAIN seen' :
          seen'[i] \in {"blank"} \cup Partial \/ \E j \in DOMAIN seen : seen'[i] = seen[j]
    <3>1. /\ DOMAIN seen = 1..Len(seen) /\ Len(seen) \in Nat
          /\ DOMAIN Append(seen, l) = 1..(Len(seen) + 1)
          /\ \A i \in 1..Len(seen) : Append(seen, l)[i] = seen[i]
          /\ Append(seen, l)[Len(seen) + 1] = l
      BY <1>1, <2>1
    <3>2. \A i \in 1..(Len(seen) + 1) : i \in 1..Len(seen) \/ i = Len(seen) + 1
      BY <3>1
    <3> QED
      BY <1>3, <3>1, <3>2
  <2> QED
    BY <2>2, <2>3, <2>4, <2>5, <2>6, <2>7, <2>8
<1> QED
  BY <1>2, <1>3

(***************************************************************************)
(* flushEvent at the end of an event, or of the stream, keeps the          *)
(* invariant: what was written is what the reference writes of the events  *)
(* before, and the event is stripped exactly when the reference strips it. *)
(***************************************************************************)
LEMMA FlushKeeps ==
    ASSUME ExchangeInv, pc = "streaming", NEW r, NEW next \in {"streaming", "ended"},
           \/ r = raw /\ seen' = seen
           \/ \E l \in {"blank"} \cup Partial : r = Append(raw, l) /\ seen' = Append(seen, l),
           next = "streaming" => r = Append(raw, "blank"),
           FlushEvent(r, dataLines, next),
           src' = src \/ (src # <<>> /\ src' = Tail(src)),
           UNCHANGED <<x, injected, event>>
    PROVE  ExchangeInv'
<1>1. /\ src \in Seq(Lines) /\ raw \in Seq(Lines) /\ seen \in Seq(Lines)
      /\ out \in Seq(Lines) /\ dataLines \in Seq(DataLines)
      /\ Flushed \in Seq(Lines)
      /\ Flushed = <<>> \/ Flushed[Len(Flushed)] = "blank"
      /\ ~gone
      /\ out = Original(Flushed)
      /\ event = NoEvent
      /\ \A i \in DOMAIN dataLines : Own(dataLines[i])
  BY WhileStreaming
<1>2. /\ r \in Seq(Lines)
      /\ \A i \in 1..(Len(r) - 1) : r[i] # "blank"
      /\ seen' \in Seq(Lines)
      /\ seen' = Flushed \o r
      /\ r = Append(raw, "blank") => seen'[Len(seen')] = "blank"
      /\ \A L : "blank" \notin L /\ L \cap Partial = {} =>
           /\ Includes(r, L) <=> Includes(raw, L)
           /\ Includes(seen', L) <=> Includes(seen, L)
      /\ \A i \in DOMAIN seen' :
           seen'[i] \in {"blank"} \cup Partial \/ \E j \in DOMAIN seen : seen'[i] = seen[j]
  BY FrameEnds
<1>3. TypeOK /\ Framed /\ Reported
  BY DEF ExchangeInv
<1>4. x' = x /\ injected' = injected /\ event' = event
  OBVIOUS
<1>5. /\ u' = ObserveAll(u, dataLines) /\ raw' = <<>> /\ dataLines' = <<>>
      /\ \/ Drops(dataLines) /\ pc' = next /\ out' = out /\ gone' = gone
         \/ ~Drops(dataLines) /\ out' = out \o r /\ pc' = next /\ gone' = gone
         \/ ~Drops(dataLines) /\ gone' = TRUE /\ pc' = "ended" /\ out' = out
  BY DEF FlushEvent, AfterError
<1>6. Flushed' = seen'
  <2>1. Flushed' = SubSeq(seen', 1, Len(seen') - Len(raw'))
    BY DEF Flushed
  <2>2. Len(raw') = 0
    BY <1>5
  <2>3. SubSeq(seen', 1, Len(seen') - 0) = seen'
    BY <1>2
  <2> QED
    BY <2>1, <2>2, <2>3
<1>7. Drops(dataLines) <=> injected /\ \E j \in DOMAIN r : r[j] = "usage"
  <2>1. Drops(dataLines) <=> injected /\ Includes(dataLines, {"usage"})
    BY DEF Drops, IsUsageOnly, Includes
  <2>2. Includes(dataLines, {"usage"}) <=> Includes(r, {"usage"})
    <3>1. "blank" \notin {"usage"} /\ {"usage"} \cap Partial = {}
      BY DEF Partial
    <3> QED
      BY <1>2, <1>3, <3>1 DEF Framed
  <2>3. Includes(r, {"usage"}) <=> \E j \in DOMAIN r : r[j] = "usage"
    BY DEF Includes
  <2> QED
    BY <2>1, <2>2, <2>3
<1>8. /\ Accurate(u')
      /\ u'.has <=> u.has \/ Includes(dataLines, Authoritative)
      /\ x.provider = "anthropic" /\ (u.in = 2 \/ Includes(dataLines, {"start"})) => u'.in = 2
  <2>1. /\ Accurate(u) /\ StartsFirst(dataLines)
        /\ Includes(dataLines, {"start"}) => ~u.has
    BY <1>3 DEF Reported
  <2> DEFINE v == u
             ds == dataLines
  <2>2. /\ Accurate(v) /\ ds \in Seq(DataLines) /\ \A i \in DOMAIN ds : Own(ds[i])
        /\ StartsFirst(ds)
        /\ Includes(ds, {"start"}) => ~v.has
    BY <1>1, <2>1
  <2> HIDE DEF v, ds
  <2> DEFINE w == ObserveAll(v, ds)
  <2>3. /\ Accurate(w)
        /\ w.has <=> v.has \/ Includes(ds, Authoritative)
        /\ x.provider = "anthropic" /\ (v.in = 2 \/ Includes(ds, {"start"})) => w.in = 2
    BY <2>2, Observed
  <2> QED
    BY <1>5, <2>3 DEF v, ds
<1>9. src' \in Seq(Lines)
  BY <1>1, TailKeeps
<1>10. Original(Flushed') \in Seq(Lines) /\ (IF Drops(dataLines) THEN Original(Flushed') = out ELSE Original(Flushed') = out \o r)
  <2> DEFINE s == Flushed
             Dropped == \E j \in DOMAIN r : r[j] = "usage"
  <2>1. s \in Seq(Lines) /\ (s = <<>> \/ s[Len(s)] = "blank") /\ out = Original(s)
        /\ Original(Flushed') = Original(s \o r)
    BY <1>1, <1>2, <1>6
  <2>2. Drops(dataLines) <=> injected /\ Dropped
    BY <1>7
  <2> HIDE DEF s
  <2>3. /\ Stripped(s) \in Seq(Lines)
        /\ Stripped(s \o r) = IF Dropped THEN Stripped(s) ELSE Stripped(s) \o r
    BY <1>2, <2>1, StrippedFrame
  <2> HIDE DEF Dropped
  <2>4. CASE injected
    <3>1. Original(s) = Stripped(s) /\ Original(s \o r) = Stripped(s \o r)
      BY <2>4 DEF Original
    <3>2. Stripped(s) \o r \in Seq(Lines)
      BY <1>2, <2>3
    <3> QED
      BY <2>1, <2>2, <2>3, <2>4, <3>1, <3>2
  <2>5. CASE ~injected
    <3>1. Original(s) = s /\ Original(s \o r) = s \o r
      BY <2>5 DEF Original
    <3>2. s \o r \in Seq(Lines)
      BY <1>2, <2>1
    <3> QED
      BY <2>1, <2>2, <2>5, <3>1, <3>2
  <2> QED
    BY <2>4, <2>5
<1>11. TypeOK'
  <2>1. pc' \in {"streaming", "ended"} /\ gone' \in BOOLEAN
    BY <1>3, <1>5 DEF TypeOK
  <2>2. out' \in Seq(Lines)
    <3>1. out' = out \/ out' = out \o r
      BY <1>5
    <3>2. out \o r \in Seq(Lines)
      BY <1>1, <1>2
    <3> QED
      BY <1>1, <3>1, <3>2
  <2>3. u' \in Usage
    BY <1>8 DEF Accurate
  <2>4. raw' \in Seq(Lines \ {"blank"}) /\ dataLines' \in Seq(DataLines)
    BY <1>5
  <2> QED
    BY <1>2, <1>3, <1>4, <1>9, <2>1, <2>2, <2>3, <2>4 DEF TypeOK
<1>12. Framed'
  <2>1. x' \in Exchanges
    BY <1>3, <1>4 DEF Framed
  <2>2. Len(raw') = 0 /\ Len(seen') \in Nat /\ seen' = Flushed' \o raw'
    <3>1. seen' \o <<>> = seen'
      BY <1>2
    <3> QED
      BY <1>2, <1>5, <1>6, <3>1
  <2>3. pc' \in {"streaming", "ended"} /\ (gone' => pc' = "ended") /\ (pc' = "streaming" => next = "streaming")
    BY <1>1, <1>5
  <2>4. pc' = "streaming" => Flushed'[Len(Flushed')] = "blank"
    BY <1>2, <1>6, <2>3
  <2>5. event' = NoEvent /\ NoEvent' = NoEvent
    BY <1>1, <1>4 DEF NoEvent
  <2>6. ~Includes(raw', {"usage"}) /\ ~Includes(dataLines', {"usage"})
    BY <1>5 DEF Includes
  <2>7. Len(raw') <= Len(seen')
    BY <2>2
  <2> QED
    BY <1>5, <2>1, <2>2, <2>3, <2>4, <2>5, <2>6, <2>7 DEF Framed
<1>13. Reported'
  <2>1. \A i \in DOMAIN src' : \E j \in DOMAIN src : src'[i] = src[j]
    <3>1. CASE src' = src
      BY <3>1
    <3>2. CASE src # <<>> /\ src' = Tail(src)
      <4>1. \A i \in DOMAIN Tail(src) : i + 1 \in DOMAIN src /\ Tail(src)[i] = src[i + 1]
        BY <1>1, <3>2, TailKeeps
      <4> QED
        BY <3>2, <4>1
    <3> QED
      BY <3>1, <3>2
  <2>2. \A l : Own(l)' <=> Own(l)
    BY <1>4 DEF Own
  <2>3. \A l \in {"blank"} \cup Partial : Own(l)
    BY DEF Own, OpenAIData, AnthropicData, Partial
  <2>4. \A i \in DOMAIN src' : Own(src'[i])
    BY <1>3, <2>1 DEF Reported
  <2>5. \A i \in DOMAIN seen' : Own(seen'[i])
    BY <1>2, <1>3, <2>3 DEF Reported
  <2>6. StartsFirst(src')
    BY <1>1, <1>3, TailKeeps DEF Reported
  <2>7. StartsFirst(dataLines')
    BY <1>5 DEF StartsFirst
  <2>8. Includes(src', {"start"}) => Includes(src, {"start"})
    BY <2>1 DEF Includes
  <2>9. /\ Includes(seen', {"delta"}) <=> Includes(seen, {"delta"})
        /\ Includes(seen', {"start"}) <=> Includes(seen, {"start"})
        /\ Includes(seen', Authoritative) <=> Includes(seen, Authoritative)
    <3>1. \A L \in {{"delta"}, {"start"}, Authoritative} :
            "blank" \notin L /\ L \cap Partial = {}
      BY DEF Authoritative, Partial
    <3> QED
      BY <1>2, <3>1
  <2>10. \A L : ~Includes(dataLines', L)
    BY <1>5 DEF Includes
  <2>11. Accurate(u)'
    BY <1>4, <1>8 DEF Accurate
  <2>12. u'.has \/ Includes(dataLines', Authoritative) <=> Includes(seen', Authoritative)
    BY <1>3, <1>8, <2>9, <2>10 DEF Reported
  <2>13. x'.provider = "anthropic" /\ Includes(seen', {"start"}) => u'.in = 2
    BY <1>3, <1>4, <1>8, <2>9 DEF Reported
  <2>14. Includes(src', {"start"}) => ~Includes(seen', {"delta"})
    BY <1>3, <2>8, <2>9 DEF Reported
  <2> QED
    BY <1>5, <2>2, <2>4, <2>5, <2>6, <2>7, <2>10, <2>11, <2>12, <2>13, <2>14 DEF Reported
<1>14. PassedThrough'
  <2>1. Original(Flushed)' = Original(Flushed')
    BY <1>4 DEF Original
  <2> DEFINE o == Original(Flushed')
             c == out \o r
  <2>2. (~gone' => out' = o) /\ (out' = o \/ (out' = out /\ o = c))
    <3>1. /\ o = IF Drops(dataLines) THEN out ELSE c
          /\ \/ Drops(dataLines) /\ out' = out
             \/ ~Drops(dataLines) /\ out' = c
             \/ ~Drops(dataLines) /\ gone' = TRUE /\ out' = out
      BY <1>5, <1>10
    <3> HIDE DEF o, c
    <3> QED
      BY <3>1
  <2>3. out' = o \/ o = out' \o r
    <3> HIDE DEF o
    <3> QED
      BY <2>2
  <2>4. out' \in Seq(Lines) /\ o \in Seq(Lines) /\ r \in Seq(Lines)
    BY <1>1, <1>2, <1>5, <1>10
  <2> HIDE DEF o
  <2>5. IsPrefix(out', o)
    <3>1. CASE out' = o
      BY <2>4, <3>1 DEF IsPrefix
    <3>2. CASE o = out' \o r
      <4>1. Len(o) = Len(out') + Len(r) /\ Len(r) \in Nat /\ Len(out') \in Nat
        BY <2>4, <3>2
      <4>2. SubSeq(out' \o r, 1, Len(out')) = out' /\ SubSeq(out', 1, Len(out')) = out'
        BY <2>4
      <4> QED
        BY <3>2, <4>1, <4>2 DEF IsPrefix
    <3> QED
      BY <2>3, <3>1, <3>2
  <2> QED
    BY <2>1, <2>2, <2>5 DEF PassedThrough, o
<1>15. MeteredAsReported'
  BY <1>1, <1>4 DEF MeteredAsReported, NoEvent
<1> QED
  BY <1>11, <1>12, <1>13, <1>14, <1>15 DEF ExchangeInv

-----------------------------------------------------------------------------
(* The steps. *)

(***************************************************************************)
(* An exchange starts with nothing read, in an order its provider keeps.   *)
(***************************************************************************)
LEMMA InitKeeps == Init => ExchangeInv
<1> SUFFICES ASSUME Init PROVE ExchangeInv
  OBVIOUS
<1>1. /\ x \in Exchanges /\ pc = "start" /\ injected = FALSE /\ src = x.stream
      /\ raw = <<>> /\ dataLines = <<>> /\ out = <<>> /\ u = NoUsage /\ gone = FALSE
      /\ seen = <<>> /\ event = NoEvent
  BY DEF Init
<1>2. /\ x.options \in Options
      /\ x.stream \in Seq(Lines \ Partial)
      /\ \A i \in DOMAIN x.stream :
           x.stream[i] \notin IF x.provider = "anthropic" THEN OpenAIData ELSE AnthropicData
      /\ StartsFirst(x.stream)
  BY <1>1, ExchangeAssumption
<1>3. src \in Seq(Lines)
  <2> DEFINE T == Lines \ Partial
  <2>1. T \subseteq Lines /\ src \in Seq(T)
    BY <1>1, <1>2
  <2> HIDE DEF T
  <2> QED
    BY <2>1
<1>4. u \in Usage /\ ~u.has
  BY <1>1 DEF NoUsage, Usage
<1>5. Flushed = <<>>
  <2>1. Flushed = SubSeq(<<>>, 1, 0)
    BY <1>1 DEF Flushed
  <2> QED
    BY <2>1
<1>6. \A L : ~Includes(seen, L) /\ ~Includes(dataLines, L) /\ ~Includes(raw, L)
  <2>1. \A L : ~Includes(<<>>, L)
    BY DEF Includes
  <2> QED
    BY <1>1, <2>1
<1>7. TypeOK
  <2>1. \A T : <<>> \in Seq(T)
    OBVIOUS
  <2>2. /\ raw \in Seq(Lines \ {"blank"}) /\ dataLines \in Seq(DataLines)
        /\ out \in Seq(Lines) /\ seen \in Seq(Lines)
    BY <1>1, <2>1
  <2> QED
    BY <1>1, <1>2, <1>3, <1>4, <2>2 DEF TypeOK
<1>8. Framed
  BY <1>1, <1>5, <1>6 DEF Framed
<1>9. Reported
  <2>1. \A i \in DOMAIN src : Own(src[i])
    BY <1>1, <1>2 DEF Own
  <2>2. StartsFirst(src) /\ StartsFirst(dataLines)
    BY <1>1, <1>2 DEF StartsFirst
  <2>3. Accurate(u)
    BY <1>4 DEF Accurate
  <2> QED
    BY <1>1, <1>4, <1>6, <2>1, <2>2, <2>3 DEF Reported
<1>10. PassedThrough
  <2>1. Original(Flushed) = <<>>
    BY <1>1, <1>5 DEF Original
  <2> QED
    BY <1>1, <2>1 DEF PassedThrough, IsPrefix
<1>11. MeteredAsReported
  BY <1>1 DEF MeteredAsReported
<1> QED
  BY <1>7, <1>8, <1>9, <1>10, <1>11 DEF ExchangeInv

(***************************************************************************)
(* A step that reads, writes and observes nothing.                         *)
(***************************************************************************)
LEMMA ProgressKeeps ==
    ASSUME ExchangeInv, UNCHANGED <<x, injected, streamVars>>,
           raw = <<>>, pc' \in {"streaming", "ended", "done"},
           pc' = "streaming" => seen = <<>> /\ ~gone,
           pc' # "done" => event' = NoEvent,
           MeteredAsReported'
    PROVE  ExchangeInv'
<1>1. TypeOK /\ Framed /\ Reported /\ PassedThrough
  BY DEF ExchangeInv
<1>2. /\ x' = x /\ injected' = injected /\ src' = src /\ raw' = raw /\ dataLines' = dataLines
      /\ out' = out /\ u' = u /\ gone' = gone /\ seen' = seen
  BY DEF streamVars
<1>3. Flushed' = Flushed
  BY <1>2 DEF Flushed
<1>4. TypeOK'
  BY <1>1, <1>2 DEF TypeOK
<1>5. Framed'
  <2>1. seen = <<>> => Flushed = <<>>
    <3> SUFFICES ASSUME seen = <<>> PROVE Flushed = <<>>
      OBVIOUS
    <3>1. Flushed = SubSeq(<<>>, 1, 0)
      BY DEF Flushed
    <3> QED
      BY <3>1
  <2> QED
    BY <1>1, <1>2, <1>3, <2>1 DEF Framed, NoEvent
<1>6. Reported'
  BY <1>1, <1>2 DEF Reported, Own, Accurate, Arrived
<1>7. PassedThrough'
  BY <1>1, <1>2, <1>3 DEF PassedThrough, Original
<1> QED
  BY <1>4, <1>5, <1>6, <1>7 DEF ExchangeInv

(***************************************************************************)
(* maybeInjectUsage comes before anything is read.                         *)
(***************************************************************************)
LEMMA SendKeeps == ExchangeInv /\ Send => ExchangeInv'
<1> SUFFICES ASSUME ExchangeInv, Send PROVE ExchangeInv'
  OBVIOUS
<1>1. TypeOK /\ Framed /\ Reported /\ PassedThrough
  BY DEF ExchangeInv
<1>2. /\ x' = x /\ src' = src /\ raw' = raw /\ dataLines' = dataLines
      /\ out' = out /\ u' = u /\ gone' = gone /\ seen' = seen /\ event' = event
      /\ pc = "start" /\ pc' \in {"sent", "panicked"} /\ injected' = Injects
  BY DEF Send, streamVars
<1>3. seen = <<>> /\ out = <<>> /\ raw = <<>> /\ event = NoEvent /\ ~gone
  BY <1>1, <1>2 DEF Framed
<1>4. Flushed = <<>> /\ Flushed' = Flushed
  <2>1. Flushed = SubSeq(<<>>, 1, 0)
    BY <1>3 DEF Flushed
  <2>2. Flushed' = Flushed
    BY <1>2 DEF Flushed
  <2> QED
    BY <2>1, <2>2
<1>5. TypeOK'
  <2>1. injected' \in BOOLEAN
    BY <1>2 DEF Injects
  <2> QED
    BY <1>1, <1>2, <2>1 DEF TypeOK
<1>6. Framed'
  BY <1>1, <1>2, <1>3, <1>4 DEF Framed, NoEvent
<1>7. Reported'
  BY <1>1, <1>2 DEF Reported, Own, Accurate, Arrived
<1>8. PassedThrough'
  <2>1. Stripped(<<>>) = <<>>
    <3>1. <<>> \in Seq(Lines) /\ Len(<<>>) = 0
      OBVIOUS
    <3>2. \E kept \in [0..0 -> Seq(Lines)] : kept[0] = <<>> /\ Stripped(<<>>) = kept[0]
      BY <3>1, StrippedSteps
    <3> QED
      BY <3>2
  <2>2. Original(Flushed)' = <<>>
    BY <1>2, <1>4, <2>1 DEF Original
  <2> QED
    BY <1>2, <1>3, <2>2 DEF PassedThrough, IsPrefix
<1>9. MeteredAsReported'
  BY <1>2, <1>3 DEF MeteredAsReported, NoEvent
<1> QED
  BY <1>5, <1>6, <1>7, <1>8, <1>9 DEF ExchangeInv

(***************************************************************************)
(* A line that does not end its event is added to it.                      *)
(***************************************************************************)
LEMMA LineKeeps ==
    ASSUME ExchangeInv, ReadLine, Head(src) # "blank"
    PROVE  ExchangeInv'
<1> DEFINE h == Head(src)
<1>1. TypeOK /\ Framed /\ Reported /\ PassedThrough
  BY DEF ExchangeInv
<1>2. /\ pc = "streaming" /\ src # <<>> /\ src' = Tail(src) /\ seen' = Append(seen, h)
      /\ raw' = Append(raw, h)
      /\ dataLines' = IF h \in DataLines THEN Append(dataLines, h) ELSE dataLines
      /\ pc' = pc /\ out' = out /\ u' = u /\ gone' = gone
      /\ x' = x /\ injected' = injected /\ event' = event
  BY DEF ReadLine, IsData
<1>3. /\ src \in Seq(Lines) /\ raw \in Seq(Lines) /\ seen \in Seq(Lines)
      /\ dataLines \in Seq(DataLines) /\ dataLines \in Seq(Lines)
      /\ Flushed \in Seq(Lines) /\ seen = Flushed \o raw
      /\ ~gone /\ event = NoEvent
  <2>1. DataLines \subseteq Lines
    BY DEF Lines
  <2>2. dataLines \in Seq(DataLines) => dataLines \in Seq(Lines)
    BY <2>1
  <2> QED
    BY <1>2, <2>2, WhileStreaming
<1>4. /\ Tail(src) \in Seq(Lines) /\ h \in Lines /\ h = src[1] /\ 1 \in DOMAIN src
      /\ \A i \in DOMAIN Tail(src) : i + 1 \in DOMAIN src /\ Tail(src)[i] = src[i + 1]
      /\ StartsFirst(src) => StartsFirst(Tail(src))
  BY <1>2, <1>3, TailKeeps
<1>5. Own(h)
  BY <1>1, <1>4 DEF Reported
<1>6. \A l : Own(l)' <=> Own(l)
  BY <1>2 DEF Own
<1> HIDE DEF h
<1>7. \A L : /\ Includes(seen', L) <=> Includes(seen, L) \/ h \in L
             /\ Includes(raw', L) <=> Includes(raw, L) \/ h \in L
  BY <1>2, <1>3, <1>4, IncludesAppend
<1>8. \A L \in SUBSET DataLines : Includes(dataLines', L) <=> Includes(dataLines, L) \/ h \in L
  BY <1>2, <1>3, <1>4, IncludesAppend
<1>9. Authoritative \in SUBSET DataLines /\ {"usage"} \in SUBSET DataLines /\ {"start"} \in SUBSET DataLines
  BY DEF Authoritative, DataLines, OpenAIData, AnthropicData
<1>10. /\ raw' \in Seq(Lines \ {"blank"}) /\ seen' \in Seq(Lines)
       /\ dataLines' \in Seq(DataLines) /\ src' \in Seq(Lines)
  <2>1. h \in Lines \ {"blank"} /\ raw \in Seq(Lines \ {"blank"})
    BY <1>1, <1>4 DEF TypeOK, h
  <2>2. Append(raw, h) \in Seq(Lines \ {"blank"})
    BY <2>1
  <2>3. h \in DataLines => Append(dataLines, h) \in Seq(DataLines)
    BY <1>3
  <2>4. Append(seen, h) \in Seq(Lines)
    BY <1>3, <1>4
  <2> QED
    BY <1>2, <1>3, <1>4, <2>2, <2>3, <2>4
<1>11. Flushed' = Flushed /\ Len(raw') <= Len(seen') /\ raw' # <<>>
  <2>1. /\ Len(raw) \in Nat /\ Len(seen) \in Nat /\ Len(raw) <= Len(seen)
        /\ Len(Append(raw, h)) = Len(raw) + 1 /\ Len(Append(seen, h)) = Len(seen) + 1
    BY <1>1, <1>3, <1>4 DEF Framed
  <2> DEFINE n == Len(seen) - Len(raw)
  <2>2. n \in 0..Len(seen) /\ (Len(seen) + 1) - (Len(raw) + 1) = n
    BY <2>1
  <2>3. Flushed = SubSeq(seen, 1, n) /\ Flushed' = SubSeq(Append(seen, h), 1, n)
    BY <1>2, <2>1, <2>2 DEF Flushed
  <2> HIDE DEF n
  <2>4. SubSeq(Append(seen, h), 1, n) = SubSeq(seen, 1, n)
    BY <1>3, <1>4, <2>2
  <2>5. Len(raw') = Len(raw) + 1 /\ Len(seen') = Len(seen) + 1
    BY <1>2, <2>1
  <2>6. raw' # <<>> /\ Len(raw') <= Len(seen')
    BY <2>1, <2>5
  <2> QED
    BY <2>3, <2>4, <2>6
<1>12. seen' = Flushed \o raw'
  <2> DEFINE p == Flushed
  <2>1. p \in Seq(Lines) /\ seen = p \o raw
    BY <1>3
  <2> HIDE DEF p
  <2>2. Append(p \o raw, h) = p \o Append(raw, h)
    BY <1>3, <1>4, <2>1, AppendConcat
  <2> QED
    BY <1>2, <2>1, <2>2 DEF p
<1>13. \A i \in DOMAIN dataLines' :
         \/ i \in DOMAIN dataLines /\ dataLines'[i] = dataLines[i]
         \/ h \in DataLines /\ i = Len(dataLines) + 1 /\ dataLines'[i] = h
  <2>1. CASE h \in DataLines
    <3>1. /\ Len(dataLines) \in Nat /\ DOMAIN dataLines = 1..Len(dataLines)
          /\ DOMAIN Append(dataLines, h) = 1..(Len(dataLines) + 1)
          /\ \A i \in 1..Len(dataLines) : Append(dataLines, h)[i] = dataLines[i]
          /\ Append(dataLines, h)[Len(dataLines) + 1] = h
      BY <1>3, <2>1
    <3>2. \A i \in 1..(Len(dataLines) + 1) :
            i \in 1..Len(dataLines) \/ i = Len(dataLines) + 1
      BY <3>1
    <3> QED
      BY <1>2, <2>1, <3>1, <3>2
  <2>2. CASE h \notin DataLines
    BY <1>2, <2>2
  <2> QED
    BY <2>1, <2>2
<1>14. TypeOK'
  BY <1>1, <1>2, <1>10 DEF TypeOK
<1>15. Framed'
  <2>1. Includes(raw', {"usage"}) <=> Includes(dataLines', {"usage"})
    BY <1>1, <1>7, <1>8, <1>9 DEF Framed
  <2> QED
    BY <1>1, <1>2, <1>3, <1>11, <1>12, <2>1 DEF Framed, NoEvent
<1>16. Reported'
  <2>1. \A i \in DOMAIN src' : Own(src'[i])
    BY <1>1, <1>2, <1>4 DEF Reported
  <2>2. \A i \in DOMAIN seen' : Own(seen'[i])
    <3>1. /\ Len(seen) \in Nat /\ DOMAIN seen = 1..Len(seen)
          /\ DOMAIN Append(seen, h) = 1..(Len(seen) + 1)
          /\ \A i \in 1..Len(seen) : Append(seen, h)[i] = seen[i]
          /\ Append(seen, h)[Len(seen) + 1] = h
      BY <1>3, <1>4
    <3>2. \A i \in 1..(Len(seen) + 1) : i \in 1..Len(seen) \/ i = Len(seen) + 1
      BY <3>1
    <3> QED
      BY <1>1, <1>2, <1>5, <3>1, <3>2 DEF Reported
  <2>3. \A i \in DOMAIN dataLines' : \E j \in DOMAIN seen' : seen'[j] = dataLines'[i]
    <3>1. \A l : Arrived(l) <=> Includes(seen, {l})
      BY DEF Arrived, Includes
    <3>2. \A i \in DOMAIN dataLines' : Includes(seen', {dataLines'[i]})
      BY <1>1, <1>7, <1>13, <3>1 DEF Reported
    <3> QED
      BY <3>2 DEF Includes
  <2>4. StartsFirst(src')
    BY <1>1, <1>2, <1>4 DEF Reported
  <2>5. h = "start" => Includes(src, {"start"})
    BY <1>4 DEF Includes
  <2>6. StartsFirst(dataLines')
    <3> SUFFICES ASSUME NEW i \in DOMAIN dataLines', NEW j \in DOMAIN dataLines',
                        dataLines'[i] = "start", dataLines'[j] = "delta"
                 PROVE  i < j
      BY DEF StartsFirst
    <3>1. DOMAIN dataLines = 1..Len(dataLines) /\ Len(dataLines) \in Nat
      BY <1>3
    <3>2. CASE i \in DOMAIN dataLines /\ j \in DOMAIN dataLines
      BY <1>1, <1>13, <3>1, <3>2 DEF Reported, StartsFirst
    <3>3. CASE i \in DOMAIN dataLines /\ j \notin DOMAIN dataLines
      BY <1>13, <3>1, <3>3
    <3>4. CASE i \notin DOMAIN dataLines
      <4>1. h = "start" /\ i = Len(dataLines) + 1
        BY <1>13, <3>4
      <4>2. j \in DOMAIN dataLines /\ dataLines[j] = "delta"
        BY <1>13, <4>1
      <4>3. Includes(seen, {"delta"})
        BY <1>1, <4>2 DEF Reported, Arrived, Includes
      <4> QED
        BY <1>1, <2>5, <4>1, <4>3 DEF Reported
    <3> QED
      BY <3>2, <3>3, <3>4
  <2>7. Includes(src', {"start"}) => ~Includes(seen', {"delta"})
    <3> SUFFICES ASSUME Includes(src', {"start"}), Includes(seen', {"delta"})
                 PROVE  FALSE
      OBVIOUS
    <3>1. PICK i \in DOMAIN src' : src'[i] = "start"
      BY DEF Includes
    <3>2. i + 1 \in DOMAIN src /\ src[i + 1] = "start"
      BY <1>2, <1>4, <3>1
    <3>3. Includes(src, {"start"})
      BY <3>2 DEF Includes
    <3>4. h = "delta"
      BY <1>1, <1>7, <3>3 DEF Reported
    <3>5. i + 1 < 1
      BY <1>1, <1>4, <3>2, <3>4 DEF Reported, StartsFirst
    <3>6. i \in Nat
      BY <1>2, <1>4, <3>1
    <3> QED
      BY <3>5, <3>6
  <2>8. Includes(dataLines', {"start"}) => ~u.has
    <3> SUFFICES ASSUME h = "start", u.has
                 PROVE  FALSE
      BY <1>1, <1>8, <1>9 DEF Reported
    <3>1. ~Includes(seen, {"delta"}) /\ Includes(seen, Authoritative)
      BY <1>1, <2>5 DEF Reported
    <3>2. PICK i \in DOMAIN seen : seen[i] \in Authoritative
      BY <3>1 DEF Includes
    <3>3. x.provider = "anthropic"
      BY <1>5 DEF Own, AnthropicData
    <3>4. Own(seen[i])
      BY <1>1 DEF Reported
    <3>5. seen[i] = "delta"
      BY <3>2, <3>3, <3>4 DEF Own, OpenAIData, Authoritative
    <3> QED
      BY <3>1, <3>5 DEF Includes
  <2>9. Accurate(u)'
    BY <1>1, <1>2 DEF Reported, Accurate
  <2>10. u.has \/ Includes(dataLines', Authoritative) <=> Includes(seen', Authoritative)
    BY <1>1, <1>7, <1>8, <1>9 DEF Reported
  <2>11. x.provider = "anthropic" /\ Includes(seen', {"start"}) =>
           u.in = 2 \/ Includes(dataLines', {"start"})
    BY <1>1, <1>7, <1>8, <1>9 DEF Reported
  <2> QED
    BY <1>2, <1>6, <2>1, <2>2, <2>3, <2>4, <2>6, <2>7, <2>8, <2>9, <2>10, <2>11
       DEF Reported, Arrived
<1>17. PassedThrough'
  BY <1>1, <1>2, <1>11 DEF PassedThrough, Original
<1>18. MeteredAsReported'
  BY <1>2, <1>3 DEF MeteredAsReported, NoEvent
<1> QED
  BY <1>14, <1>15, <1>16, <1>17, <1>18 DEF ExchangeInv

(***************************************************************************)
(* The end of the stream, or its break, after whole events only.           *)
(***************************************************************************)
LEMMA ClosesKeeps ==
    ASSUME ExchangeInv, pc = "streaming", NEW r, Closes(r, dataLines, "ended"),
           \/ r = raw /\ seen' = seen
           \/ \E l \in Partial : r = Append(raw, l) /\ seen' = Append(seen, l),
           UNCHANGED <<x, injected, src, event>>
    PROVE  ExchangeInv'
<1>1. CASE r = <<>>
  <2>1. \A l \in Partial : Append(raw, l) # <<>>
    <3>1. raw \in Seq(Lines)
      BY WhileStreaming
    <3>2. Append(raw, "cut") # <<>> /\ Append(raw, "cutUsage") # <<>>
      <4>1. "cut" \in Lines /\ "cutUsage" \in Lines
        BY DEF Lines, Partial
      <4> QED
        BY <3>1, <4>1
    <3> QED
      BY <3>2 DEF Partial
  <2>2. r = raw /\ seen' = seen
    BY <1>1, <2>1, WhileStreaming
  <2>3. /\ pc' = "ended" /\ UNCHANGED <<raw, dataLines, out, u, gone>>
    BY <1>1 DEF Closes
  <2>4. UNCHANGED <<x, injected, streamVars>>
    BY <2>2, <2>3 DEF streamVars
  <2>5. event = NoEvent
    BY WhileStreaming
  <2>6. MeteredAsReported'
    BY <2>5 DEF MeteredAsReported, NoEvent
  <2> QED
    BY <1>1, <2>2, <2>3, <2>4, <2>5, <2>6, ProgressKeeps
<1>2. CASE r # <<>>
  <2>1. FlushEvent(r, dataLines, "ended")
    BY <1>2 DEF Closes
  <2>2. \/ r = raw /\ seen' = seen
        \/ \E l \in {"blank"} \cup Partial : r = Append(raw, l) /\ seen' = Append(seen, l)
    OBVIOUS
  <2> QED
    BY <2>1, <2>2, FlushKeeps
<1> QED
  BY <1>1, <1>2

(***************************************************************************)
(* An exchange that never streamed is metered whatever it is metered with. *)
(***************************************************************************)
LEMMA MeteredUnread ==
    ASSUME ExchangeInv, pc = "sent", pc' = "done", UNCHANGED <<x, injected, streamVars>>
    PROVE  ExchangeInv'
<1>1. seen = <<>> /\ raw = <<>> /\ seen' = seen
  BY DEF ExchangeInv, Framed, streamVars
<1>2. MeteredAsReported'
  BY <1>1 DEF MeteredAsReported
<1> QED
  BY <1>1, <1>2, ProgressKeeps

(***************************************************************************)
(* The event of a stream carries what the extractor holds in the end.      *)
(***************************************************************************)
LEMMA MeterKeeps == ExchangeInv /\ MeterStream => ExchangeInv'
<1> SUFFICES ASSUME ExchangeInv, MeterStream PROVE ExchangeInv'
  OBVIOUS
<1>1. /\ pc = "ended" /\ pc' = "done" /\ UNCHANGED <<x, injected, streamVars>>
      /\ event' = [in |-> u.in, out |-> u.out, estimated |-> ~u.has,
                   cost |-> Cost(ModelOr(u.named), u.in, u.out)]
  BY DEF MeterStream, Enqueue
<1>2. event'.in = u.in /\ event'.out = u.out /\ event'.estimated = ~u.has
  BY <1>1
<1>3. raw = <<>> /\ dataLines = <<>> /\ Reported
  BY <1>1 DEF ExchangeInv, Framed
<1>4. u.has <=> Includes(seen, Authoritative)
  <2>1. ~Includes(dataLines, Authoritative)
    BY <1>3 DEF Includes
  <2> QED
    BY <1>3, <2>1 DEF Reported
<1>5. Includes(seen, Authoritative) <=> \E l \in Authoritative : Arrived(l)
  BY DEF Includes, Arrived
<1>6. Accurate(u) /\ u.has \in BOOLEAN
  BY <1>3 DEF Reported, Accurate, Usage
<1>7. x.provider = "anthropic" /\ Arrived("start") => u.in = 2
  <2>1. ~Includes(dataLines, {"start"})
    BY <1>3 DEF Includes
  <2>2. Arrived("start") => Includes(seen, {"start"})
    BY DEF Includes, Arrived
  <2> QED
    BY <1>3, <2>1, <2>2 DEF Reported
<1>8. x' = x /\ seen' = seen
  BY <1>1 DEF streamVars
<1>9. MeteredAsReported'
  <2>1. \A l : Arrived(l)' <=> Arrived(l)
    BY <1>8 DEF Arrived
  <2>2. event'.estimated = ~\E l \in Authoritative : Arrived(l)
    BY <1>2, <1>4, <1>5, <1>6
  <2>3. ~event'.estimated => event'.out = 3
    BY <1>2, <1>6 DEF Accurate
  <2>4. ~event'.estimated /\ (x.provider = "anthropic" => Arrived("start")) => event'.in = 2
    BY <1>2, <1>6, <1>7 DEF Accurate
  <2> QED
    BY <1>8, <2>1, <2>2, <2>3, <2>4 DEF MeteredAsReported, Authoritative
<1> QED
  BY <1>1, <1>3, <1>9, ProgressKeeps

(***************************************************************************)
(* Every step keeps the invariant.                                         *)
(***************************************************************************)
LEMMA NextKeeps == ExchangeInv /\ [Next]_vars => ExchangeInv'
<1> SUFFICES ASSUME ExchangeInv, [Next]_vars PROVE ExchangeInv'
  OBVIOUS
<1>1. CASE Send
  BY <1>1, SendKeeps
<1>2. CASE UpstreamFails \/ Buffered
  BY <1>2, MeteredUnread DEF UpstreamFails, Buffered, Enqueue
<1>3. CASE StartStream
  <2>1. /\ pc = "sent" /\ pc' = "streaming" /\ event' = event
        /\ UNCHANGED <<x, injected, streamVars>>
    BY <1>3 DEF StartStream
  <2>2. seen = <<>> /\ raw = <<>> /\ ~gone /\ event = NoEvent
    BY <2>1 DEF ExchangeInv, Framed
  <2>3. MeteredAsReported'
    BY <2>1, <2>2 DEF MeteredAsReported, NoEvent
  <2> QED
    BY <2>1, <2>2, <2>3, ProgressKeeps
<1>4. CASE ReadLine
  <2>1. CASE Head(src) # "blank"
    BY <1>4, <2>1, LineKeeps
  <2>2. CASE Head(src) = "blank"
    <3> DEFINE r == Append(raw, "blank")
    <3>1. /\ pc = "streaming" /\ src # <<>> /\ src' = Tail(src)
          /\ r = Append(raw, "blank") /\ seen' = Append(seen, "blank")
          /\ FlushEvent(r, dataLines, "streaming")
          /\ UNCHANGED <<x, injected, event>>
      BY <1>4, <2>2 DEF ReadLine
    <3>2. /\ \/ r = raw /\ seen' = seen
             \/ \E l \in {"blank"} \cup Partial : r = Append(raw, l) /\ seen' = Append(seen, l)
          /\ src' = src \/ (src # <<>> /\ src' = Tail(src))
      BY <3>1
    <3> HIDE DEF r
    <3> QED
      BY <3>1, <3>2, FlushKeeps
  <2> QED
    BY <2>1, <2>2
<1>5. CASE EndOfStream
  BY <1>5, ClosesKeeps DEF EndOfStream
<1>6. CASE StreamBreaks
  <2>1. pc = "streaming" /\ UNCHANGED <<x, injected, src, event>>
    BY <1>6 DEF StreamBreaks
  <2>2. CASE Closes(raw, dataLines, AfterError) /\ UNCHANGED seen
    BY <2>1, <2>2, ClosesKeeps DEF AfterError
  <2>3. ASSUME NEW l \in Partial, Closes(Append(raw, l), dataLines, AfterError),
               seen' = Append(seen, l)
        PROVE  ExchangeInv'
    <3> DEFINE r == Append(raw, l)
    <3>1. /\ Closes(r, dataLines, "ended")
          /\ \E q \in Partial : r = Append(raw, q) /\ seen' = Append(seen, q)
      BY <2>3 DEF AfterError
    <3> HIDE DEF r
    <3> QED
      BY <2>1, <3>1, ClosesKeeps
  <2>4. CutOf(Head(src)) \in Partial
    BY DEF CutOf, Partial
  <2> QED
    BY <1>6, <2>2, <2>3, <2>4 DEF StreamBreaks
<1>7. CASE MeterStream
  BY <1>7, MeterKeeps
<1>8. CASE UNCHANGED vars
  BY <1>8 DEF vars, streamVars, ExchangeInv, TypeOK, Framed, Reported, PassedThrough,
              MeteredAsReported, Flushed, Original, Own, Accurate, Arrived, NoEvent
<1> QED
  BY <1>1, <1>2, <1>3, <1>4, <1>5, <1>6, <1>7, <1>8 DEF Next, Step, Finished

(***************************************************************************)
(* The invariant of an exchange.                                           *)
(***************************************************************************)
THEOREM ExchangeKept == Spec => []ExchangeInv
<1>1. Init => ExchangeInv
  BY InitKeeps
<1>2. ExchangeInv /\ [Next]_vars => ExchangeInv'
  BY NextKeeps
<1> QED
  BY <1>1, <1>2, PTL DEF Spec

-----------------------------------------------------------------------------
(* The theorems. *)

(***************************************************************************)
(* The variables of an exchange stay in their types.                       *)
(***************************************************************************)
THEOREM ExchangeTypeCorrect == Spec => []TypeOK
<1>1. ExchangeInv => TypeOK
  BY DEF ExchangeInv
<1> QED
  BY <1>1, ExchangeKept, PTL

(***************************************************************************)
(* Whatever the provider sends, and wherever the stream is cut, the client *)
(* receives the events read so far, less the usage frames it did not ask   *)
(* for that were read whole, or, once a write failed, a prefix of them     *)
(* (streamSSE).                                                            *)
(***************************************************************************)
THEOREM StreamPassedThrough == Spec => []PassedThrough
<1>1. ExchangeInv => PassedThrough
  BY DEF ExchangeInv
<1> QED
  BY <1>1, ExchangeKept, PTL

(***************************************************************************)
(* A stream is metered with the provider's counts exactly when they        *)
(* arrived (streamResponse).                                               *)
(***************************************************************************)
THEOREM StreamMetered == Spec => []MeteredAsReported
<1>1. ExchangeInv => MeteredAsReported
  BY DEF ExchangeInv
<1> QED
  BY <1>1, ExchangeKept, PTL
=============================================================================
