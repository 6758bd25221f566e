----------------------------- MODULE ConfigProofs -----------------------------
(***************************************************************************)
(* Whatever environments the process may be started in, Load and Validate  *)
(* accept the ones that keep the rules, and the consumers choose what was  *)
(* asked for. The invariant says, at each point of run(), what every field *)
(* of the Config holds in terms of the environment: as it was loaded up to *)
(* the check that rewrites it, and normalized afterwards.                  *)
(***************************************************************************)
EXTENDS Config, Induction, SequenceTheorems

-----------------------------------------------------------------------------
\* Strings and what the trimming of config.go makes of them.

\* An optional value is absent or one value.
LEMMA AtMostOne ==
  ASSUME NEW S, NEW v \in Optional(S)
  PROVE  v = <<>> \/ (v[1] \in S /\ v = <<v[1]>> /\ v # <<>>)
<1>1. v \in Seq(S) /\ Len(v) <= 1
  BY DEF Optional
<1>2. Len(v) = 0 \/ Len(v) = 1
  <2>1. PICK k \in Nat : k = Len(v)
    BY <1>1, LenProperties, Zenon
  <2>2. k <= 1
    BY <1>1, <2>1, Zenon
  <2>3. k = 0 \/ k = 1
    BY <2>2
  <2> QED
    BY <2>1, <2>3, Zenon
<1>3. CASE Len(v) = 0
  BY <1>1, <1>3
<1>4. CASE Len(v) = 1
  <2>1. v = <<v[1]>>
    BY <1>1, <1>4
  <2>2. v[1] \in S
    BY <1>1, <1>4
  <2>3. v # <<>>
    BY <1>4
  <2> QED
    BY <2>1, <2>2, <2>3
<1> QED
  BY <1>2, <1>3, <1>4

\* A string is its word and its form.
LEMMA StringOf ==
  ASSUME NEW s \in Strings
  PROVE  /\ s.word \in Words /\ s.form \subseteq {"case", "spaces"}
         /\ s.word = "" => s.form \subseteq {"spaces"}
         /\ s = [word |-> s.word, form |-> s.form]
  BY DEF Strings

\* A string equals a literal exactly when it has its word and no other form.
LEMMA ExactString ==
  ASSUME NEW w
  PROVE  /\ Exact(w).word = w /\ Exact(w).form = {}
         /\ \A s \in Strings : s = Exact(w) <=> s.word = w /\ s.form = {}
         /\ w \in Words => Exact(w) \in Strings
<1>1. Exact(w) = [word |-> w, form |-> {}]
  BY DEF Exact, Spelling
<1>2. ASSUME w \in Words PROVE Exact(w) \in Strings
  <2>1. [word |-> w, form |-> {}] \in [word : Words, form : SUBSET {"case", "spaces"}]
    BY <1>2
  <2>2. "case" \notin [word |-> w, form |-> {}].form
    OBVIOUS
  <2> QED
    BY <1>1, <2>1, <2>2 DEF Strings
<1>3. ASSUME NEW s \in Strings, s.word = w, s.form = {} PROVE s = Exact(w)
  BY <1>1, <1>3, StringOf
<1> QED
  BY <1>1, <1>2, <1>3

\* TrimSpace keeps the word, drops the spaces, and is done after one call; only
\* a blank string is empty afterwards.
LEMMA Trimmed ==
  ASSUME NEW s \in Strings
  PROVE  /\ TrimSpace(s) \in Strings
         /\ TrimSpace(s).word = s.word
         /\ "spaces" \notin TrimSpace(s).form
         /\ TrimSpace(s) = Empty <=> Blank(s)
         /\ TrimSpace(TrimSpace(s)) = TrimSpace(s)
<1> DEFINE t == TrimSpace(s)
<1>1. t = [word |-> s.word, form |-> s.form \ {"spaces"}]
  <2>1. PICK w, f : s = [word |-> w, form |-> f]
    BY StringOf
  <2>2. [[word |-> w, form |-> f] EXCEPT !.form = f \ {"spaces"}]
           = [word |-> w, form |-> f \ {"spaces"}]
    OBVIOUS
  <2>3. s.word = w /\ s.form = f
    BY <2>1
  <2> QED
    BY <2>1, <2>2, <2>3 DEF TrimSpace
<1>2. t \in Strings
  BY <1>1, StringOf DEF Strings
<1>3. t.word = s.word /\ t.form = s.form \ {"spaces"}
  BY <1>1
<1>4. TrimSpace(t) = t
  BY <1>1 DEF TrimSpace
<1>5. t = Empty <=> s.word = ""
  <2>1. t = Exact("") <=> t.word = "" /\ t.form = {}
    <3>1. \A w : \A x \in Strings : x = Exact(w) <=> x.word = w /\ x.form = {}
      BY ExactString, Zenon
    <3> HIDE DEF t
    <3> QED
      BY <1>2, <3>1, Zenon
  <2>2. s.word = "" => s.form \ {"spaces"} = {}
    BY StringOf
  <2> QED
    BY <1>3, <2>1, <2>2 DEF Empty
<1> QED
  BY <1>2, <1>3, <1>4, <1>5 DEF Blank

-----------------------------------------------------------------------------
\* The lists of roles, scopes and claim paths.

Values(s) == {s[i] : i \in DOMAIN s}

\* The positions up to k of what a list really names.
Named(values, k) == {i \in 1..k : ~ Blank(values[i])}

\* The places where a list has the value x, and the ones up to k where it names
\* x once it is trimmed.
Places(s, x) == {i \in DOMAIN s : s[i] = x}
NamedAs(values, k, x) == {i \in Named(values, k) : TrimSpace(values[i]) = x}

\* kept holds what is named up to k, trimmed, once for every time it is.
Keeps(kept, values, k) ==
    /\ kept \in Seq(Strings)
    /\ Values(kept) = {TrimSpace(values[i]) : i \in Named(values, k)}
    /\ \A x : Cardinality(Places(kept, x)) = Cardinality(NamedAs(values, k, x))

\* The loop of normalizeCSVValues.
KeepsOn(g, values) ==
    /\ g \in [0..Len(values) -> Seq(Strings)]
    /\ g[0] = <<>>
    /\ \A i \in 1..Len(values) :
          g[i] = IF TrimSpace(values[i]) = Empty THEN g[i - 1]
                 ELSE Append(g[i - 1], TrimSpace(values[i]))

\* The recursive function inside normalizeCSVValues is the one its equations
\* describe.
LEMMA KeptIsGenerated ==
  ASSUME NEW values \in Seq(Strings)
  PROVE  \E g : KeepsOn(g, values) /\ normalizeCSVValues(values) = g[Len(values)]
<1> DEFINE n == Len(values)
           D == Seq(Strings)
           More(kept, i) == IF TrimSpace(values[i]) = Empty THEN kept
                            ELSE Append(kept, TrimSpace(values[i]))
           step == [i \in 1..n |-> [kept \in D |-> More(kept, i)]]
           IsKept(g) == g = [i \in 0..n |-> IF i = 0 THEN <<>> ELSE
                               IF TrimSpace(values[i]) = Empty THEN g[i - 1]
                               ELSE Append(g[i - 1], TrimSpace(values[i]))]
           g == CHOOSE f : IsKept(f)
<1>1. n \in Nat
  OBVIOUS
<1>2. <<>> \in D
  OBVIOUS
<1>3. ASSUME NEW i \in 1..n, NEW kept \in D PROVE More(kept, i) \in D
  <2>1. TrimSpace(values[i]) \in Strings
    BY Trimmed
  <2> HIDE DEF D
  <2>2. Append(kept, TrimSpace(values[i])) \in D
    BY <2>1 DEF D
  <2> QED
    BY <2>2
<1>4. step \in [1..n -> [D -> D]]
  BY <1>3, Zenon
<1>5. \A i \in 1..n : \A kept \in D : step[i][kept] = More(kept, i)
  BY Zenon
<1> HIDE DEF step, D
<1>6. PICK h : BuiltUp(h, n, D, <<>>, step)
  BY <1>1, <1>2, <1>4, RecursionUpTo, Zenon
<1>7. ASSUME NEW i \in 1..n PROVE h[i] = More(h[i - 1], i)
  <2>1. i - 1 \in 0..n
    BY <1>1
  <2>2. h[i - 1] \in D
    BY <1>6, <2>1 DEF BuiltUp
  <2> QED
    BY <1>5, <1>6, <2>2, Zenon DEF BuiltUp
<1>8. IsKept(h)
  <2>1. ASSUME NEW i \in 0..n
        PROVE  h[i] = IF i = 0 THEN <<>> ELSE
                        IF TrimSpace(values[i]) = Empty THEN h[i - 1]
                        ELSE Append(h[i - 1], TrimSpace(values[i]))
    <3>1. CASE i = 0
      BY <1>6, <3>1 DEF BuiltUp
    <3>2. CASE i # 0
      BY <1>1, <1>7, <3>2
    <3> QED
      BY <3>1, <3>2
  <2>2. h \in [0..n -> D]
    BY <1>6 DEF BuiltUp
  <2> QED
    BY <2>1, <2>2, Zenon
<1>9. IsKept(g)
  BY <1>8, Zenon
<1>10. normalizeCSVValues(values) = g[n]
  BY DEF normalizeCSVValues
<1> HIDE DEF g
<1>11. g[0] = <<>> /\ \A i \in 1..n : g[i] = More(g[i - 1], i)
  <2> DEFINE e == [i \in 0..n |-> IF i = 0 THEN <<>> ELSE
                      IF TrimSpace(values[i]) = Empty THEN g[i - 1]
                      ELSE Append(g[i - 1], TrimSpace(values[i]))]
  <2>1. g = e
    BY <1>9
  <2>2. e[0] = <<>>
    OBVIOUS
  <2>3. \A i \in 1..n : e[i] = More(g[i - 1], i)
    OBVIOUS
  <2> HIDE DEF e
  <2> QED
    BY <2>1, <2>2, <2>3
<1>12. g \in [0..n -> D]
  <2> DEFINE T == {i \in 0..n : g[i] \in D}
  <2>1. 0 \in T
    BY <1>2, <1>11
  <2>2. ASSUME NEW i \in 0..(n - 1), i \in T PROVE i + 1 \in T
    <3>1. i + 1 \in 1..n /\ (i + 1) - 1 = i
      BY <1>1
    <3>2. g[i + 1] = More(g[i], i + 1)
      BY <1>11, <3>1
    <3>3. g[i + 1] \in D
      BY <1>3, <2>2, <3>1, <3>2, Zenon
    <3> QED
      BY <3>1, <3>3
  <2> HIDE DEF T
  <2>3. 0..n \subseteq T
    BY <1>1, <2>1, <2>2, InductionUpTo
  <2>4. \A i \in 0..n : g[i] \in D
    BY <2>3 DEF T
  <2>5. \E e : g = [i \in 0..n |-> e[i]]
    <3> DEFINE e == [i \in 0..n |-> IF i = 0 THEN <<>> ELSE
                      IF TrimSpace(values[i]) = Empty THEN g[i - 1]
                      ELSE Append(g[i - 1], TrimSpace(values[i]))]
    <3>1. e = [i \in 0..n |-> e[i]]
      OBVIOUS
    <3>2. g = e
      BY <1>9
    <3> HIDE DEF e
    <3> QED
      BY <3>1, <3>2, Zenon
  <2> QED
    BY <2>4, <2>5, Zenon
<1>13. KeepsOn(g, values)
  BY <1>11, <1>12 DEF KeepsOn, D
<1> QED
  BY <1>10, <1>13, Zenon

\* normalizeCSVValues keeps the names of a list, trimmed, in as many places.
LEMMA NormalizeKeeps ==
  ASSUME NEW values \in Seq(Strings)
  PROVE  Keeps(normalizeCSVValues(values), values, Len(values))
<1> DEFINE n == Len(values)
<1>1. PICK g : KeepsOn(g, values) /\ normalizeCSVValues(values) = g[n]
  BY KeptIsGenerated
<1> DEFINE T == {k \in 0..n : Keeps(g[k], values, k)}
<1>2. 0 \in T
  <2>1. Named(values, 0) = {} /\ Cardinality({}) = 0
    BY FS_EmptySet DEF Named
  <2>2. g[0] = <<>>
    BY <1>1 DEF KeepsOn
  <2>3. Values(<<>>) = {} /\ <<>> \in Seq(Strings) /\ \A x : Places(<<>>, x) = {}
    BY DEF Values, Places
  <2>4. {TrimSpace(values[i]) : i \in {}} = {}
    OBVIOUS
  <2>5. \A x : NamedAs(values, 0, x) = {}
    BY <2>1 DEF NamedAs
  <2>6. Keeps(g[0], values, 0)
    BY <2>1, <2>2, <2>3, <2>4, <2>5, Zenon DEF Keeps
  <2> QED
    BY <2>6
<1>3. ASSUME NEW k \in 0..(n - 1), k \in T PROVE k + 1 \in T
  <2> DEFINE s == g[k]
             v == values[k + 1]
             t == TrimSpace(v)
             N == Named(values, k)
  <2>1. k + 1 \in 1..n /\ (k + 1) - 1 = k /\ k \in Nat
    OBVIOUS
  <2>2. v \in Strings
    BY <2>1
  <2>3. t \in Strings /\ (t = Empty <=> Blank(v))
    BY <2>2, Trimmed
  <2>4. g[k + 1] = IF t = Empty THEN s ELSE Append(s, t)
    BY <1>1, <2>1 DEF KeepsOn
  <2>5. Keeps(s, values, k)
    BY <1>3
  <2>6. 1..(k + 1) = (1..k) \cup {k + 1} /\ k + 1 \notin 1..k
    BY <2>1
  <2>7. CASE Blank(v)
    <3>1. Named(values, k + 1) = N
      BY <2>6, <2>7 DEF Named
    <3>2. g[k + 1] = s
      BY <2>3, <2>4, <2>7
    <3>3. Keeps(g[k + 1], values, k + 1)
      BY <2>5, <3>1, <3>2, Zenon DEF Keeps, NamedAs
    <3> QED
      BY <2>1, <3>3
  <2>8. CASE ~ Blank(v)
    <3>1. Named(values, k + 1) = N \cup {k + 1} /\ k + 1 \notin N
      BY <2>6, <2>8 DEF Named
    <3>2. g[k + 1] = Append(s, t)
      BY <2>3, <2>4, <2>8
    <3>3. s \in Seq(Strings) /\ Values(s) = {TrimSpace(values[i]) : i \in N}
          /\ \A x : Cardinality(Places(s, x)) = Cardinality(NamedAs(values, k, x))
      BY <2>5, Zenon DEF Keeps
    <3>4. IsFiniteSet(N)
      <4>1. IsFiniteSet(1..k)
        BY <2>1, FS_Interval
      <4>2. N \subseteq 1..k
        BY DEF Named
      <4> QED
        BY <4>1, <4>2, FS_Subset
    <3>5. /\ DOMAIN s = 1..Len(s) /\ Len(s) \in Nat /\ Len(s) + 1 \notin DOMAIN s
          /\ DOMAIN Append(s, t) = DOMAIN s \cup {Len(s) + 1}
          /\ \A i \in DOMAIN s : Append(s, t)[i] = s[i]
          /\ Append(s, t)[Len(s) + 1] = t
      <4>1. DOMAIN s = 1..Len(s) /\ Len(s) \in Nat
        BY <3>3
      <4>2. /\ DOMAIN Append(s, t) = 1..(Len(s) + 1)
            /\ \A i \in 1..Len(s) : Append(s, t)[i] = s[i]
            /\ Append(s, t)[Len(s) + 1] = t
        BY <2>3, <3>3
      <4>3. 1..(Len(s) + 1) = (1..Len(s)) \cup {Len(s) + 1}
        BY <4>1
      <4>4. Len(s) + 1 \notin 1..Len(s)
        BY <4>1
      <4> HIDE DEF t, s
      <4> QED
        BY <4>1, <4>2, <4>3, <4>4, Zenon
    <3>6. Append(s, t) \in Seq(Strings)
      BY <2>3, <3>3
    <3>7. Values(Append(s, t)) = Values(s) \cup {t}
      <4> HIDE DEF t, s
      <4> QED
        BY <3>5, Zenon DEF Values
    <3>8. {TrimSpace(values[i]) : i \in N \cup {k + 1}}
             = {TrimSpace(values[i]) : i \in N} \cup {t}
      OBVIOUS
    <3>9. ASSUME NEW x
          PROVE  Cardinality(Places(Append(s, t), x))
                   = Cardinality(NamedAs(values, k + 1, x))
      <4> DEFINE P == Places(s, x)
                 Q == NamedAs(values, k, x)
      <4>1. IsFiniteSet(P) /\ P \subseteq DOMAIN s
        <5>1. IsFiniteSet(1..Len(s))
          <6>1. Len(s) \in Nat
            BY <3>5
          <6> HIDE DEF s
          <6> QED
            BY <6>1, FS_Interval
        <5>2. P \subseteq DOMAIN s
          BY Zenon DEF Places
        <5> QED
          BY <3>5, <5>1, <5>2, FS_Subset
      <4>2. IsFiniteSet(Q) /\ Q \subseteq N
        <5>1. Q \subseteq N
          BY DEF NamedAs
        <5> QED
          BY <3>4, <5>1, FS_Subset
      <4>3. Cardinality(P) = Cardinality(Q)
        BY <3>3, Zenon
      <4>4. CASE t = x
        <5>1. Places(Append(s, t), x) = P \cup {Len(s) + 1}
          <6> HIDE DEF t, s
          <6> QED
            BY <3>5, <4>4, Zenon DEF Places
        <5>2. NamedAs(values, k + 1, x) = Q \cup {k + 1}
          BY <3>1, <4>4, Zenon DEF NamedAs
        <5>3. Len(s) + 1 \notin P /\ k + 1 \notin Q
          BY <3>1, <3>5, <4>1, <4>2, Zenon
        <5> HIDE DEF P, Q
        <5>4. Cardinality(P \cup {Len(s) + 1}) = Cardinality(P) + 1
          BY <4>1, <5>3, FS_AddElement
        <5>5. Cardinality(Q \cup {k + 1}) = Cardinality(Q) + 1
          BY <4>2, <5>3, FS_AddElement
        <5> QED
          BY <4>3, <5>1, <5>2, <5>4, <5>5, Zenon
      <4>5. CASE t # x
        <5>1. Places(Append(s, t), x) = P
          <6> HIDE DEF t, s
          <6> QED
            BY <3>5, <4>5, Zenon DEF Places
        <5>2. NamedAs(values, k + 1, x) = Q
          BY <3>1, <4>5, Zenon DEF NamedAs
        <5> QED
          BY <4>3, <5>1, <5>2, Zenon
      <4> QED
        BY <4>4, <4>5, Zenon
    <3> HIDE DEF t, N, s
    <3>10. Keeps(g[k + 1], values, k + 1)
      BY <3>1, <3>2, <3>3, <3>6, <3>7, <3>8, <3>9, Zenon DEF Keeps
    <3> QED
      BY <2>1, <3>10
  <2> QED
    BY <2>7, <2>8
<1> HIDE DEF T
<1>4. 0..n \subseteq T
  BY <1>2, <1>3, InductionUpTo
<1>5. n \in T
  BY <1>4
<1> QED
  BY <1>1, <1>5 DEF T
-----------------------------------------------------------------------------
\* What the environment says, once the defaults of Load have been filled in.

\* A string with a default has its own word or, when it is not there, the
\* default's.
LEMMA WithDefault ==
  ASSUME NEW s \in Strings, NEW d \in Words
  PROVE  /\ getEnvString(s, d) \in Strings
         /\ getEnvString(s, d).word = IF s = Empty THEN d ELSE s.word
         /\ s = Empty <=> s.word = "" /\ s.form = {}
<1>1. Exact(d) \in Strings /\ Exact(d).word = d
  BY ExactString
<1>2. s = Empty <=> s.word = "" /\ s.form = {}
  <2>1. \A w : s = Exact(w) <=> s.word = w /\ s.form = {}
    BY ExactString, Zenon
  <2> QED
    BY <2>1, Zenon DEF Empty
<1> QED
  BY <1>1, <1>2 DEF getEnvString

\* A string whose default is empty is taken as it is.
LEMMA NoDefault == \A s : getEnvString(s, "") = s
  BY DEF getEnvString, Empty

\* A port is in range exactly when it is left out or given in range.
LEMMA PortRule ==
  ASSUME NEW p \in Optional(Int), NEW d \in Ports
  PROVE  /\ getEnvValue(p, d) \in Int
         /\ ValidPort(getEnvValue(p, d)) <=> p = <<>> \/ p[1] \in Ports
<1>1. p = <<>> \/ (p[1] \in Int /\ p # <<>>)
  BY AtMostOne
<1>2. Ports \subseteq Int
  BY DEF Ports
<1>3. CASE p = <<>>
  BY <1>2, <1>3, Zenon DEF getEnvValue, ValidPort
<1>4. CASE p[1] \in Int /\ p # <<>>
  BY <1>4, Zenon DEF getEnvValue, ValidPort
<1> QED
  BY <1>1, <1>3, <1>4, Zenon

\* A size is not negative exactly when it is left out or given so; then the size
\* in use is positive, and the default when none was chosen.
LEMMA SizeRule ==
  ASSUME NEW p \in Optional(Int)
  PROVE  /\ getEnvValue(p, defaultGRPCMaxMessageSize) \in Int
         /\ getEnvValue(p, defaultGRPCMaxMessageSize) >= 0 <=> p = <<>> \/ p[1] >= 0
         /\ SizeOrDefault(getEnvValue(p, defaultGRPCMaxMessageSize)) \in Int
         /\ p = <<>> \/ p[1] >= 0 =>
              SizeOrDefault(getEnvValue(p, defaultGRPCMaxMessageSize)) > 0
         /\ p \in {<<>>, <<0>>} =>
              SizeOrDefault(getEnvValue(p, defaultGRPCMaxMessageSize))
                = defaultGRPCMaxMessageSize
<1>1. p = <<>> \/ (p[1] \in Int /\ p # <<>>)
  BY AtMostOne
<1>2. <<0>>[1] = 0 /\ defaultGRPCMaxMessageSize \in Int
      /\ defaultGRPCMaxMessageSize > 0
  BY DEF defaultGRPCMaxMessageSize
<1> HIDE DEF defaultGRPCMaxMessageSize
<1>3. CASE p = <<>>
  BY <1>2, <1>3 DEF getEnvValue, SizeOrDefault
<1>4. CASE p[1] \in Int /\ p # <<>>
  <2>1. getEnvValue(p, defaultGRPCMaxMessageSize) = p[1]
    BY <1>4 DEF getEnvValue
  <2>2. p = <<0>> => p[1] = 0
    BY <1>2
  <2> QED
    BY <1>2, <1>4, <2>1, <2>2 DEF SizeOrDefault
<1> QED
  BY <1>1, <1>3, <1>4

\* A switch is on exactly when it is given as true.
LEMMA SwitchRule ==
  ASSUME NEW p \in Optional(BOOLEAN)
  PROVE  /\ getEnvValue(p, FALSE) \in BOOLEAN
         /\ getEnvValue(p, FALSE) <=> Set(p)
<1>1. p = <<>> \/ (p[1] \in BOOLEAN /\ p = <<p[1]>> /\ p # <<>>)
  BY AtMostOne
<1>2. <<TRUE>>[1] = TRUE
  OBVIOUS
<1>3. CASE p = <<>>
  <2>1. p # <<TRUE>>
    BY <1>3
  <2>2. getEnvValue(p, FALSE) = FALSE
    BY <1>3, Zenon DEF getEnvValue
  <2> QED
    BY <2>1, <2>2, Zenon DEF Set
<1>4. CASE p[1] \in BOOLEAN /\ p = <<p[1]>> /\ p # <<>>
  <2>1. getEnvValue(p, FALSE) = p[1]
    BY <1>4, Zenon DEF getEnvValue
  <2>2. p[1] = TRUE \/ p[1] = FALSE
    BY <1>4, Zenon
  <2>3. p[1] = TRUE => p = <<TRUE>>
    BY <1>4, Zenon
  <2>4. p[1] = FALSE => p # <<TRUE>>
    BY <1>2, Zenon
  <2> QED
    BY <2>1, <2>2, <2>3, <2>4, Zenon DEF Set
<1> QED
  BY <1>1, <1>3, <1>4, Zenon

\* The log level is one of the four exactly when it is left out or spelled as
\* one of them.
LEMMA LevelRule ==
  ASSUME NEW s \in Strings
  PROVE  getEnvString(s, "info") \in {Exact(l) : l \in logLevels}
           <=> s.word \in logLevels \cup {""} /\ s.form = {}
<1> DEFINE t == getEnvString(s, "info")
<1>1. \A w : \A x \in Strings : x = Exact(w) <=> x.word = w /\ x.form = {}
  BY ExactString, Zenon
<1>2. s = Empty <=> s.word = "" /\ s.form = {}
  BY <1>1, Zenon DEF Empty
<1>3. CASE s = Empty
  <2>1. t = Exact("info") /\ "info" \in logLevels
    BY <1>3 DEF getEnvString, logLevels
  <2> QED
    BY <1>2, <1>3, <2>1, Zenon
<1>4. CASE s # Empty
  <2>1. t = s
    BY <1>4 DEF getEnvString
  <2>2. t \in {Exact(l) : l \in logLevels} <=> s.word \in logLevels /\ s.form = {}
    <3>1. \A w : t = Exact(w) <=> s.word = w /\ s.form = {}
      BY <1>1, <2>1, Zenon
    <3> HIDE DEF t
    <3> QED
      BY <3>1, Zenon
  <2>3. s.form = {} => s.word # ""
    BY <1>2, <1>4, Zenon
  <2> QED
    BY <2>2, <2>3, Zenon
<1> QED
  BY <1>3, <1>4

\* parseAuthzMatchMode knows two modes.
LEMMA MatchModes ==
  ASSUME NEW s
  PROVE  /\ Parses(matchModeAliases, s) <=> s.word \in {"", "any", "all"}
         /\ s.word \in {"", "any"} => Parsed(matchModeAliases, s) = "any"
         /\ s.word = "all" => Parsed(matchModeAliases, s) = "all"
<1>1. /\ DOMAIN matchModeAliases = {"any", "all"}
      /\ matchModeAliases["any"] = {"", "any"}
      /\ matchModeAliases["all"] = {"all"}
  BY DEF matchModeAliases
<1> QED
  BY <1>1 DEF Parses, Parsed

\* parseAuthTokenType knows two types.
LEMMA TokenTypes ==
  ASSUME NEW s
  PROVE  /\ Parses(tokenTypeAliases, s) <=> s.word \in {"", "jwt", "opaque"}
         /\ s.word \in {"", "jwt"} => Parsed(tokenTypeAliases, s) = "jwt"
         /\ s.word = "opaque" => Parsed(tokenTypeAliases, s) = "opaque"
<1>1. /\ DOMAIN tokenTypeAliases = {"jwt", "opaque"}
      /\ tokenTypeAliases["jwt"] = {"", "jwt"}
      /\ tokenTypeAliases["opaque"] = {"opaque"}
  BY DEF tokenTypeAliases
<1> QED
  BY <1>1 DEF Parses, Parsed

\* parseAuthIntrospectionAuthMethod knows two methods.
LEMMA AuthMethods ==
  ASSUME NEW s
  PROVE  /\ Parses(authMethodAliases, s)
              <=> s.word \in {"", "client_secret_basic", "private_key_jwt"}
         /\ s.word \in {"", "client_secret_basic"} =>
              Parsed(authMethodAliases, s) = "client_secret_basic"
         /\ s.word = "private_key_jwt" =>
              Parsed(authMethodAliases, s) = "private_key_jwt"
<1>1. /\ DOMAIN authMethodAliases = {"client_secret_basic", "private_key_jwt"}
      /\ authMethodAliases["client_secret_basic"] = {"", "client_secret_basic"}
      /\ authMethodAliases["private_key_jwt"] = {"private_key_jwt"}
  BY DEF authMethodAliases
<1> QED
  BY <1>1 DEF Parses, Parsed

\* A default of a TLS setting stands for the same choice as no word at all.
LEMMA TLSDefaults ==
  ASSUME NEW s \in Strings
  PROVE  /\ Parses(clientAuthAliases, getEnvString(s, "none"))
              <=> Parses(clientAuthAliases, s)
         /\ Parses(minVersionAliases, getEnvString(s, "1.2"))
              <=> Parses(minVersionAliases, s)
<1>1. /\ getEnvString(s, "none").word = IF s = Empty THEN "none" ELSE s.word
      /\ getEnvString(s, "1.2").word = IF s = Empty THEN "1.2" ELSE s.word
      /\ s = Empty => s.word = ""
  BY WithDefault, ConfigAssumption DEF Literals
<1>2. /\ {"", "none"} \subseteq clientAuthAliases["NoClientCert"]
      /\ "NoClientCert" \in DOMAIN clientAuthAliases
  BY DEF clientAuthAliases
<1>3. /\ {"", "1.2"} \subseteq minVersionAliases["VersionTLS12"]
      /\ "VersionTLS12" \in DOMAIN minVersionAliases
  BY DEF minVersionAliases
<1>4. CASE s = Empty
  BY <1>1, <1>2, <1>3, <1>4 DEF Parses
<1>5. CASE s # Empty
  BY <1>1, <1>5 DEF Parses
<1> QED
  BY <1>4, <1>5
-----------------------------------------------------------------------------
\* The inductive invariant.

PastSizes == {"authz", "auth", "introspection", "tls"} \cup Accepted
PastAuthz == {"auth", "introspection", "tls"} \cup Accepted
PastAuth == {"introspection", "tls"} \cup Accepted
PastIntrospection == {"tls"} \cup Accepted

\* The environment and the file are what the program can be started with.
EnvInv == IsEnvironment(env) /\ file \in Optional(Strings)

\* A group of checks that has been passed is a group of rules that holds, and
\* a rejected environment breaks one.
RulesInv ==
    /\ pc \in {"load", "rejected"} \cup Validating \cup Accepted
    /\ pc \in PastSizes => ListeningRules
    /\ pc \in PastAuthz => MatchModeRules
    /\ pc \in PastAuth => AuthRules
    /\ pc \in PastIntrospection => IntrospectionRules
    /\ pc \in Accepted => TLSRules
    /\ pc = "rejected" => ~ Rules

Untouched == {"TLSCertFile", "TLSKeyFile", "Issuer", "Audience", "JWKSURL",
              "URL", "ClientID", "ClientSecret"}

GivenSize(v) == getEnvValue(v, defaultGRPCMaxMessageSize)
GivenMode(s) == getEnvString(s, "any")
GivenType == getEnvString(env.TokenType, "jwt")
GivenMethod == getEnvString(env.AuthMethod, "client_secret_basic")
KeyAsked == IF Blank(env.PrivateKeyFile) THEN TrimSpace(env.PrivateKey)
            ELSE TrimSpace(file[1])

\* Fields that Validate leaves alone.
KeptFields ==
    /\ DOMAIN cfg = Fields
    /\ \A f \in Untouched : cfg[f] = env[f]
    /\ cfg.TLSEnabled = getEnvValue(env.TLSEnabled, FALSE)
    /\ cfg.Enabled = getEnvValue(env.Enabled, FALSE)
    /\ cfg.LogLevel = getEnvString(env.LogLevel, "info")
    /\ cfg.TLSClientAuth = getEnvString(env.TLSClientAuth, "none")
    /\ cfg.TLSMinVersion = getEnvString(env.TLSMinVersion, "1.2")

PortFields ==
    /\ cfg.Port = getEnvValue(env.Port, 9090)
    /\ cfg.MetricsPort = getEnvValue(env.MetricsPort, 9091)

\* Fields that it rewrites: what they are from which check on.
SizeFields ==
    /\ cfg.MaxRecv = IF pc \in PastSizes THEN SizeOrDefault(GivenSize(env.MaxRecv))
                     ELSE GivenSize(env.MaxRecv)
    /\ cfg.MaxSend = IF pc \in PastSizes THEN SizeOrDefault(GivenSize(env.MaxSend))
                     ELSE GivenSize(env.MaxSend)
AuthzFields ==
    /\ cfg.RoleMatchMode =
          IF pc \in PastAuthz THEN NormalMode(GivenMode(env.RoleMatchMode))
          ELSE GivenMode(env.RoleMatchMode)
    /\ cfg.ScopeMatchMode =
          IF pc \in PastAuthz THEN NormalMode(GivenMode(env.ScopeMatchMode))
          ELSE GivenMode(env.ScopeMatchMode)
    /\ cfg.RequiredRoles =
          IF pc \in PastAuthz
          THEN normalizeCSVValues(normalizeCSVValues(env.RequiredRoles))
          ELSE normalizeCSVValues(env.RequiredRoles)
    /\ cfg.RequiredScopes =
          IF pc \in PastAuthz
          THEN normalizeCSVValues(normalizeCSVValues(env.RequiredScopes))
          ELSE normalizeCSVValues(env.RequiredScopes)
AuthFields ==
    cfg.TokenType = IF pc \in PastAuth /\ Set(env.Enabled)
                    THEN Exact(IF AsksOpaque THEN "opaque" ELSE "jwt")
                    ELSE GivenType
IntrospectionFields ==
    /\ cfg.AuthMethod =
          IF pc \in PastIntrospection /\ AsksOpaque
          THEN Exact(IF AsksPrivateKey THEN "private_key_jwt" ELSE "client_secret_basic")
          ELSE GivenMethod
    /\ cfg.PrivateKey = IF pc \in PastIntrospection /\ AsksPrivateKey THEN KeyAsked
                        ELSE env.PrivateKey
    /\ cfg.PrivateKeyFile = IF pc \in PastIntrospection /\ AsksPrivateKey
                            THEN TrimSpace(env.PrivateKeyFile) ELSE env.PrivateKeyFile
    /\ cfg.Algorithm = IF pc \in PastIntrospection /\ AsksPrivateKey
                       THEN Exact(env.Algorithm.word) ELSE env.Algorithm

FieldsInv == pc \in Validating \cup Accepted =>
                /\ KeptFields /\ PortFields /\ SizeFields
                /\ AuthzFields /\ AuthFields /\ IntrospectionFields

\* What the consumers have built from it so far.
ServerInv ==
    /\ DOMAIN server = DOMAIN NotBuilt
    /\ server.recv \in Nat /\ server.send \in Nat
    /\ server.level # "fallback" /\ pc # "failedSetting"
    /\ pc \in {"options", "serving", "failedTLS"} =>
        /\ server.validator = IF cfg.Enabled THEN validatorBuilder ELSE <<"none">>
        /\ server.policy = IF cfg.Enabled THEN buildAuthorizationPolicy ELSE "none"
    /\ pc = "serving" =>
        /\ server.recv = cfg.MaxRecv /\ server.send = cfg.MaxSend
        /\ server.tls[1] # "plain" <=> Set(env.TLSEnabled)

IInv == EnvInv /\ RulesInv /\ FieldsInv /\ ServerInv

USE DEF Validating, Accepted, PastSizes, PastAuthz, PastAuth, PastIntrospection

\* The types of the environment's variables, one by one.
LEMMA EnvironmentTypes ==
  ASSUME EnvInv
  PROVE  /\ env.Port \in Optional(Int) /\ env.MetricsPort \in Optional(Int)
         /\ env.MaxRecv \in Optional(Int) /\ env.MaxSend \in Optional(Int)
         /\ env.TLSEnabled \in Optional(BOOLEAN) /\ env.Enabled \in Optional(BOOLEAN)
         /\ env.RequiredRoles \in Seq(Strings) /\ env.RequiredScopes \in Seq(Strings)
         /\ env.LogLevel \in Strings /\ env.TLSClientAuth \in Strings
         /\ env.TLSMinVersion \in Strings /\ env.TokenType \in Strings
         /\ env.AuthMethod \in Strings /\ env.PrivateKey \in Strings
         /\ env.PrivateKeyFile \in Strings /\ env.Algorithm \in Strings
         /\ env.RoleMatchMode \in Strings /\ env.ScopeMatchMode \in Strings
<1>1. /\ \A f \in Numbers : env[f] \in Optional(Int)
      /\ \A f \in Switches : env[f] \in Optional(BOOLEAN)
      /\ \A f \in Lists : env[f] \in Seq(Strings)
      /\ \A f \in Texts : env[f] \in Strings
  BY Zenon DEF EnvInv, IsEnvironment
<1>2. env.Port \in Optional(Int) /\ env.MetricsPort \in Optional(Int)
      /\ env.MaxRecv \in Optional(Int) /\ env.MaxSend \in Optional(Int)
  BY <1>1, Zenon DEF Numbers
<1>3. env.TLSEnabled \in Optional(BOOLEAN) /\ env.Enabled \in Optional(BOOLEAN)
  BY <1>1, Zenon DEF Switches
<1>4. env.RequiredRoles \in Seq(Strings) /\ env.RequiredScopes \in Seq(Strings)
  BY <1>1, Zenon DEF Lists
<1>5. env.LogLevel \in Strings /\ env.TLSClientAuth \in Strings
      /\ env.TLSMinVersion \in Strings /\ env.TokenType \in Strings
  BY <1>1, Zenon DEF Texts
<1>6. env.AuthMethod \in Strings /\ env.PrivateKey \in Strings
      /\ env.PrivateKeyFile \in Strings /\ env.Algorithm \in Strings
  BY <1>1, Zenon DEF Texts
<1>7. env.RoleMatchMode \in Strings /\ env.ScopeMatchMode \in Strings
  BY <1>1, Zenon DEF Texts
<1> QED
  BY <1>2, <1>3, <1>4, <1>5, <1>6, <1>7, Zenon

-----------------------------------------------------------------------------
\* Each group of checks decides its rules.

\* The first group of checks (config.go:108-137).
LEMMA SizesDecide ==
  ASSUME IInv, pc = "sizes" PROVE ValidSizes <=> ListeningRules
<1>1. /\ cfg.Port = getEnvValue(env.Port, 9090)
      /\ cfg.MetricsPort = getEnvValue(env.MetricsPort, 9091)
      /\ cfg.MaxRecv = GivenSize(env.MaxRecv) /\ cfg.MaxSend = GivenSize(env.MaxSend)
  BY DEF IInv, FieldsInv, PortFields, SizeFields
<1>2. 9090 \in Ports /\ 9091 \in Ports
  BY DEF Ports
<1>3. EnvInv
  BY DEF IInv
<1>4. ValidPort(cfg.Port) <=> env.Port = <<>> \/ env.Port[1] \in Ports
  BY <1>1, <1>2, <1>3, EnvironmentTypes, PortRule, SMT DEF ValidPort
<1>5. ValidPort(cfg.MetricsPort) <=> env.MetricsPort = <<>> \/ env.MetricsPort[1] \in Ports
  BY <1>1, <1>2, <1>3, EnvironmentTypes, PortRule, SMT DEF ValidPort
<1>6. cfg.MaxRecv >= 0 <=> env.MaxRecv = <<>> \/ env.MaxRecv[1] >= 0
  BY <1>1, <1>3, EnvironmentTypes, SizeRule DEF GivenSize
<1>7. cfg.MaxSend >= 0 <=> env.MaxSend = <<>> \/ env.MaxSend[1] >= 0
  BY <1>1, <1>3, EnvironmentTypes, SizeRule DEF GivenSize
<1>8. cfg.LogLevel \in {Exact(l) : l \in logLevels}
        <=> env.LogLevel.word \in logLevels \cup {""} /\ env.LogLevel.form = {}
  <2>1. cfg.LogLevel = getEnvString(env.LogLevel, "info")
    BY DEF IInv, FieldsInv, KeptFields
  <2> QED
    BY <1>3, <2>1, EnvironmentTypes, LevelRule, Zenon
<1> QED
  BY <1>4, <1>5, <1>6, <1>7, <1>8, Zenon DEF ValidSizes, ListeningRules

\* The match modes (config.go:139-149).
LEMMA AuthzDecides ==
  ASSUME IInv, pc = "authz" PROVE ValidAuthz <=> MatchModeRules
<1>1. /\ cfg.RoleMatchMode = GivenMode(env.RoleMatchMode)
      /\ cfg.ScopeMatchMode = GivenMode(env.ScopeMatchMode)
  BY DEF IInv, FieldsInv, AuthzFields
<1>2. "any" \in Words
  BY ConfigAssumption DEF Literals
<1>3. EnvInv
  BY DEF IInv
<1>4. ASSUME NEW s \in Strings
      PROVE  Parses(matchModeAliases, GivenMode(s)) <=> s.word \in {"", "any", "all"}
  <2>1. /\ GivenMode(s).word = IF s = Empty THEN "any" ELSE s.word
        /\ s = Empty => s.word = ""
    BY <1>2, WithDefault DEF GivenMode
  <2>2. Parses(matchModeAliases, GivenMode(s)) <=> GivenMode(s).word \in {"", "any", "all"}
    BY MatchModes
  <2> QED
    BY <2>1, <2>2
<1> QED
  BY <1>1, <1>3, <1>4, EnvironmentTypes, Zenon DEF ValidAuthz, MatchModeRules

\* The issuer, the audience and the token type (config.go:156-167).
LEMMA AuthDecides ==
  ASSUME IInv, pc = "auth" PROVE ValidAuth <=> AuthRules
<1>1. /\ cfg.Issuer = env.Issuer /\ cfg.Audience = env.Audience
      /\ cfg.TokenType = GivenType
      /\ cfg.Enabled = getEnvValue(env.Enabled, FALSE)
  <2>1. KeptFields /\ cfg.TokenType = GivenType
    BY DEF IInv, FieldsInv, AuthFields
  <2> QED
    BY <2>1, Zenon DEF KeptFields, Untouched
<1>2. "jwt" \in Words
  BY ConfigAssumption DEF Literals
<1>3. EnvInv
  BY DEF IInv
<1>4. cfg.Enabled <=> Set(env.Enabled)
  BY <1>1, <1>3, EnvironmentTypes, SwitchRule, Zenon
<1>5. Parses(tokenTypeAliases, cfg.TokenType) <=> env.TokenType.word \in {"", "jwt", "opaque"}
  <2>1. /\ GivenType.word = IF env.TokenType = Empty THEN "jwt" ELSE env.TokenType.word
        /\ env.TokenType = Empty => env.TokenType.word = ""
    BY <1>2, <1>3, EnvironmentTypes, WithDefault DEF GivenType
  <2>2. Parses(tokenTypeAliases, GivenType) <=> GivenType.word \in {"", "jwt", "opaque"}
    BY TokenTypes
  <2> QED
    BY <1>1, <2>1, <2>2
<1> QED
  BY <1>1, <1>4, <1>5, Zenon DEF ValidAuth, AuthRules

\* The certificate files and the two TLS settings (config.go:216-229).
LEMMA TLSDecides ==
  ASSUME IInv, pc \in {"tls"} \cup Accepted
  PROVE  /\ cfg.TLSEnabled <=> Set(env.TLSEnabled)
         /\ (cfg.TLSEnabled => ValidTLS) <=> TLSRules
<1>1. /\ cfg.TLSCertFile = env.TLSCertFile /\ cfg.TLSKeyFile = env.TLSKeyFile
      /\ cfg.TLSEnabled = getEnvValue(env.TLSEnabled, FALSE)
      /\ cfg.TLSClientAuth = getEnvString(env.TLSClientAuth, "none")
      /\ cfg.TLSMinVersion = getEnvString(env.TLSMinVersion, "1.2")
  <2>1. pc \in Validating \cup Accepted
    OBVIOUS
  <2>2. KeptFields
    BY <2>1, Zenon DEF IInv, FieldsInv
  <2> QED
    BY <2>2, Zenon DEF KeptFields, Untouched
<1>2. EnvInv
  BY DEF IInv
<1>3. cfg.TLSEnabled <=> Set(env.TLSEnabled)
  BY <1>1, <1>2, EnvironmentTypes, SwitchRule, Zenon
<1>4. TLSParses <=> /\ Parses(clientAuthAliases, env.TLSClientAuth)
                    /\ Parses(minVersionAliases, env.TLSMinVersion)
  <2>1. /\ Parses(clientAuthAliases, getEnvString(env.TLSClientAuth, "none"))
             <=> Parses(clientAuthAliases, env.TLSClientAuth)
        /\ Parses(minVersionAliases, getEnvString(env.TLSMinVersion, "1.2"))
             <=> Parses(minVersionAliases, env.TLSMinVersion)
    BY <1>2, EnvironmentTypes, TLSDefaults
  <2> QED
    BY <1>1, <2>1, Zenon DEF TLSParses
<1> QED
  BY <1>1, <1>3, <1>4, Zenon DEF ValidTLS, TLSRules

\* At the introspection checks the token type and the method are what was asked.
LEMMA OpaqueAsked ==
  ASSUME IInv, pc = "introspection"
  PROVE  /\ Opaque <=> AsksOpaque
         /\ Parses(authMethodAliases, cfg.AuthMethod) <=>
              env.AuthMethod.word \in {"", "client_secret_basic", "private_key_jwt"}
         /\ Parses(authMethodAliases, cfg.AuthMethod) =>
              (Basic <=> env.AuthMethod.word # "private_key_jwt")
<1>1. /\ cfg.Enabled = getEnvValue(env.Enabled, FALSE)
      /\ cfg.TokenType = IF Set(env.Enabled) THEN Exact(IF AsksOpaque THEN "opaque" ELSE "jwt")
                         ELSE GivenType
      /\ cfg.AuthMethod = GivenMethod
  <2>1. pc \in Validating \cup Accepted /\ pc \in PastAuth /\ pc \notin PastIntrospection
    OBVIOUS
  <2>2. KeptFields /\ AuthFields /\ IntrospectionFields
    BY <2>1, Zenon DEF IInv, FieldsInv
  <2> QED
    BY <2>1, <2>2, Zenon DEF KeptFields, AuthFields, IntrospectionFields
<1>2. "client_secret_basic" \in Words
  BY ConfigAssumption DEF Literals
<1>3. EnvInv
  BY DEF IInv
<1>4. cfg.Enabled <=> Set(env.Enabled)
  BY <1>1, <1>3, EnvironmentTypes, SwitchRule, Zenon
<1>5. Opaque <=> AsksOpaque
  <2>1. Exact("jwt") # Exact("opaque")
    BY ExactString
  <2>2. CASE Set(env.Enabled)
    BY <1>1, <1>4, <2>1, <2>2 DEF Opaque, AsksOpaque
  <2>3. CASE ~ Set(env.Enabled)
    BY <1>4, <2>3, Zenon DEF Opaque, AsksOpaque
  <2> QED
    BY <2>2, <2>3, Zenon
<1>6. /\ GivenMethod.word = IF env.AuthMethod = Empty THEN "client_secret_basic"
                            ELSE env.AuthMethod.word
      /\ env.AuthMethod = Empty => env.AuthMethod.word = ""
  BY <1>2, <1>3, EnvironmentTypes, WithDefault DEF GivenMethod
<1>7. Parses(authMethodAliases, GivenMethod)
        <=> GivenMethod.word \in {"", "client_secret_basic", "private_key_jwt"}
  BY AuthMethods
<1>8. /\ GivenMethod.word \in {"", "client_secret_basic"} =>
           Parsed(authMethodAliases, GivenMethod) = "client_secret_basic"
      /\ GivenMethod.word = "private_key_jwt" =>
           Parsed(authMethodAliases, GivenMethod) = "private_key_jwt"
  BY AuthMethods
<1> QED
  BY <1>1, <1>5, <1>6, <1>7, <1>8 DEF Basic

\* The key has one source exactly when one of its two variables is blank, and
\* the key read from it is the one asked for (config.go:188-205).
LEMMA KeyDecides ==
  ASSUME IInv, pc = "introspection"
  PROVE  /\ OneSource <=> (Blank(env.PrivateKey) <=> ~ Blank(env.PrivateKeyFile))
         /\ OneSource => (KeyRead # Empty <=>
                            (Blank(env.PrivateKey) => file # <<>> /\ ~ Blank(file[1])))
         /\ KeyRead # Empty => KeyRead = KeyAsked
<1>1. cfg.PrivateKey = env.PrivateKey /\ cfg.PrivateKeyFile = env.PrivateKeyFile
  BY DEF IInv, FieldsInv, IntrospectionFields
<1>2. EnvInv
  BY DEF IInv
<1>3. env.PrivateKey \in Strings /\ env.PrivateKeyFile \in Strings
  BY <1>2, EnvironmentTypes
<1>4. /\ TrimSpace(cfg.PrivateKey) = Empty <=> Blank(env.PrivateKey)
      /\ TrimSpace(cfg.PrivateKeyFile) = Empty <=> Blank(env.PrivateKeyFile)
  BY <1>1, <1>3, Trimmed
<1>5. file = <<>> \/ (file # <<>> /\ file[1] \in Strings)
  BY <1>2, AtMostOne DEF EnvInv
<1>6. file # <<>> => (TrimSpace(file[1]) = Empty <=> Blank(file[1]))
  BY <1>5, Trimmed
<1>7. OneSource <=> (Blank(env.PrivateKey) <=> ~ Blank(env.PrivateKeyFile))
  BY <1>4 DEF OneSource
<1>8. KeyRead = IF Blank(env.PrivateKeyFile) THEN TrimSpace(env.PrivateKey)
                ELSE IF file = <<>> THEN Empty ELSE TrimSpace(file[1])
  BY <1>1, <1>4, Zenon DEF KeyRead
<1>9. OneSource => (KeyRead # Empty <=>
                      (Blank(env.PrivateKey) => file # <<>> /\ ~ Blank(file[1])))
  BY <1>1, <1>4, <1>6, <1>7, <1>8, Zenon
<1>10. KeyRead # Empty => KeyRead = KeyAsked
  BY <1>8, Zenon DEF KeyAsked
<1> QED
  BY <1>7, <1>9, <1>10, Zenon

\* What introspection needs (config.go:169-214).
LEMMA IntrospectionDecides ==
  ASSUME IInv, pc = "introspection" PROVE ValidIntrospection <=> IntrospectionRules
<1>1. /\ cfg.URL = env.URL /\ cfg.ClientID = env.ClientID
      /\ cfg.ClientSecret = env.ClientSecret /\ cfg.Algorithm = env.Algorithm
  BY DEF IInv, FieldsInv, KeptFields, IntrospectionFields, Untouched
<1>2. CASE ~ AsksOpaque
  BY <1>2, OpaqueAsked, Zenon DEF ValidIntrospection, IntrospectionRules, AsksPrivateKey
<1>3. CASE AsksOpaque /\ ~ Parses(authMethodAliases, cfg.AuthMethod)
  BY <1>3, OpaqueAsked, Zenon DEF ValidIntrospection, IntrospectionRules
<1>4. CASE AsksOpaque /\ Parses(authMethodAliases, cfg.AuthMethod) /\ Basic
  BY <1>1, <1>4, OpaqueAsked, Zenon
     DEF ValidIntrospection, IntrospectionRules, AsksPrivateKey
<1>5. CASE AsksOpaque /\ Parses(authMethodAliases, cfg.AuthMethod) /\ ~ Basic
  BY <1>1, <1>5, OpaqueAsked, KeyDecides, Zenon
     DEF ValidIntrospection, IntrospectionRules, AsksPrivateKey
<1> QED
  BY <1>2, <1>3, <1>4, <1>5, Zenon
-----------------------------------------------------------------------------
\* Every step keeps the invariant.

\* The rules, and what was asked for, depend on the environment and the file
\* alone, which nobody writes.
LEMMA AskedOnce ==
  ASSUME env' = env, file' = file
  PROVE  /\ EnvInv => EnvInv'
         /\ ListeningRules' <=> ListeningRules
         /\ MatchModeRules' <=> MatchModeRules
         /\ AuthRules' <=> AuthRules
         /\ IntrospectionRules' <=> IntrospectionRules
         /\ TLSRules' <=> TLSRules
         /\ Rules' <=> Rules
         /\ AsksOpaque' <=> AsksOpaque
         /\ AsksPrivateKey' <=> AsksPrivateKey
         /\ GivenType' = GivenType /\ GivenMethod' = GivenMethod
         /\ KeyAsked' = KeyAsked
<1>1. AsksOpaque' <=> AsksOpaque
  BY Zenon DEF AsksOpaque
<1>2. AsksPrivateKey' <=> AsksPrivateKey
  BY <1>1, Zenon DEF AsksPrivateKey
<1>3. ListeningRules' <=> ListeningRules
  BY Zenon DEF ListeningRules
<1>4. MatchModeRules' <=> MatchModeRules
  BY Zenon DEF MatchModeRules
<1>5. AuthRules' <=> AuthRules
  BY Zenon DEF AuthRules
<1>6. IntrospectionRules' <=> IntrospectionRules
  BY <1>1, <1>2, Zenon DEF IntrospectionRules
<1>7. TLSRules' <=> TLSRules
  BY Zenon DEF TLSRules
<1>8. Rules' <=> Rules
  BY <1>3, <1>4, <1>5, <1>6, <1>7, Zenon DEF Rules
<1>9. GivenType' = GivenType /\ GivenMethod' = GivenMethod /\ KeyAsked' = KeyAsked
  BY Zenon DEF GivenType, GivenMethod, KeyAsked
<1>10. EnvInv => EnvInv'
  BY Zenon DEF EnvInv
<1> QED
  BY <1>1, <1>2, <1>3, <1>4, <1>5, <1>6, <1>7, <1>8, <1>9, <1>10, Zenon

\* The invariant holds when the process starts.
LEMMA Start == Init => IInv
<1> SUFFICES ASSUME Init PROVE IInv
  OBVIOUS
<1>1. EnvInv
  BY ConfigAssumption DEF Init, EnvInv
<1>2. RulesInv
  BY DEF Init, RulesInv
<1>3. FieldsInv
  BY DEF Init, FieldsInv
<1>4. ServerInv
  BY DEF Init, ServerInv, NotBuilt
<1> QED
  BY <1>1, <1>2, <1>3, <1>4 DEF IInv

\* Load fills in every field, with its default where there is nothing else.
LEMMA LoadStep == IInv /\ Load => IInv'
<1> SUFFICES ASSUME IInv, Load PROVE IInv'
  OBVIOUS
<1>1. env' = env /\ file' = file /\ server' = server /\ pc = "load" /\ pc' = "sizes"
  BY Zenon DEF Load
<1> DEFINE c == ConfigOf(env)
<1>12. cfg' = c
  BY Zenon DEF Load
<1>2. EnvInv'
  BY <1>1, AskedOnce DEF IInv
<1>3. RulesInv'
  BY <1>1 DEF RulesInv
<1>4. KeptFields'
  <2>1. DOMAIN c = Fields
    BY DEF ConfigOf, Fields, Numbers, Switches, Lists, Texts
  <2>2. /\ c.TLSCertFile = getEnvString(env.TLSCertFile, "")
        /\ c.TLSKeyFile = getEnvString(env.TLSKeyFile, "")
        /\ c.Issuer = getEnvString(env.Issuer, "")
        /\ c.Audience = getEnvString(env.Audience, "")
        /\ c.JWKSURL = getEnvString(env.JWKSURL, "")
        /\ c.URL = getEnvString(env.URL, "")
        /\ c.ClientID = getEnvString(env.ClientID, "")
        /\ c.ClientSecret = getEnvString(env.ClientSecret, "")
    BY DEF ConfigOf
  <2>4. /\ c.TLSEnabled = getEnvValue(env.TLSEnabled, FALSE)
        /\ c.Enabled = getEnvValue(env.Enabled, FALSE)
        /\ c.LogLevel = getEnvString(env.LogLevel, "info")
        /\ c.TLSClientAuth = getEnvString(env.TLSClientAuth, "none")
        /\ c.TLSMinVersion = getEnvString(env.TLSMinVersion, "1.2")
    BY DEF ConfigOf
  <2> HIDE DEF c
  <2>3. \A f \in Untouched : c[f] = env[f]
    BY <2>2, NoDefault DEF Untouched
  <2> QED
    BY <1>1, <1>12, <2>1, <2>3, <2>4, Zenon DEF KeptFields
<1>5. PortFields'
  <2>1. /\ c.Port = getEnvValue(env.Port, 9090)
        /\ c.MetricsPort = getEnvValue(env.MetricsPort, 9091)
    BY DEF ConfigOf
  <2> HIDE DEF c
  <2> QED
    BY <1>1, <1>12, <2>1, SMT DEF PortFields
<1>6. SizeFields'
  <2>1. /\ c.MaxRecv = GivenSize(env.MaxRecv)
        /\ c.MaxSend = GivenSize(env.MaxSend)
    BY DEF ConfigOf, GivenSize
  <2> HIDE DEF c
  <2> QED
    BY <1>1, <1>12, <2>1, SMT DEF SizeFields
<1>7. AuthzFields'
  <2>1. /\ c.RoleMatchMode = GivenMode(env.RoleMatchMode)
        /\ c.ScopeMatchMode = GivenMode(env.ScopeMatchMode)
        /\ c.RequiredRoles = normalizeCSVValues(env.RequiredRoles)
        /\ c.RequiredScopes = normalizeCSVValues(env.RequiredScopes)
    BY DEF ConfigOf, GivenMode
  <2> HIDE DEF c
  <2> QED
    BY <1>1, <1>12, <2>1, SMT DEF AuthzFields
<1>8. AuthFields'
  <2>1. c.TokenType = GivenType
    BY DEF ConfigOf, GivenType
  <2> HIDE DEF c
  <2> QED
    BY <1>1, <1>12, <2>1, AskedOnce, SMT DEF AuthFields
<1>9. IntrospectionFields'
  <2>1. /\ c.AuthMethod = getEnvString(env.AuthMethod, "client_secret_basic")
        /\ c.PrivateKey = getEnvString(env.PrivateKey, "")
        /\ c.PrivateKeyFile = getEnvString(env.PrivateKeyFile, "")
        /\ c.Algorithm = getEnvString(env.Algorithm, "")
    BY DEF ConfigOf
  <2>2. pc' \notin PastIntrospection
    BY <1>1
  <2>3. GivenMethod' = getEnvString(env.AuthMethod, "client_secret_basic")
    BY <1>1, Zenon DEF GivenMethod
  <2> QED
    BY <1>1, <1>12, <2>1, <2>2, <2>3, NoDefault, Zenon DEF IntrospectionFields
<1>10. FieldsInv'
  BY <1>4, <1>5, <1>6, <1>7, <1>8, <1>9 DEF FieldsInv
<1>11. ServerInv'
  BY <1>1 DEF IInv, ServerInv
<1> QED
  BY <1>2, <1>3, <1>10, <1>11 DEF IInv

\* What the checks leave alone, whatever they find.
LEMMA Unread ==
  ASSUME NEW here, NEW ok, NEW next, NEW c, Check(here, ok, next, c), IInv,
         here \in Validating,
         next \in {"authz", "auth", "introspection", "tls", "logging"}
  PROVE  /\ env' = env /\ file' = file /\ server' = server /\ pc = here
         /\ (ok /\ pc' = next /\ cfg' = c) \/ (~ ok /\ pc' = "rejected")
         /\ EnvInv' /\ ServerInv'
<1>1. env' = env /\ file' = file /\ server' = server /\ pc = here
  BY DEF Check
<1>2. (ok /\ pc' = next /\ cfg' = c) \/ (~ ok /\ pc' = "rejected")
  BY DEF Check
<1>3. EnvInv'
  BY <1>1, AskedOnce DEF IInv
<1>4. pc' \notin {"options", "serving", "failedTLS", "failedSetting"}
  BY <1>2
<1>5. ServerInv'
  BY <1>1, <1>4 DEF IInv, ServerInv
<1> QED
  BY <1>1, <1>2, <1>3, <1>5
Rewritten == {"MaxRecv", "MaxSend", "RoleMatchMode", "ScopeMatchMode", "TokenType",
              "AuthMethod", "PrivateKey", "PrivateKeyFile", "Algorithm"} \cup Lists

\* A group of fields that a step leaves alone keeps what the invariant says of
\* it, as long as the step is not the one the group waits for.
LEMMA Carried ==
  ASSUME env' = env, file' = file, IInv, pc \in Validating \cup Accepted,
         pc' \in Validating \cup Accepted, DOMAIN cfg' = Fields,
         NEW Left, \A f \in Left : cfg'[f] = cfg[f]
  PROVE  /\ Fields \ Rewritten \subseteq Left => KeptFields' /\ PortFields'
         /\ {"MaxRecv", "MaxSend"} \subseteq Left /\ (pc' \in PastSizes <=> pc \in PastSizes)
              => SizeFields'
         /\ {"RoleMatchMode", "ScopeMatchMode", "RequiredRoles", "RequiredScopes"}
                \subseteq Left /\ (pc' \in PastAuthz <=> pc \in PastAuthz)
              => AuthzFields'
         /\ {"TokenType"} \subseteq Left /\ (pc' \in PastAuth <=> pc \in PastAuth)
              => AuthFields'
         /\ {"AuthMethod", "PrivateKey", "PrivateKeyFile", "Algorithm"} \subseteq Left
                /\ (pc' \in PastIntrospection <=> pc \in PastIntrospection)
              => IntrospectionFields'
<1>1. KeptFields /\ PortFields /\ SizeFields /\ AuthzFields /\ AuthFields
      /\ IntrospectionFields
  BY DEF IInv, FieldsInv
<1>2. ASSUME Fields \ Rewritten \subseteq Left PROVE KeptFields' /\ PortFields'
  <2>1. /\ Untouched \subseteq Fields \ Rewritten
        /\ {"Port", "MetricsPort", "TLSEnabled", "Enabled", "LogLevel", "TLSClientAuth",
            "TLSMinVersion"} \subseteq Fields \ Rewritten
    BY DEF Untouched, Fields, Rewritten, Lists, Numbers, Switches, Texts
  <2>2. \A f \in Untouched : cfg'[f] = cfg[f]
    BY <1>2, <2>1
  <2>3. /\ cfg'.Port = cfg.Port /\ cfg'.MetricsPort = cfg.MetricsPort
        /\ cfg'.TLSEnabled = cfg.TLSEnabled /\ cfg'.Enabled = cfg.Enabled
        /\ cfg'.LogLevel = cfg.LogLevel /\ cfg'.TLSClientAuth = cfg.TLSClientAuth
        /\ cfg'.TLSMinVersion = cfg.TLSMinVersion
    BY <1>2, <2>1
  <2>4. KeptFields'
    BY <1>1, <2>2, <2>3, Zenon DEF KeptFields
  <2>5. PortFields'
    BY <1>1, <2>3, SMT DEF PortFields
  <2> QED
    BY <2>4, <2>5
<1>3. ASSUME {"MaxRecv", "MaxSend"} \subseteq Left, pc' \in PastSizes <=> pc \in PastSizes
      PROVE  SizeFields'
  <2>1. cfg'.MaxRecv = cfg.MaxRecv /\ cfg'.MaxSend = cfg.MaxSend
    BY <1>3
  <2> QED
    BY <1>1, <1>3, <2>1, Zenon DEF SizeFields
<1>4. ASSUME {"RoleMatchMode", "ScopeMatchMode", "RequiredRoles", "RequiredScopes"}
                \subseteq Left, pc' \in PastAuthz <=> pc \in PastAuthz
      PROVE  AuthzFields'
  <2>1. /\ cfg'.RoleMatchMode = cfg.RoleMatchMode /\ cfg'.ScopeMatchMode = cfg.ScopeMatchMode
        /\ cfg'.RequiredRoles = cfg.RequiredRoles /\ cfg'.RequiredScopes = cfg.RequiredScopes
    BY <1>4
  <2> QED
    BY <1>1, <1>4, <2>1, Zenon DEF AuthzFields
<1>5. ASSUME {"TokenType"} \subseteq Left, pc' \in PastAuth <=> pc \in PastAuth
      PROVE  AuthFields'
  <2>1. cfg'.TokenType = cfg.TokenType
    BY <1>5
  <2> QED
    BY <1>1, <1>5, <2>1, AskedOnce, Zenon DEF AuthFields
<1>6. ASSUME {"AuthMethod", "PrivateKey", "PrivateKeyFile", "Algorithm"} \subseteq Left,
             pc' \in PastIntrospection <=> pc \in PastIntrospection
      PROVE  IntrospectionFields'
  <2>1. /\ cfg'.AuthMethod = cfg.AuthMethod /\ cfg'.PrivateKey = cfg.PrivateKey
        /\ cfg'.PrivateKeyFile = cfg.PrivateKeyFile /\ cfg'.Algorithm = cfg.Algorithm
    BY <1>6
  <2> QED
    BY <1>1, <1>6, <2>1, AskedOnce, Zenon DEF IntrospectionFields
<1> QED
  BY <1>2, <1>3, <1>4, <1>5, <1>6, Zenon

\* ValidateSizes
LEMMA SizesStep == IInv /\ ValidateSizes => IInv'
<1> SUFFICES ASSUME IInv, ValidateSizes PROVE IInv'
  OBVIOUS
<1> DEFINE c == [cfg EXCEPT !.MaxRecv = SizeOrDefault(@), !.MaxSend = SizeOrDefault(@)]
<1>1. Check("sizes", ValidSizes, "authz", c)
  BY Zenon DEF ValidateSizes
<1> HIDE DEF c
<1>2. /\ env' = env /\ file' = file /\ server' = server /\ pc = "sizes"
      /\ (ValidSizes /\ pc' = "authz" /\ cfg' = c) \/ (~ ValidSizes /\ pc' = "rejected")
      /\ EnvInv' /\ ServerInv'
  BY <1>1, Unread
<1>3. ValidSizes <=> ListeningRules
  BY <1>2, SizesDecide
<1>4. RulesInv'
  <2>1. ListeningRules' <=> ListeningRules /\ (Rules' <=> Rules)
    BY <1>2, AskedOnce
  <2>2. ~ ListeningRules => ~ Rules
    BY Zenon DEF Rules
  <2> QED
    BY <1>2, <1>3, <2>1, <2>2, AskedOnce DEF RulesInv
<1>5. FieldsInv'
  <2>1. CASE pc' = "rejected"
    BY <2>1 DEF FieldsInv
  <2>2. CASE pc' = "authz" /\ cfg' = c
    <3>1. KeptFields /\ SizeFields
      BY <1>2 DEF IInv, FieldsInv
    <3>2. DOMAIN cfg = Fields
      BY <3>1 DEF KeptFields
    <3> DEFINE Left == Fields \ {"MaxRecv", "MaxSend"}
    <3>3. DOMAIN c = Fields /\ \A f \in Left : c[f] = cfg[f]
      BY <3>2 DEF c
    <3>4. c.MaxRecv = SizeOrDefault(cfg.MaxRecv) /\ c.MaxSend = SizeOrDefault(cfg.MaxSend)
      BY <3>2 DEF c, Fields, Numbers
    <3>5. SizeFields'
      BY <1>2, <2>2, <3>1, <3>4 DEF SizeFields
    <3>6. /\ Fields \ Rewritten \subseteq Left
          /\ {"RoleMatchMode", "ScopeMatchMode", "RequiredRoles", "RequiredScopes",
              "TokenType", "AuthMethod", "PrivateKey", "PrivateKeyFile", "Algorithm"}
                 \subseteq Left
      BY DEF Fields, Rewritten, Texts, Lists
    <3> HIDE DEF Left
    <3>7. KeptFields' /\ PortFields' /\ AuthzFields' /\ AuthFields' /\ IntrospectionFields'
      BY <1>2, <2>2, <3>3, <3>6, Carried
    <3> QED
      BY <3>5, <3>7 DEF FieldsInv
  <2> QED
    BY <1>2, <2>1, <2>2
<1> QED
  BY <1>2, <1>4, <1>5 DEF IInv
\* ValidateAuthz
LEMMA AuthzStep == IInv /\ ValidateAuthz => IInv'
<1> SUFFICES ASSUME IInv, ValidateAuthz PROVE IInv'
  OBVIOUS
<1> DEFINE c == [cfg EXCEPT !.RoleMatchMode   = NormalMode(@),
                            !.ScopeMatchMode  = NormalMode(@),
                            !.RequiredRoles   = normalizeCSVValues(@),
                            !.RequiredScopes  = normalizeCSVValues(@),
                            !.RoleClaimPaths  = normalizeCSVValues(@),
                            !.ScopeClaimPaths = normalizeCSVValues(@)]
<1>1. Check("authz", ValidAuthz, "auth", c)
  BY Zenon DEF ValidateAuthz
<1> HIDE DEF c
<1>2. /\ env' = env /\ file' = file /\ server' = server /\ pc = "authz"
      /\ (ValidAuthz /\ pc' = "auth" /\ cfg' = c) \/ (~ ValidAuthz /\ pc' = "rejected")
      /\ EnvInv' /\ ServerInv'
  BY <1>1, Unread
<1>3. ValidAuthz <=> MatchModeRules
  BY <1>2, AuthzDecides
<1>4. RulesInv'
  <2>1. ListeningRules' /\ (MatchModeRules' <=> MatchModeRules) /\ (Rules' <=> Rules)
    BY <1>2, AskedOnce DEF IInv, RulesInv
  <2>2. ~ MatchModeRules => ~ Rules
    BY Zenon DEF Rules
  <2> QED
    BY <1>2, <1>3, <2>1, <2>2 DEF RulesInv
<1>5. FieldsInv'
  <2>1. CASE pc' = "rejected"
    BY <2>1 DEF FieldsInv
  <2>2. CASE pc' = "auth" /\ cfg' = c
    <3>1. KeptFields /\ AuthzFields
      BY <1>2 DEF IInv, FieldsInv
    <3>2. DOMAIN cfg = Fields
      BY <3>1 DEF KeptFields
    <3> DEFINE Left == Fields \ ({"RoleMatchMode", "ScopeMatchMode"} \cup Lists)
    <3>3. DOMAIN c = Fields /\ \A f \in Left : c[f] = cfg[f]
      BY <3>2 DEF c, Lists
    <3>4. /\ c.RoleMatchMode = NormalMode(cfg.RoleMatchMode)
          /\ c.ScopeMatchMode = NormalMode(cfg.ScopeMatchMode)
          /\ c.RequiredRoles = normalizeCSVValues(cfg.RequiredRoles)
          /\ c.RequiredScopes = normalizeCSVValues(cfg.RequiredScopes)
      BY <3>2 DEF c, Fields, Lists, Texts
    <3>5. AuthzFields'
      <4>1. pc \notin PastAuthz /\ pc' \in PastAuthz
        BY <1>2, <2>2
      <4> QED
        BY <1>2, <2>2, <3>1, <3>4, <4>1, Zenon DEF AuthzFields
    <3>6. /\ Fields \ Rewritten \subseteq Left
          /\ {"MaxRecv", "MaxSend", "TokenType", "AuthMethod", "PrivateKey",
              "PrivateKeyFile", "Algorithm"} \subseteq Left
      BY DEF Fields, Rewritten, Texts, Lists, Numbers
    <3> HIDE DEF Left
    <3>7. KeptFields' /\ PortFields' /\ SizeFields' /\ AuthFields' /\ IntrospectionFields'
      BY <1>2, <2>2, <3>3, <3>6, Carried
    <3> QED
      BY <3>5, <3>7 DEF FieldsInv
  <2> QED
    BY <1>2, <2>1, <2>2
<1> QED
  BY <1>2, <1>4, <1>5 DEF IInv

\* ValidateAuth
LEMMA AuthStep == IInv /\ ValidateAuth => IInv'
<1> SUFFICES ASSUME IInv, ValidateAuth PROVE IInv'
  OBVIOUS
<1> DEFINE c == IF cfg.Enabled
                THEN [cfg EXCEPT !.TokenType = Exact(Parsed(tokenTypeAliases, @))]
                ELSE cfg
<1>1. Check("auth", ValidAuth, "introspection", c)
  BY Zenon DEF ValidateAuth
<1> HIDE DEF c
<1>2. /\ env' = env /\ file' = file /\ server' = server /\ pc = "auth"
      /\ (ValidAuth /\ pc' = "introspection" /\ cfg' = c)
           \/ (~ ValidAuth /\ pc' = "rejected")
      /\ EnvInv' /\ ServerInv'
  BY <1>1, Unread
<1>3. ValidAuth <=> AuthRules
  BY <1>2, AuthDecides
<1>4. RulesInv'
  <2>1. ListeningRules' /\ MatchModeRules' /\ (AuthRules' <=> AuthRules) /\ (Rules' <=> Rules)
    BY <1>2, AskedOnce DEF IInv, RulesInv
  <2>2. ~ AuthRules => ~ Rules
    BY Zenon DEF Rules
  <2> QED
    BY <1>2, <1>3, <2>1, <2>2 DEF RulesInv
<1>5. FieldsInv'
  <2>1. CASE pc' = "rejected"
    BY <2>1 DEF FieldsInv
  <2>2. CASE ValidAuth /\ pc' = "introspection" /\ cfg' = c
    <3>1. KeptFields /\ AuthFields
      BY <1>2 DEF IInv, FieldsInv
    <3>2. DOMAIN cfg = Fields /\ cfg.Enabled = getEnvValue(env.Enabled, FALSE)
      BY <3>1, Zenon DEF KeptFields
    <3>3. cfg.Enabled <=> Set(env.Enabled)
      BY <3>2, EnvironmentTypes, SwitchRule, Zenon DEF IInv
    <3> DEFINE Left == Fields \ {"TokenType"}
    <3>4. DOMAIN c = Fields /\ \A f \in Left : c[f] = cfg[f]
      BY <3>2 DEF c
    <3>5. cfg.TokenType = GivenType
      BY <1>2, <3>1 DEF AuthFields
    <3>6. /\ cfg.Enabled => c.TokenType = Exact(Parsed(tokenTypeAliases, GivenType))
          /\ ~ cfg.Enabled => c.TokenType = GivenType
      BY <3>2, <3>5 DEF c, Fields, Texts
    <3>7. Set(env.Enabled) =>
            Parsed(tokenTypeAliases, GivenType) = IF AsksOpaque THEN "opaque" ELSE "jwt"
      <4> SUFFICES ASSUME Set(env.Enabled)
                   PROVE  Parsed(tokenTypeAliases, GivenType)
                            = IF AsksOpaque THEN "opaque" ELSE "jwt"
        OBVIOUS
      <4>1. env.TokenType.word \in {"", "jwt", "opaque"}
        BY <1>3, <2>2, Zenon DEF AuthRules
      <4>2. AsksOpaque <=> env.TokenType.word = "opaque"
        BY Zenon DEF AsksOpaque
      <4>3. "jwt" \in Words
        BY ConfigAssumption DEF Literals
      <4>4. /\ GivenType.word = IF env.TokenType = Empty THEN "jwt" ELSE env.TokenType.word
            /\ env.TokenType = Empty => env.TokenType.word = ""
        BY <4>3, EnvironmentTypes, WithDefault DEF GivenType, IInv
      <4>5. /\ GivenType.word \in {"", "jwt"} => Parsed(tokenTypeAliases, GivenType) = "jwt"
            /\ GivenType.word = "opaque" => Parsed(tokenTypeAliases, GivenType) = "opaque"
        BY TokenTypes
      <4> QED
        BY <4>1, <4>2, <4>4, <4>5
    <3>8. AuthFields'
      <4>1. pc' \in PastAuth
        BY <2>2
      <4>2. Set(env.Enabled) => c.TokenType = Exact(IF AsksOpaque THEN "opaque" ELSE "jwt")
        BY <3>3, <3>6, <3>7, Zenon
      <4>3. ~ Set(env.Enabled) => c.TokenType = GivenType
        BY <3>3, <3>6, Zenon
      <4> QED
        BY <1>2, <2>2, <4>1, <4>2, <4>3, AskedOnce, Zenon DEF AuthFields
    <3>9. /\ Fields \ Rewritten \subseteq Left
          /\ {"MaxRecv", "MaxSend", "RoleMatchMode", "ScopeMatchMode", "RequiredRoles",
              "RequiredScopes", "AuthMethod", "PrivateKey", "PrivateKeyFile", "Algorithm"}
                \subseteq Left
      BY DEF Fields, Rewritten, Texts, Lists, Numbers
    <3> HIDE DEF Left
    <3>10. KeptFields' /\ PortFields' /\ SizeFields' /\ AuthzFields' /\ IntrospectionFields'
      BY <1>2, <2>2, <3>4, <3>9, Carried
    <3> QED
      BY <3>8, <3>10 DEF FieldsInv
  <2> QED
    BY <1>2, <2>1, <2>2
<1> QED
  BY <1>2, <1>4, <1>5 DEF IInv

\* ValidateIntrospection
LEMMA IntrospectionStep == IInv /\ ValidateIntrospection => IInv'
<1> SUFFICES ASSUME IInv, ValidateIntrospection PROVE IInv'
  OBVIOUS
<1> DEFINE c == IF ~ Opaque THEN cfg
                ELSE IF Basic THEN [cfg EXCEPT !.AuthMethod = Exact("client_secret_basic")]
                ELSE [cfg EXCEPT !.AuthMethod     = Exact("private_key_jwt"),
                                 !.PrivateKey     = KeyRead,
                                 !.PrivateKeyFile = TrimSpace(@),
                                 !.Algorithm      = Exact(@.word)]
<1>1. Check("introspection", ValidIntrospection, "tls", c)
  BY Zenon DEF ValidateIntrospection
<1> HIDE DEF c
<1>2. /\ env' = env /\ file' = file /\ server' = server /\ pc = "introspection"
      /\ (ValidIntrospection /\ pc' = "tls" /\ cfg' = c)
           \/ (~ ValidIntrospection /\ pc' = "rejected")
      /\ EnvInv' /\ ServerInv'
  BY <1>1, Unread
<1>3. ValidIntrospection <=> IntrospectionRules
  BY <1>2, IntrospectionDecides
<1>4. RulesInv'
  <2>1. /\ ListeningRules' /\ MatchModeRules' /\ AuthRules'
        /\ (IntrospectionRules' <=> IntrospectionRules) /\ (Rules' <=> Rules)
    BY <1>2, AskedOnce DEF IInv, RulesInv
  <2>2. ~ IntrospectionRules => ~ Rules
    BY Zenon DEF Rules
  <2> QED
    BY <1>2, <1>3, <2>1, <2>2 DEF RulesInv
<1>5. FieldsInv'
  <2>1. CASE pc' = "rejected"
    BY <2>1 DEF FieldsInv
  <2>2. CASE ValidIntrospection /\ pc' = "tls" /\ cfg' = c
    <3>1. KeptFields /\ IntrospectionFields
      BY <1>2 DEF IInv, FieldsInv
    <3>2. DOMAIN cfg = Fields
      BY <3>1, Zenon DEF KeptFields
    <3> DEFINE Left == Fields \ {"AuthMethod", "PrivateKey", "PrivateKeyFile", "Algorithm"}
    <3>3. DOMAIN c = Fields /\ \A f \in Left : c[f] = cfg[f]
      BY <3>2 DEF c
    <3>4. /\ cfg.AuthMethod = GivenMethod /\ cfg.PrivateKey = env.PrivateKey
          /\ cfg.PrivateKeyFile = env.PrivateKeyFile /\ cfg.Algorithm = env.Algorithm
      BY <1>2, <3>1 DEF IntrospectionFields
    <3>5. IntrospectionFields'
      <4>1. pc' \in PastIntrospection
        BY <2>2
      <4>2. CASE ~ AsksOpaque
        <5>1. c = cfg
          BY <1>2, <4>2, OpaqueAsked, Zenon DEF c
        <5>2. ~ AsksPrivateKey
          BY <4>2, Zenon DEF AsksPrivateKey
        <5> QED
          BY <1>2, <2>2, <3>4, <4>2, <5>1, <5>2, AskedOnce, Zenon DEF IntrospectionFields
      <4>3. CASE AsksOpaque /\ ~ AsksPrivateKey
        <5>1. Opaque /\ Basic
          BY <1>2, <2>2, <4>3, OpaqueAsked, Zenon DEF AsksPrivateKey, ValidIntrospection
        <5>2. c = [cfg EXCEPT !.AuthMethod = Exact("client_secret_basic")]
          BY <5>1, Zenon DEF c
        <5>3. /\ c.AuthMethod = Exact("client_secret_basic")
              /\ c.PrivateKey = cfg.PrivateKey /\ c.PrivateKeyFile = cfg.PrivateKeyFile
              /\ c.Algorithm = cfg.Algorithm
          BY <3>2, <5>2 DEF Fields, Texts
        <5> QED
          BY <1>2, <2>2, <3>4, <4>1, <4>3, <5>3, AskedOnce, Zenon DEF IntrospectionFields
      <4>4. CASE AsksPrivateKey
        <5>1. AsksOpaque /\ Opaque /\ ~ Basic
          BY <1>2, <2>2, <4>4, OpaqueAsked, Zenon DEF AsksPrivateKey, ValidIntrospection
        <5>2. c = [cfg EXCEPT !.AuthMethod     = Exact("private_key_jwt"),
                              !.PrivateKey     = KeyRead,
                              !.PrivateKeyFile = TrimSpace(@),
                              !.Algorithm      = Exact(@.word)]
          BY <5>1, Zenon DEF c
        <5>3. /\ c.AuthMethod = Exact("private_key_jwt")
              /\ c.PrivateKey = KeyRead
              /\ c.PrivateKeyFile = TrimSpace(cfg.PrivateKeyFile)
              /\ c.Algorithm = Exact(cfg.Algorithm.word)
          BY <3>2, <5>2 DEF Fields, Texts
        <5>4. KeyRead # Empty
          BY <2>2, <5>1, Zenon DEF ValidIntrospection
        <5>5. KeyRead = KeyAsked
          BY <1>2, <5>4, KeyDecides
        <5> QED
          BY <1>2, <2>2, <3>4, <4>1, <4>4, <5>1, <5>3, <5>5, AskedOnce, Zenon
             DEF IntrospectionFields
      <4> QED
        BY <4>2, <4>3, <4>4, Zenon DEF AsksPrivateKey
    <3>6. /\ Fields \ Rewritten \subseteq Left
          /\ {"MaxRecv", "MaxSend", "RoleMatchMode", "ScopeMatchMode", "RequiredRoles",
              "RequiredScopes", "TokenType"} \subseteq Left
      BY DEF Fields, Rewritten, Texts, Lists, Numbers
    <3> HIDE DEF Left
    <3>7. KeptFields' /\ PortFields' /\ SizeFields' /\ AuthzFields' /\ AuthFields'
      BY <1>2, <2>2, <3>3, <3>6, Carried
    <3> QED
      BY <3>5, <3>7 DEF FieldsInv
  <2> QED
    BY <1>2, <2>1, <2>2
<1> QED
  BY <1>2, <1>4, <1>5 DEF IInv

\* ValidateTLS
LEMMA TLSStep == IInv /\ ValidateTLS => IInv'
<1> SUFFICES ASSUME IInv, ValidateTLS PROVE IInv'
  OBVIOUS
<1> DEFINE ok == cfg.TLSEnabled => ValidTLS
<1>1. Check("tls", ok, "logging", cfg)
  BY Zenon DEF ValidateTLS
<1> HIDE DEF ok
<1>2. /\ env' = env /\ file' = file /\ server' = server /\ pc = "tls"
      /\ (ok /\ pc' = "logging" /\ cfg' = cfg) \/ (~ ok /\ pc' = "rejected")
      /\ EnvInv' /\ ServerInv'
  BY <1>1, Unread
<1>3. ok <=> TLSRules
  BY <1>2, TLSDecides DEF ok
<1>4. RulesInv'
  <2>1. /\ ListeningRules' /\ MatchModeRules' /\ AuthRules' /\ IntrospectionRules'
        /\ (TLSRules' <=> TLSRules) /\ (Rules' <=> Rules)
    BY <1>2, AskedOnce DEF IInv, RulesInv
  <2>2. ~ TLSRules => ~ Rules
    BY Zenon DEF Rules
  <2> QED
    BY <1>2, <1>3, <2>1, <2>2 DEF RulesInv
<1>5. FieldsInv'
  <2>1. CASE pc' = "rejected"
    BY <2>1 DEF FieldsInv
  <2>2. CASE pc' = "logging" /\ cfg' = cfg
    <3>1. DOMAIN cfg = Fields
      BY <1>2 DEF IInv, FieldsInv, KeptFields
    <3>2. Rewritten \subseteq Fields
      BY DEF Fields, Rewritten, Texts, Lists, Numbers
    <3>3. \A f \in Fields : cfg'[f] = cfg[f]
      BY <2>2
    <3>4. {"MaxRecv", "MaxSend", "RoleMatchMode", "ScopeMatchMode", "RequiredRoles",
           "RequiredScopes", "TokenType", "AuthMethod", "PrivateKey", "PrivateKeyFile",
           "Algorithm"} \subseteq Fields
      BY <3>2 DEF Rewritten, Lists
    <3>5. KeptFields' /\ PortFields' /\ SizeFields' /\ AuthzFields' /\ AuthFields'
          /\ IntrospectionFields'
      BY <1>2, <2>2, <3>1, <3>3, <3>4, Carried
    <3> QED
      BY <3>5 DEF FieldsInv
  <2> QED
    BY <1>2, <2>1, <2>2
<1> QED
  BY <1>2, <1>4, <1>5 DEF IInv
-----------------------------------------------------------------------------
\* The consumers change only what they build.

LEMMA ConsumerStep ==
  ASSUME IInv, env' = env, file' = file, cfg' = cfg, pc \in Accepted, pc' \in Accepted
  PROVE  EnvInv' /\ RulesInv' /\ FieldsInv'
<1>1. EnvInv'
  BY AskedOnce DEF IInv
<1>2. RulesInv'
  <2>1. pc' # "rejected"
    OBVIOUS
  <2>2. /\ ListeningRules' /\ MatchModeRules' /\ AuthRules' /\ IntrospectionRules'
        /\ TLSRules'
    BY AskedOnce DEF IInv, RulesInv
  <2> QED
    BY <2>1, <2>2 DEF RulesInv
<1>3. FieldsInv'
  <2>1. DOMAIN cfg = Fields
    BY DEF IInv, FieldsInv, KeptFields
  <2>2. Rewritten \subseteq Fields
    BY DEF Fields, Rewritten, Texts, Lists, Numbers
  <2>3. \A f \in Fields : cfg'[f] = cfg[f]
    OBVIOUS
  <2>4. {"MaxRecv", "MaxSend", "RoleMatchMode", "ScopeMatchMode", "RequiredRoles",
         "RequiredScopes", "TokenType", "AuthMethod", "PrivateKey", "PrivateKeyFile",
         "Algorithm"} \subseteq Fields
    BY <2>2 DEF Rewritten, Lists
  <2>5. KeptFields' /\ PortFields' /\ SizeFields' /\ AuthzFields' /\ AuthFields'
        /\ IntrospectionFields'
    BY <2>1, <2>3, <2>4, Carried
  <2> QED
    BY <2>5 DEF FieldsInv
<1> QED
  BY <1>1, <1>2, <1>3

\* The sizes that pass Validate are positive.
LEMMA SizesPositive ==
  ASSUME IInv, pc \in PastSizes
  PROVE  /\ cfg.MaxRecv \in Nat /\ cfg.MaxRecv > 0
         /\ cfg.MaxSend \in Nat /\ cfg.MaxSend > 0
<1>1. /\ cfg.MaxRecv = SizeOrDefault(GivenSize(env.MaxRecv))
      /\ cfg.MaxSend = SizeOrDefault(GivenSize(env.MaxSend))
  BY DEF IInv, FieldsInv, SizeFields
<1>2. /\ env.MaxRecv = <<>> \/ env.MaxRecv[1] >= 0
      /\ env.MaxSend = <<>> \/ env.MaxSend[1] >= 0
  BY Zenon DEF IInv, RulesInv, ListeningRules
<1>3. env.MaxRecv \in Optional(Int) /\ env.MaxSend \in Optional(Int)
  BY EnvironmentTypes DEF IInv
<1>4. cfg.MaxRecv \in Int /\ cfg.MaxRecv > 0
  BY <1>1, <1>2, <1>3, SizeRule DEF GivenSize
<1>5. cfg.MaxSend \in Int /\ cfg.MaxSend > 0
  BY <1>1, <1>2, <1>3, SizeRule DEF GivenSize
<1> QED
  BY <1>4, <1>5

\* setupLogging
LEMMA LoggingStep == IInv /\ setupLogging => IInv'
<1> SUFFICES ASSUME IInv, setupLogging PROVE IInv'
  OBVIOUS
<1> DEFINE level == IF cfg.LogLevel \in {Exact(l) : l \in logLevels}
                    THEN cfg.LogLevel.word ELSE "fallback"
<1>1. /\ pc = "logging" /\ pc' = "interceptors" /\ server' = [server EXCEPT !.level = level]
      /\ env' = env /\ file' = file /\ cfg' = cfg
  BY Zenon DEF setupLogging, Consume
<1>2. level # "fallback"
  <2>1. cfg.LogLevel = getEnvString(env.LogLevel, "info")
    BY <1>1 DEF IInv, FieldsInv, KeptFields
  <2>2. env.LogLevel.word \in logLevels \cup {""} /\ env.LogLevel.form = {}
    BY <1>1, Zenon DEF IInv, RulesInv, ListeningRules
  <2>3. cfg.LogLevel \in {Exact(l) : l \in logLevels}
    BY <2>1, <2>2, EnvironmentTypes, LevelRule, Zenon DEF IInv
  <2>4. PICK l \in logLevels : cfg.LogLevel = Exact(l)
    BY <2>3
  <2>5. cfg.LogLevel.word = l
    BY <2>4, ExactString
  <2> QED
    BY <2>3, <2>5 DEF logLevels
<1> HIDE DEF level
<1>3. ServerInv'
  <2>1. DOMAIN server = DOMAIN NotBuilt /\ server.recv \in Nat /\ server.send \in Nat
    BY DEF IInv, ServerInv
  <2>2. /\ DOMAIN server' = DOMAIN NotBuilt /\ server'.level = level
        /\ server'.recv = server.recv /\ server'.send = server.send
    BY <1>1, <2>1 DEF NotBuilt
  <2> QED
    BY <1>1, <1>2, <2>1, <2>2 DEF ServerInv
<1> QED
  BY <1>1, <1>3, ConsumerStep DEF IInv

\* buildUnaryInterceptors
LEMMA InterceptorsStep == IInv /\ buildUnaryInterceptors => IInv'
<1> SUFFICES ASSUME IInv, buildUnaryInterceptors PROVE IInv'
  OBVIOUS
<1> DEFINE validator == IF cfg.Enabled THEN validatorBuilder ELSE <<"none">>
           policy == IF cfg.Enabled THEN buildAuthorizationPolicy ELSE "none"
           built == [server EXCEPT !.validator = validator, !.policy = policy]
<1>1. /\ pc = "interceptors" /\ env' = env /\ file' = file /\ cfg' = cfg
      /\ \/ pc' = "options" /\ server' = built
         \/ pc' = "failedValidator" /\ server' = server
  BY Zenon DEF buildUnaryInterceptors, Consume
<1>2. ServerInv'
  <2>1. CASE pc' = "options" /\ server' = built
    <3>1. /\ DOMAIN server = DOMAIN NotBuilt /\ server.recv \in Nat /\ server.send \in Nat
          /\ server.level # "fallback"
      BY DEF IInv, ServerInv
    <3>2. validatorBuilder' = validatorBuilder
          /\ buildAuthorizationPolicy' = buildAuthorizationPolicy
      BY <1>1, Zenon DEF validatorBuilder, buildAuthorizationPolicy
    <3> HIDE DEF validator, policy
    <3>3. /\ DOMAIN built = DOMAIN NotBuilt
          /\ built.validator = validator /\ built.policy = policy
          /\ built.level = server.level
          /\ built.recv = server.recv /\ built.send = server.send
      BY <3>1 DEF NotBuilt
    <3>4. /\ validator = IF cfg.Enabled THEN validatorBuilder ELSE <<"none">>
          /\ policy = IF cfg.Enabled THEN buildAuthorizationPolicy ELSE "none"
      BY DEF validator, policy
    <3> HIDE DEF built
    <3>5. /\ server'.validator = IF cfg'.Enabled THEN validatorBuilder' ELSE <<"none">>
          /\ server'.policy = IF cfg'.Enabled THEN buildAuthorizationPolicy' ELSE "none"
      BY <1>1, <2>1, <3>2, <3>3, <3>4, Zenon
    <3>6. /\ DOMAIN server' = DOMAIN NotBuilt /\ server'.recv \in Nat
          /\ server'.send \in Nat /\ server'.level # "fallback"
      BY <2>1, <3>1, <3>3, Zenon
    <3>7. pc' # "serving" /\ pc' # "failedSetting"
      BY <2>1
    <3> QED
      BY <3>5, <3>6, <3>7, Zenon DEF ServerInv
  <2>2. CASE pc' = "failedValidator" /\ server' = server
    BY <2>2 DEF IInv, ServerInv
  <2> QED
    BY <1>1, <2>1, <2>2
<1>3. pc \in Accepted /\ pc' \in Accepted
  BY <1>1
<1> QED
  BY <1>1, <1>2, <1>3, ConsumerStep DEF IInv

\* buildGRPCServerOptions
LEMMA OptionsStep == IInv /\ buildGRPCServerOptions => IInv'
<1> SUFFICES ASSUME IInv, buildGRPCServerOptions PROVE IInv'
  OBVIOUS
<1> DEFINE sized == [server EXCEPT !.recv = SizeOrFallback(cfg.MaxRecv),
                                   !.send = SizeOrFallback(cfg.MaxSend)]
           plain == <<"plain">>
           chosen == <<Parsed(clientAuthAliases, cfg.TLSClientAuth),
                       Parsed(minVersionAliases, cfg.TLSMinVersion)>>
<1>1. pc = "options"
  BY Zenon DEF buildGRPCServerOptions
<1>2. /\ cfg.TLSEnabled <=> Set(env.TLSEnabled)
      /\ cfg.TLSEnabled => TLSParses
  <2>1. TLSRules
    BY <1>1 DEF IInv, RulesInv
  <2>2. /\ cfg.TLSEnabled <=> Set(env.TLSEnabled)
        /\ (cfg.TLSEnabled => ValidTLS) <=> TLSRules
    BY <1>1, TLSDecides
  <2> QED
    BY <2>1, <2>2, Zenon DEF ValidTLS
<1>3. /\ env' = env /\ file' = file /\ cfg' = cfg
      /\ \/ ~ cfg.TLSEnabled /\ pc' = "serving" /\ server' = [sized EXCEPT !.tls = plain]
         \/ cfg.TLSEnabled /\ pc' = "serving" /\ server' = [sized EXCEPT !.tls = chosen]
         \/ pc' = "failedTLS" /\ server' = server
  BY <1>2, Zenon DEF buildGRPCServerOptions, Consume
<1>4. plain[1] = "plain"
  OBVIOUS
<1>5. cfg.TLSEnabled => chosen[1] # "plain"
  <2> SUFFICES ASSUME cfg.TLSEnabled PROVE chosen[1] # "plain"
    OBVIOUS
  <2>1. Parses(clientAuthAliases, cfg.TLSClientAuth)
    BY <1>2, Zenon DEF TLSParses
  <2>2. Parsed(clientAuthAliases, cfg.TLSClientAuth) \in DOMAIN clientAuthAliases
    BY <2>1, Zenon DEF Parses, Parsed
  <2>3. "plain" \notin DOMAIN clientAuthAliases
    BY DEF clientAuthAliases
  <2>4. chosen[1] = Parsed(clientAuthAliases, cfg.TLSClientAuth)
    OBVIOUS
  <2> HIDE DEF chosen
  <2> QED
    BY <2>2, <2>3, <2>4, Zenon
<1>6. SizeOrFallback(cfg.MaxRecv) = cfg.MaxRecv /\ SizeOrFallback(cfg.MaxSend) = cfg.MaxSend
  BY <1>1, SizesPositive DEF SizeOrFallback
<1>7. cfg.MaxRecv \in Nat /\ cfg.MaxSend \in Nat
  BY <1>1, SizesPositive
<1> HIDE DEF plain, chosen
<1>8. /\ DOMAIN server = DOMAIN NotBuilt /\ server.recv \in Nat /\ server.send \in Nat
      /\ server.level # "fallback"
      /\ server.validator = IF cfg.Enabled THEN validatorBuilder ELSE <<"none">>
      /\ server.policy = IF cfg.Enabled THEN buildAuthorizationPolicy ELSE "none"
  <2>1. ServerInv /\ pc \in {"options", "serving", "failedTLS"}
    BY <1>1 DEF IInv
  <2> QED
    BY <2>1, Zenon DEF ServerInv
<1>9. /\ validatorBuilder' = validatorBuilder
      /\ buildAuthorizationPolicy' = buildAuthorizationPolicy
  BY <1>3, Zenon DEF validatorBuilder, buildAuthorizationPolicy
<1>10. ASSUME NEW t, pc' = "serving", server' = [sized EXCEPT !.tls = t],
              t[1] # "plain" <=> cfg.TLSEnabled
       PROVE  ServerInv'
  <2>1. /\ DOMAIN server' = DOMAIN NotBuilt
        /\ server'.recv = SizeOrFallback(cfg.MaxRecv)
        /\ server'.send = SizeOrFallback(cfg.MaxSend)
        /\ server'.level = server.level
        /\ server'.validator = server.validator /\ server'.policy = server.policy
        /\ server'.tls = t
    BY <1>8, <1>10 DEF NotBuilt
  <2>2. /\ server'.validator = IF cfg'.Enabled THEN validatorBuilder' ELSE <<"none">>
        /\ server'.policy = IF cfg'.Enabled THEN buildAuthorizationPolicy' ELSE "none"
    BY <1>3, <1>8, <1>9, <2>1, Zenon
  <2>3. server'.recv = cfg'.MaxRecv /\ server'.send = cfg'.MaxSend
    BY <1>3, <1>6, <2>1, Zenon
  <2>4. server'.tls[1] # "plain" <=> Set(env'.TLSEnabled)
    BY <1>2, <1>3, <1>10, <2>1, Zenon
  <2>5. server'.recv \in Nat /\ server'.send \in Nat
    BY <1>6, <1>7, <2>1, Zenon
  <2>6. pc' # "failedSetting" /\ server'.level # "fallback"
    BY <1>8, <1>10, <2>1
  <2> QED
    BY <2>1, <2>2, <2>3, <2>4, <2>5, <2>6, Zenon DEF ServerInv
<1>11. ServerInv'
  <2>1. CASE ~ cfg.TLSEnabled /\ pc' = "serving" /\ server' = [sized EXCEPT !.tls = plain]
    BY <1>4, <1>10, <2>1, Zenon
  <2>2. CASE cfg.TLSEnabled /\ pc' = "serving" /\ server' = [sized EXCEPT !.tls = chosen]
    BY <1>5, <1>10, <2>2, Zenon
  <2>3. CASE pc' = "failedTLS" /\ server' = server
    <3>1. pc' # "serving" /\ pc' # "failedSetting"
      BY <2>3
    <3> QED
      BY <1>3, <1>8, <1>9, <2>3, <3>1, Zenon DEF ServerInv
  <2> QED
    BY <1>3, <2>1, <2>2, <2>3, Zenon
<1>12. pc \in Accepted /\ pc' \in Accepted
  BY <1>1, <1>3
<1> QED
  BY <1>3, <1>11, <1>12, ConsumerStep DEF IInv

\* Nothing happens once run() has come to one of its ends.
LEMMA StutterStep == IInv /\ UNCHANGED vars => IInv'
<1> SUFFICES ASSUME IInv, UNCHANGED vars PROVE IInv'
  OBVIOUS
<1>1. pc' = pc /\ env' = env /\ cfg' = cfg /\ file' = file /\ server' = server
  BY DEF vars
<1>2. EnvInv' /\ RulesInv'
  BY <1>1, AskedOnce DEF IInv, RulesInv
<1>3. KeptFields' <=> KeptFields
  BY <1>1, Zenon DEF KeptFields
<1>4. PortFields' <=> PortFields
  BY <1>1 DEF PortFields
<1>5. (SizeFields' <=> SizeFields) /\ (AuthzFields' <=> AuthzFields)
  BY <1>1, Zenon DEF SizeFields, AuthzFields
<1>6. (AuthFields' <=> AuthFields) /\ (IntrospectionFields' <=> IntrospectionFields)
  BY <1>1, AskedOnce, Zenon DEF AuthFields, IntrospectionFields
<1>7. FieldsInv'
  BY <1>1, <1>3, <1>4, <1>5, <1>6, Zenon DEF IInv, FieldsInv
<1>8. validatorBuilder' = validatorBuilder
      /\ buildAuthorizationPolicy' = buildAuthorizationPolicy
  BY <1>1, Zenon DEF validatorBuilder, buildAuthorizationPolicy
<1>9. ServerInv'
  BY <1>1, <1>8, Zenon DEF IInv, ServerInv
<1> QED
  BY <1>2, <1>7, <1>9 DEF IInv

\* The invariant of every behaviour.
LEMMA Invariance == Spec => []IInv
<1>1. IInv /\ [Next]_vars => IInv'
  BY LoadStep, SizesStep, AuthzStep, AuthStep, IntrospectionStep, TLSStep,
     LoggingStep, InterceptorsStep, OptionsStep, StutterStep, Zenon
     DEF Next, Ended
<1> QED
  BY Start, <1>1, PTL DEF Spec-----------------------------------------------------------------------------
\* The properties of Config.

\* The process goes on past Load exactly when the environment keeps the rules of
\* the code, Rules, a condition on env and the key file alone: the order of the
\* checks and the rewriting between them (config.go:107-227) make no difference.
THEOREM LoadKeepsTheRules == Spec => []RulesDecide
<1>1. IInv => RulesDecide
  <2> SUFFICES ASSUME IInv PROVE RulesDecide
    OBVIOUS
  <2>1. RulesInv
    BY DEF IInv
  <2>2. ASSUME pc \in Accepted PROVE Rules
    <3>1. /\ pc \in PastSizes /\ pc \in PastAuthz /\ pc \in PastAuth
          /\ pc \in PastIntrospection
      BY <2>2
    <3> QED
      BY <2>1, <2>2, <3>1, Zenon DEF RulesInv, Rules
  <2>3. pc = "rejected" => ~ Rules
    BY <2>1, Zenon DEF RulesInv
  <2> QED
    BY <2>2, <2>3, Zenon DEF RulesDecide
<1> QED
  BY Invariance, <1>1, PTL

\* Once the server serves, what the consumers have built comes from the
\* normalized fields, and these from the environment.
LEMMA ServedFields ==
  ASSUME IInv, pc = "serving"
  PROVE  /\ cfg.Enabled <=> Set(env.Enabled)
         /\ Set(env.Enabled) =>
              /\ server.validator = validatorBuilder
              /\ server.policy = buildAuthorizationPolicy
              /\ cfg.TokenType = Exact(IF AsksOpaque THEN "opaque" ELSE "jwt")
         /\ cfg.JWKSURL = env.JWKSURL
         /\ AsksOpaque => cfg.AuthMethod = Exact(IF AsksPrivateKey THEN "private_key_jwt"
                                                 ELSE "client_secret_basic")
         /\ AsksPrivateKey => cfg.PrivateKey = KeyAsked
         /\ cfg.RoleMatchMode = NormalMode(GivenMode(env.RoleMatchMode))
         /\ cfg.ScopeMatchMode = NormalMode(GivenMode(env.ScopeMatchMode))
         /\ cfg.RequiredRoles = normalizeCSVValues(normalizeCSVValues(env.RequiredRoles))
         /\ cfg.RequiredScopes = normalizeCSVValues(normalizeCSVValues(env.RequiredScopes))
         /\ cfg.MaxRecv = SizeOrDefault(GivenSize(env.MaxRecv))
<1>1. /\ pc \in Validating \cup Accepted /\ pc \in PastSizes /\ pc \in PastAuthz
      /\ pc \in PastAuth /\ pc \in PastIntrospection
      /\ pc \in {"options", "serving", "failedTLS"}
  OBVIOUS
<1>2. /\ KeptFields /\ SizeFields /\ AuthzFields /\ AuthFields /\ IntrospectionFields
      /\ EnvInv /\ ServerInv
  BY <1>1, Zenon DEF IInv, FieldsInv
<1>3. cfg.Enabled <=> Set(env.Enabled)
  <2>1. cfg.Enabled = getEnvValue(env.Enabled, FALSE)
    BY <1>2, Zenon DEF KeptFields
  <2> QED
    BY <1>2, <2>1, EnvironmentTypes, SwitchRule, Zenon
<1>4. cfg.JWKSURL = env.JWKSURL
  BY <1>2, Zenon DEF KeptFields, Untouched
<1>5. cfg.MaxRecv = SizeOrDefault(GivenSize(env.MaxRecv))
  BY <1>1, <1>2, Zenon DEF SizeFields
<1>6. /\ cfg.RoleMatchMode = NormalMode(GivenMode(env.RoleMatchMode))
      /\ cfg.ScopeMatchMode = NormalMode(GivenMode(env.ScopeMatchMode))
      /\ cfg.RequiredRoles = normalizeCSVValues(normalizeCSVValues(env.RequiredRoles))
      /\ cfg.RequiredScopes = normalizeCSVValues(normalizeCSVValues(env.RequiredScopes))
  BY <1>1, <1>2, Zenon DEF AuthzFields
<1>7. Set(env.Enabled) =>
        /\ server.validator = validatorBuilder
        /\ server.policy = buildAuthorizationPolicy
        /\ cfg.TokenType = Exact(IF AsksOpaque THEN "opaque" ELSE "jwt")
  BY <1>1, <1>2, <1>3, Zenon DEF ServerInv, AuthFields
<1>8. AsksOpaque => cfg.AuthMethod = Exact(IF AsksPrivateKey THEN "private_key_jwt"
                                           ELSE "client_secret_basic")
  BY <1>1, <1>2, Zenon DEF IntrospectionFields
<1>9. AsksPrivateKey => cfg.PrivateKey = KeyAsked
  BY <1>1, <1>2, Zenon DEF IntrospectionFields
<1> QED
  BY <1>3, <1>4, <1>5, <1>6, <1>7, <1>8, <1>9, Zenon

\* Only the word all asks for the mode all.
LEMMA ModeAsked ==
  ASSUME NEW s \in Strings, s.word \in {"", "any", "all"}
  PROVE  /\ NormalMode(GivenMode(s)) = Exact("all") <=> s.word = "all"
         /\ NormalMode(GivenMode(s)) \in Strings
<1>1. "any" \in Words /\ "all" \in Words
  BY ConfigAssumption DEF Literals
<1>2. /\ GivenMode(s).word = IF s = Empty THEN "any" ELSE s.word
      /\ s = Empty => s.word = ""
  BY <1>1, WithDefault DEF GivenMode
<1>3. Exact("any") # Exact("all") /\ Exact("any") \in Strings /\ Exact("all") \in Strings
  <2>1. \A w : Exact(w).word = w /\ (w \in Words => Exact(w) \in Strings)
    BY ExactString, Zenon
  <2>2. "any" # "all"
    OBVIOUS
  <2> QED
    BY <1>1, <2>1, <2>2, Zenon
<1>4. CASE s.word = "all"
  <2>1. GivenMode(s).word = "all"
    BY <1>2, <1>4
  <2>2. NormalMode(GivenMode(s)) = Exact("all")
    BY <2>1, MatchModes DEF NormalMode
  <2> QED
    BY <1>3, <1>4, <2>2
<1>5. CASE s.word # "all"
  <2>1. GivenMode(s).word \in {"", "any"}
    BY <1>2, <1>5
  <2>2. NormalMode(GivenMode(s)) = Exact("any")
    BY <2>1, MatchModes DEF NormalMode
  <2> QED
    BY <1>3, <1>5, <2>2
<1> QED
  BY <1>4, <1>5
\* What main.go's exact comparisons choose is what the environment asked for,
\* however its values are spelled, and the key of the validator comes from
\* exactly one place (main.go:214-236, 280-299; config.go:188-205).
THEOREM ChoicesAreTheEnvironments == Spec => []ServedAsSpelled
<1>1. IInv => ServedAsSpelled
  <2> SUFFICES ASSUME IInv, pc = "serving", Set(env.Enabled) PROVE ServedAsSpelled
    BY Zenon DEF ServedAsSpelled
  <2>1. EnvInv /\ MatchModeRules /\ IntrospectionRules
    <3>1. pc \in PastAuthz /\ pc \in PastIntrospection
      OBVIOUS
    <3> QED
      BY <3>1, Zenon DEF IInv, RulesInv
  <2>2. /\ server.validator = validatorBuilder
        /\ server.policy = buildAuthorizationPolicy
        /\ cfg.TokenType = Exact(IF AsksOpaque THEN "opaque" ELSE "jwt")
        /\ cfg.JWKSURL = env.JWKSURL
        /\ AsksOpaque => cfg.AuthMethod = Exact(IF AsksPrivateKey THEN "private_key_jwt"
                                                ELSE "client_secret_basic")
        /\ AsksPrivateKey => cfg.PrivateKey = KeyAsked
        /\ cfg.RoleMatchMode = NormalMode(GivenMode(env.RoleMatchMode))
        /\ cfg.ScopeMatchMode = NormalMode(GivenMode(env.ScopeMatchMode))
    BY ServedFields, Zenon
  <2>3. /\ Exact("opaque") # Exact("jwt")
        /\ Exact("private_key_jwt") # Exact("client_secret_basic")
    <3>1. \A v, w : Exact(v) = Exact(w) => v = w
      BY DEF Exact, Spelling
    <3>2. "opaque" # "jwt" /\ "private_key_jwt" # "client_secret_basic"
      OBVIOUS
    <3> QED
      BY <3>1, <3>2, Zenon
  <2>4. /\ cfg.TokenType = Exact("opaque") <=> AsksOpaque
        /\ AsksOpaque => (cfg.AuthMethod = Exact("private_key_jwt") <=> AsksPrivateKey)
        /\ AsksPrivateKey => AsksOpaque
    BY <2>2, <2>3, Zenon DEF AsksPrivateKey
  <2>5. /\ AsksPrivateKey => validatorBuilder[1] = "privateKey"
                             /\ validatorBuilder[4] = cfg.PrivateKey
        /\ ~ AsksPrivateKey /\ AsksOpaque => validatorBuilder[1] = "clientSecret"
        /\ ~ AsksOpaque /\ env.JWKSURL # Empty => validatorBuilder[1] = "jwks"
        /\ ~ AsksOpaque /\ env.JWKSURL = Empty => validatorBuilder[1] = "issuer"
    BY <2>2, <2>4 DEF validatorBuilder
  <2>6. server.validator[1] = IF AsksPrivateKey THEN "privateKey"
                              ELSE IF AsksOpaque THEN "clientSecret"
                              ELSE IF env.JWKSURL # Empty THEN "jwks"
                              ELSE "issuer"
    BY <2>2, <2>4, <2>5, Zenon
  <2>7. ASSUME AsksPrivateKey
        PROVE  LET key == server.validator[4]
               IN /\ ~ Blank(key) /\ "spaces" \notin key.form
                  /\ Blank(env.PrivateKey) \/ Blank(env.PrivateKeyFile)
                  /\ key.word = IF Blank(env.PrivateKeyFile) THEN env.PrivateKey.word
                                ELSE file[1].word
    <3> DEFINE key == server.validator[4]
    <3>1. key = KeyAsked
      BY <2>2, <2>5, <2>7, Zenon
    <3>2. /\ Blank(env.PrivateKey) <=> ~ Blank(env.PrivateKeyFile)
          /\ Blank(env.PrivateKey) => file # <<>> /\ ~ Blank(file[1])
      BY <2>1, <2>7, Zenon DEF IntrospectionRules
    <3>3. env.PrivateKey \in Strings
      BY <2>1, EnvironmentTypes, Zenon
    <3>4. file # <<>> => file[1] \in Strings
      BY <2>1, AtMostOne DEF EnvInv
    <3>5. \A s \in Strings : TrimSpace(s).word = s.word /\ "spaces" \notin TrimSpace(s).form
      BY Trimmed, Zenon
    <3> HIDE DEF key
    <3>6. /\ ~ Blank(key) /\ "spaces" \notin key.form
          /\ key.word = IF Blank(env.PrivateKeyFile) THEN env.PrivateKey.word
                        ELSE file[1].word
      <4>1. CASE Blank(env.PrivateKeyFile)
        <5>1. key = TrimSpace(env.PrivateKey) /\ ~ Blank(env.PrivateKey)
          BY <3>1, <3>2, <4>1, Zenon DEF KeyAsked
        <5> QED
          BY <3>3, <3>5, <4>1, <5>1, Zenon DEF Blank
      <4>2. CASE ~ Blank(env.PrivateKeyFile)
        <5>1. key = TrimSpace(file[1]) /\ ~ Blank(file[1]) /\ file # <<>>
          BY <3>1, <3>2, <4>2, Zenon DEF KeyAsked
        <5> QED
          BY <3>4, <3>5, <4>2, <5>1, Zenon DEF Blank
      <4> QED
        BY <4>1, <4>2, Zenon
    <3> QED
      BY <3>2, <3>6, Zenon DEF key
  <2>8. /\ server.policy.rolesMatch = "all" <=> env.RoleMatchMode.word = "all"
        /\ server.policy.scopesMatch = "all" <=> env.ScopeMatchMode.word = "all"
    <3>1. /\ buildAuthorizationPolicy.rolesMatch = "all"
               <=> cfg.RoleMatchMode = Exact("all")
          /\ buildAuthorizationPolicy.scopesMatch = "all"
               <=> cfg.ScopeMatchMode = Exact("all")
      BY DEF buildAuthorizationPolicy
    <3>2. /\ env.RoleMatchMode \in Strings /\ env.ScopeMatchMode \in Strings
          /\ env.RoleMatchMode.word \in {"", "any", "all"}
          /\ env.ScopeMatchMode.word \in {"", "any", "all"}
      BY <2>1, EnvironmentTypes, Zenon DEF MatchModeRules
    <3>3. /\ cfg.RoleMatchMode = Exact("all") <=> env.RoleMatchMode.word = "all"
          /\ cfg.ScopeMatchMode = Exact("all") <=> env.ScopeMatchMode.word = "all"
      BY <2>2, <3>2, ModeAsked, Zenon
    <3> QED
      BY <2>2, <3>1, <3>3, Zenon
  <2> QED
    BY <2>6, <2>7, <2>8, Zenon DEF ServedAsSpelled
<1> QED
  BY Invariance, <1>1, PTL

\* The value of nist.MaxBits.
BitsOfTheProgram == 100000000

\* Validate leaves nothing for a consumer to reject or to guess, and a limit
\* nobody chose takes the largest bitstream the suite accepts, as long as that
\* is at most the 100 million bits of run_all.go:27 (main.go:112-131, 309-334).
THEOREM NothingIsGuessed ==
  ASSUME MaxBits <= BitsOfTheProgram
  PROVE  Spec => []NothingLeftToGuess
<1>1. IInv => NothingLeftToGuess
  <2> SUFFICES ASSUME IInv PROVE NothingLeftToGuess
    OBVIOUS
  <2>1. /\ pc # "failedSetting" /\ server.level # "fallback"
        /\ pc = "serving" =>
             /\ server.recv = cfg.MaxRecv /\ server.send = cfg.MaxSend
             /\ server.tls[1] # "plain" <=> Set(env.TLSEnabled)
    BY Zenon DEF IInv, ServerInv
  <2>2. MaxBits \div 8 + 64 <= defaultGRPCMaxMessageSize
    <3>1. MaxBits \in Nat
      BY ConfigAssumption, Zenon
    <3> QED
      BY <3>1, SMT DEF defaultGRPCMaxMessageSize, BitsOfTheProgram
  <2> DEFINE Unchosen == {<<>>, <<0>>}
  <2>3. ASSUME pc = "serving", env.MaxRecv \in Unchosen
        PROVE  server.recv >= MaxBits \div 8 + 64
    <3>1. env.MaxRecv \in Optional(Int)
      BY EnvironmentTypes DEF IInv
    <3>2. cfg.MaxRecv = defaultGRPCMaxMessageSize
      <4>1. SizeOrDefault(getEnvValue(env.MaxRecv, defaultGRPCMaxMessageSize))
              = defaultGRPCMaxMessageSize
        BY <2>3, <3>1, SizeRule, Zenon
      <4> QED
        BY <2>3, <4>1, ServedFields, Zenon DEF GivenSize
    <3> QED
      BY <2>1, <2>2, <2>3, <3>2, Zenon
  <2> QED
    BY <2>1, <2>3, Zenon DEF NothingLeftToGuess
<1> QED
  BY Invariance, <1>1, PTL
\* Load normalizes a list and Validate does so again: the second time keeps
\* every name.
LEMMA NormalizedTwice ==
  ASSUME NEW values \in Seq(Strings)
  PROVE  Keeps(normalizeCSVValues(normalizeCSVValues(values)), values, Len(values))
<1> DEFINE once == normalizeCSVValues(values)
           twice == normalizeCSVValues(once)
           N == Named(values, Len(values))
<1>1. /\ once \in Seq(Strings)
      /\ Values(once) = {TrimSpace(values[i]) : i \in N}
      /\ \A x : Cardinality(Places(once, x))
                  = Cardinality(NamedAs(values, Len(values), x))
  BY NormalizeKeeps, Zenon DEF Keeps
<1> HIDE DEF once
<1>2. /\ twice \in Seq(Strings)
      /\ Values(twice) = {TrimSpace(once[i]) : i \in Named(once, Len(once))}
      /\ \A x : Cardinality(Places(twice, x))
                  = Cardinality(NamedAs(once, Len(once), x))
  BY <1>1, NormalizeKeeps, Zenon DEF Keeps
<1>3. DOMAIN once = 1..Len(once) /\ Len(once) \in Nat
  BY <1>1
<1>4. ASSUME NEW i \in 1..Len(once) PROVE ~ Blank(once[i]) /\ TrimSpace(once[i]) = once[i]
  <2>1. once[i] \in Values(once)
    BY <1>3 DEF Values
  <2>2. PICK j \in N : once[i] = TrimSpace(values[j])
    BY <1>1, <2>1, Zenon
  <2>3. values[j] \in Strings /\ ~ Blank(values[j])
    BY DEF Named
  <2>4. TrimSpace(values[j]).word = values[j].word
        /\ TrimSpace(TrimSpace(values[j])) = TrimSpace(values[j])
    BY <2>3, Trimmed, Zenon
  <2> QED
    BY <2>2, <2>3, <2>4, Zenon DEF Blank
<1>5. Named(once, Len(once)) = 1..Len(once)
  BY <1>4 DEF Named
<1>6. Values(twice) = Values(once)
  <2>1. {TrimSpace(once[i]) : i \in 1..Len(once)} = {once[i] : i \in 1..Len(once)}
    BY <1>4
  <2> QED
    BY <1>2, <1>3, <1>5, <2>1, Zenon DEF Values
<1>7. ASSUME NEW x PROVE NamedAs(once, Len(once), x) = Places(once, x)
  BY <1>3, <1>4, <1>5, Zenon DEF NamedAs, Places
<1> QED
  BY <1>1, <1>2, <1>6, <1>7, Zenon DEF Keeps, once

\* The roles and scopes that are required are the non-blank entries of the
\* lists, without their spaces, each as many times as it is listed, and no other
\* (config.go:320-343, applied by Load and again by Validate).
THEOREM RequiredAreTheListed == Spec => []RequiredAsListed
<1>1. ASSUME NEW listed \in Seq(Strings)
      PROVE  KeptAsListed(normalizeCSVValues(normalizeCSVValues(listed)), listed)
  <2> DEFINE kept == normalizeCSVValues(normalizeCSVValues(listed))
             N == {j \in DOMAIN listed : ~ Blank(listed[j])}
  <2>1. N = Named(listed, Len(listed))
    <3>1. DOMAIN listed = 1..Len(listed)
      BY LenProperties, Zenon
    <3> QED
      BY <3>1, Zenon DEF Named
  <2>2. Keeps(kept, listed, Len(listed))
    BY NormalizedTwice, Zenon
  <2> HIDE DEF kept, N
  <2>3. ASSUME NEW s
        PROVE  Cardinality({i \in DOMAIN kept : kept[i] = s})
                 = Cardinality({j \in N : TrimSpace(listed[j]) = s})
    <3>1. Cardinality(Places(kept, s)) = Cardinality(NamedAs(listed, Len(listed), s))
      BY <2>2, Zenon DEF Keeps
    <3> QED
      BY <2>1, <3>1, Zenon DEF Places, NamedAs
  <2> QED
    BY <2>3, Zenon DEF KeptAsListed, kept, N, TrimSpace
<1>2. IInv => RequiredAsListed
  <2> SUFFICES ASSUME IInv, pc = "serving", Set(env.Enabled) PROVE RequiredAsListed
    BY Zenon DEF RequiredAsListed
  <2>1. /\ server.policy = buildAuthorizationPolicy
        /\ cfg.RequiredRoles = normalizeCSVValues(normalizeCSVValues(env.RequiredRoles))
        /\ cfg.RequiredScopes = normalizeCSVValues(normalizeCSVValues(env.RequiredScopes))
    BY ServedFields, Zenon
  <2>2. env.RequiredRoles \in Seq(Strings) /\ env.RequiredScopes \in Seq(Strings)
    BY EnvironmentTypes, Zenon DEF IInv
  <2>3. buildAuthorizationPolicy["roles"] = cfg.RequiredRoles
        /\ buildAuthorizationPolicy["scopes"] = cfg.RequiredScopes
    BY DEF buildAuthorizationPolicy
  <2>4. KeptAsListed(server.policy["roles"], env.RequiredRoles)
        /\ KeptAsListed(server.policy["scopes"], env.RequiredScopes)
    BY <1>1, <2>1, <2>2, <2>3, Zenon
  <2> QED
    BY <2>4 DEF RequiredAsListed
<1> QED
  BY Invariance, <1>2, PTL

\* The numbers, the switches, and the texts and lists that Validate rewrites for
\* authentication and authorization keep their types until the consumers read
\* them, and a message size is never zero again once Validate has seen it.
THEOREM FieldsKeepTheirTypes == Spec => []TypeOK
<1>1. IInv => TypeOK
  <2> SUFFICES ASSUME IInv PROVE TypeOK
    OBVIOUS
  <2>1. EnvInv /\ RulesInv /\ ServerInv
    BY DEF IInv
  <2> DEFINE Fill == pc \in Validating \cup Accepted
  <2>2. ASSUME Fill
        PROVE  KeptFields /\ PortFields /\ SizeFields /\ AuthzFields /\ AuthFields
               /\ IntrospectionFields
    BY <2>2, Zenon DEF IInv, FieldsInv
  <2>3. "jwt" \in Words /\ "any" \in Words /\ "all" \in Words /\ "opaque" \in Words
        /\ "client_secret_basic" \in Words /\ "private_key_jwt" \in Words
    BY ConfigAssumption DEF Literals
  <2>4. \A w \in Words : Exact(w) \in Strings
    BY ExactString, Zenon
  <2>5. \A s \in Strings : \A d \in Words : getEnvString(s, d) \in Strings
    BY WithDefault, Zenon
  <2>6. ASSUME Fill PROVE cfg.Port \in Int /\ cfg.MetricsPort \in Int
    <3>1. cfg.Port = getEnvValue(env.Port, 9090)
          /\ cfg.MetricsPort = getEnvValue(env.MetricsPort, 9091)
      BY <2>2, <2>6 DEF PortFields
    <3>2. 9090 \in Ports /\ 9091 \in Ports
      BY DEF Ports
    <3> QED
      BY <2>1, <3>1, <3>2, EnvironmentTypes, PortRule, SMT
  <2>7. ASSUME Fill
        PROVE  /\ cfg.MaxRecv \in Int /\ cfg.MaxSend \in Int
               /\ pc # "sizes" => cfg.MaxRecv > 0 /\ cfg.MaxSend > 0
    <3> DEFINE r == GivenSize(env.MaxRecv)
               s == GivenSize(env.MaxSend)
    <3>1. /\ r \in Int /\ SizeOrDefault(r) \in Int
          /\ env.MaxRecv = <<>> \/ env.MaxRecv[1] >= 0 => SizeOrDefault(r) > 0
      BY <2>1, EnvironmentTypes, SizeRule, Zenon DEF GivenSize
    <3>2. /\ s \in Int /\ SizeOrDefault(s) \in Int
          /\ env.MaxSend = <<>> \/ env.MaxSend[1] >= 0 => SizeOrDefault(s) > 0
      BY <2>1, EnvironmentTypes, SizeRule, Zenon DEF GivenSize
    <3> HIDE DEF r, s
    <3>3. /\ cfg.MaxRecv = IF pc \in PastSizes THEN SizeOrDefault(r) ELSE r
          /\ cfg.MaxSend = IF pc \in PastSizes THEN SizeOrDefault(s) ELSE s
      BY <2>2, <2>7, Zenon DEF SizeFields, r, s
    <3>4. pc # "sizes" => pc \in PastSizes
      BY <2>7
    <3>5. pc \in PastSizes => /\ env.MaxRecv = <<>> \/ env.MaxRecv[1] >= 0
                              /\ env.MaxSend = <<>> \/ env.MaxSend[1] >= 0
      BY <2>1, Zenon DEF RulesInv, ListeningRules
    <3> QED
      BY <3>1, <3>2, <3>3, <3>4, <3>5, Zenon
  <2>8. ASSUME Fill PROVE cfg.TLSEnabled \in BOOLEAN /\ cfg.Enabled \in BOOLEAN
    <3>1. /\ cfg.TLSEnabled = getEnvValue(env.TLSEnabled, FALSE)
          /\ cfg.Enabled = getEnvValue(env.Enabled, FALSE)
      BY <2>2, <2>8, Zenon DEF KeptFields
    <3> QED
      BY <2>1, <3>1, EnvironmentTypes, SwitchRule, Zenon
  <2>9. ASSUME Fill PROVE cfg.TokenType \in Strings
    <3>1. GivenType \in Strings
      BY <2>1, <2>3, <2>5, EnvironmentTypes, Zenon DEF GivenType
    <3>2. Exact(IF AsksOpaque THEN "opaque" ELSE "jwt") \in Strings
      BY <2>3, <2>4, Zenon
    <3> QED
      BY <2>2, <2>9, <3>1, <3>2, Zenon DEF AuthFields
  <2>10. ASSUME Fill PROVE cfg.AuthMethod \in Strings
    <3>1. GivenMethod \in Strings
      BY <2>1, <2>3, <2>5, EnvironmentTypes, Zenon DEF GivenMethod
    <3>2. Exact(IF AsksPrivateKey THEN "private_key_jwt" ELSE "client_secret_basic")
             \in Strings
      BY <2>3, <2>4, Zenon
    <3> QED
      BY <2>2, <2>10, <3>1, <3>2, Zenon DEF IntrospectionFields
  <2>11. ASSUME Fill
         PROVE  cfg.PrivateKey \in Strings /\ cfg.PrivateKeyFile \in Strings
                /\ cfg.Algorithm \in Strings
    <3>1. env.PrivateKey \in Strings /\ env.PrivateKeyFile \in Strings
          /\ env.Algorithm \in Strings
      BY <2>1, EnvironmentTypes, Zenon
    <3>2. \A s \in Strings : TrimSpace(s) \in Strings
      BY Trimmed, Zenon
    <3>3. Exact(env.Algorithm.word) \in Strings
      <4>1. env.Algorithm.word \in Words
        BY <3>1, StringOf
      <4> QED
        BY <2>4, <4>1, Zenon
    <3>4. ASSUME pc \in PastIntrospection, AsksPrivateKey PROVE KeyAsked \in Strings
      <4>1. /\ Blank(env.PrivateKey) <=> ~ Blank(env.PrivateKeyFile)
            /\ Blank(env.PrivateKey) => file # <<>>
        BY <2>1, <3>4, Zenon DEF RulesInv, IntrospectionRules
      <4>2. file # <<>> => file[1] \in Strings
        BY <2>1, AtMostOne DEF EnvInv
      <4> QED
        BY <3>1, <3>2, <4>1, <4>2, Zenon DEF KeyAsked
    <3> QED
      BY <2>2, <2>11, <3>1, <3>2, <3>3, <3>4, Zenon DEF IntrospectionFields
  <2>12. ASSUME Fill
         PROVE  cfg.RoleMatchMode \in Strings /\ cfg.ScopeMatchMode \in Strings
    <3>1. env.RoleMatchMode \in Strings /\ env.ScopeMatchMode \in Strings
      BY <2>1, EnvironmentTypes, Zenon
    <3>2. \A s \in Strings : GivenMode(s) \in Strings
      BY <2>3, <2>5, Zenon DEF GivenMode
    <3>3. pc \in PastAuthz => /\ env.RoleMatchMode.word \in {"", "any", "all"}
                              /\ env.ScopeMatchMode.word \in {"", "any", "all"}
      BY <2>1, Zenon DEF RulesInv, MatchModeRules
    <3>4. \A s \in Strings : s.word \in {"", "any", "all"} =>
                               NormalMode(GivenMode(s)) \in Strings
      BY ModeAsked, Zenon
    <3> QED
      BY <2>2, <2>12, <3>1, <3>2, <3>3, <3>4, Zenon DEF AuthzFields
  <2>13. ASSUME Fill
         PROVE  cfg.RequiredRoles \in Seq(Strings) /\ cfg.RequiredScopes \in Seq(Strings)
    <3>1. env.RequiredRoles \in Seq(Strings) /\ env.RequiredScopes \in Seq(Strings)
      BY <2>1, EnvironmentTypes, Zenon
    <3>2. \A v \in Seq(Strings) : normalizeCSVValues(v) \in Seq(Strings)
      BY NormalizeKeeps, Zenon DEF Keeps
    <3> QED
      BY <2>2, <2>13, <3>1, <3>2, Zenon DEF AuthzFields
  <2>14. server.recv \in Nat /\ server.send \in Nat
    BY <2>1, Zenon DEF ServerInv
  <2>15. pc \in {"load", "rejected"} \cup Validating \cup Accepted
    BY <2>1, Zenon DEF RulesInv
  <2>16. ASSUME Fill
         PROVE  /\ {cfg.Port, cfg.MetricsPort, cfg.MaxRecv, cfg.MaxSend} \subseteq Int
                /\ {cfg.TLSEnabled, cfg.Enabled} \subseteq BOOLEAN
                /\ {cfg.TokenType, cfg.AuthMethod, cfg.PrivateKey, cfg.PrivateKeyFile,
                    cfg.Algorithm, cfg.RoleMatchMode, cfg.ScopeMatchMode} \subseteq Strings
                /\ {cfg.RequiredRoles, cfg.RequiredScopes} \subseteq Seq(Strings)
    <3>1. {cfg.Port, cfg.MetricsPort, cfg.MaxRecv, cfg.MaxSend} \subseteq Int
      BY <2>6, <2>7, <2>16, Zenon
    <3>2. {cfg.TLSEnabled, cfg.Enabled} \subseteq BOOLEAN
      BY <2>8, <2>16, Zenon
    <3>3. {cfg.TokenType, cfg.AuthMethod, cfg.PrivateKey, cfg.PrivateKeyFile,
           cfg.Algorithm, cfg.RoleMatchMode, cfg.ScopeMatchMode} \subseteq Strings
      BY <2>9, <2>10, <2>11, <2>12, <2>16, Zenon
    <3>4. {cfg.RequiredRoles, cfg.RequiredScopes} \subseteq Seq(Strings)
      BY <2>13, <2>16, Zenon
    <3> QED
      BY <3>1, <3>2, <3>3, <3>4, Zenon
  <2> HIDE DEF Fill
  <2> QED
    BY <2>7, <2>14, <2>15, <2>16, Zenon DEF TypeOK, Fill
<1> QED
  BY Invariance, <1>1, PTL
=============================================================================
