--------------------------- MODULE Admission_proofs ---------------------------
(***************************************************************************)
(* The names are unique and fit, for every alphabet, every organization    *)
(* and every set of namespaces and resources.  The argument is about       *)
(* positions: a segment never holds two dashes in a row and never starts   *)
(* with one, so the separator is the last two dashes of the first run of   *)
(* dashes longer than one.                                                 *)
(***************************************************************************)
EXTENDS Admission, TLAPS, SequenceTheorems

Chars == Alphanumeric \cup Dashes

\* What a joined segment and what follows a separator look like.
Segment(s) == s \in Seq(Chars) /\ Len(s) > 0 /\ s[1] \in Alphanumeric /\ Alternates(s)
Tail1(s) == s \in Seq(Chars) /\ Len(s) > 0 /\ s[1] \in Alphanumeric

-----------------------------------------------------------------------------
\* The characters of a join, by position.
LEMMA JoinAt ==
    ASSUME NEW s \in Seq(Chars), NEW t \in Seq(Chars)
    PROVE  /\ Join(s, t) \in Seq(Chars)
           /\ Len(Join(s, t)) = Len(s) + 2 + Len(t)
           /\ \A i \in 1 .. Len(s) : Join(s, t)[i] = s[i]
           /\ Join(s, t)[Len(s) + 1] = "-"
           /\ Join(s, t)[Len(s) + 2] = "-"
           /\ \A i \in 1 .. Len(t) : Join(s, t)[Len(s) + 2 + i] = t[i]
<1> DEFINE dd == <<"-", "-">>
<1> DEFINE sd == s \o dd
<1>1. "-" \in Chars
    BY DEF Chars, Dashes
<1>2. dd \in Seq(Chars)
    BY <1>1
<1>3. Len(dd) = 2 /\ dd[1] = "-" /\ dd[2] = "-"
    OBVIOUS
<1> Len(s) \in Nat /\ Len(t) \in Nat
    BY LenProperties
<1> HIDE DEF dd
<1>4. /\ s \o dd \in Seq(Chars)
      /\ Len(s \o dd) = Len(s) + Len(dd)
      /\ \A i \in 1 .. Len(s) + Len(dd) :
            (s \o dd)[i] = IF i <= Len(s) THEN s[i] ELSE dd[i - Len(s)]
    BY <1>2, ConcatProperties
<1>5. sd \in Seq(Chars) /\ Len(sd) = Len(s) + 2
    BY <1>3, <1>4
<1>6. \A i \in 1 .. Len(s) : sd[i] = s[i]
    BY <1>3, <1>4
<1>7. sd[Len(s) + 1] = "-" /\ sd[Len(s) + 2] = "-"
    BY <1>3, <1>4
<1> HIDE DEF sd
<1>8. /\ sd \o t \in Seq(Chars)
      /\ Len(sd \o t) = Len(sd) + Len(t)
      /\ \A i \in 1 .. Len(sd) + Len(t) :
            (sd \o t)[i] = IF i <= Len(sd) THEN sd[i] ELSE t[i - Len(sd)]
    BY <1>5, ConcatProperties
<1>9. Join(s, t) = sd \o t
    BY DEF Join, sd, dd
<1>10. Len(Join(s, t)) = Len(s) + 2 + Len(t)
    BY <1>5, <1>8, <1>9
<1>11. \A i \in 1 .. Len(s) : Join(s, t)[i] = s[i]
    BY <1>5, <1>6, <1>8, <1>9
<1>12. Join(s, t)[Len(s) + 1] = "-" /\ Join(s, t)[Len(s) + 2] = "-"
    BY <1>5, <1>7, <1>8, <1>9
<1>13. \A i \in 1 .. Len(t) : Join(s, t)[Len(s) + 2 + i] = t[i]
    BY <1>5, <1>8, <1>9
<1> QED
    BY <1>8, <1>9, <1>10, <1>11, <1>12, <1>13

\* What one number below another leaves.
LEMMA Below ==
    ASSUME NEW m \in Nat, NEW n \in Nat, m < n
    PROVE  /\ m + 2 <= n \/ n = m + 1
           /\ m + 1 \in 1 .. n /\ (m + 1) + 1 = m + 2
           /\ m + 2 <= n => m + 1 # n
OBVIOUS

\* The first segment of a join is no shorter than that of an equal join.
LEMMA SplitBound ==
    ASSUME NEW a, Segment(a), NEW c, Segment(c), NEW s, Tail1(s), NEW t, Tail1(t),
           Join(a, s) = Join(c, t)
    PROVE  ~(Len(a) < Len(c))
<1> SUFFICES ASSUME Len(a) < Len(c) PROVE FALSE
    OBVIOUS
<1>1. a \in Seq(Chars) /\ c \in Seq(Chars) /\ s \in Seq(Chars) /\ t \in Seq(Chars)
    BY DEF Segment, Tail1
<1>2. Len(a) \in Nat /\ Len(c) \in Nat /\ Len(s) \in Nat /\ DOMAIN c = 1 .. Len(c)
    BY <1>1, LenProperties
<1>3. /\ Join(a, s)[Len(a) + 1] = "-"
      /\ Join(a, s)[Len(a) + 2] = "-"
      /\ \A i \in 1 .. Len(s) : Join(a, s)[Len(a) + 2 + i] = s[i]
    BY <1>1, JoinAt
<1>4. /\ \A i \in 1 .. Len(c) : Join(c, t)[i] = c[i]
      /\ Join(c, t)[Len(c) + 2] = "-"
    BY <1>1, JoinAt
<1>5. Join(a, s)[Len(a) + 2 + 1] = s[1] /\ s[1] \in Alphanumeric
    <2>1. Len(s) > 0 /\ s[1] \in Alphanumeric
        BY DEF Tail1
    <2>2. 1 \in 1 .. Len(s)
        BY <1>1, <2>1, LenProperties
    <2> QED
        BY <1>3, <2>1, <2>2
<1>6. CASE Len(a) + 2 <= Len(c)
    <2>1. Len(a) + 1 \in 1 .. Len(c) /\ Len(a) + 2 \in 1 .. Len(c)
        BY <1>2, <1>6
    <2>2. Join(c, t)[Len(a) + 1] = "-" /\ Join(c, t)[Len(a) + 2] = "-"
        BY <1>3
    <2>3. c[Len(a) + 1] = "-" /\ c[Len(a) + 2] = "-"
        BY <1>4, <2>1, <2>2
    <2>4. Len(a) + 1 \in DOMAIN c \ {Len(c)} /\ (Len(a) + 1) + 1 = Len(a) + 2
        <3>1. Len(a) + 1 # Len(c) /\ (Len(a) + 1) + 1 = Len(a) + 2
            BY <1>2, <1>6, Below
        <3> QED
            BY <1>2, <2>1, <3>1
    <2>5. ~({c[Len(a) + 1], c[Len(a) + 2]} \subseteq Dashes)
        BY <2>4 DEF Segment, Alternates
    <2> QED
        BY <2>3, <2>5 DEF Dashes
<1>7. CASE Len(c) = Len(a) + 1
    <2>1. Len(a) + 2 + 1 = Len(c) + 2
        BY <1>2, <1>7
    <2>2. s[1] = "-"
        BY <1>4, <1>5, <2>1
    <2> QED
        BY <1>5, <2>2, NamingAssumption DEF Dashes
<1>8. Len(a) + 2 <= Len(c) \/ Len(c) = Len(a) + 1
    BY <1>2, Below
<1> QED
    BY <1>6, <1>7, <1>8

\* Equal joins have equal parts.
LEMMA SplitUnique ==
    ASSUME NEW a, Segment(a), NEW c, Segment(c), NEW s, Tail1(s), NEW t, Tail1(t),
           Join(a, s) = Join(c, t)
    PROVE  a = c /\ s = t
<1>0. a \in Seq(Chars) /\ c \in Seq(Chars) /\ s \in Seq(Chars) /\ t \in Seq(Chars)
    BY DEF Segment, Tail1
<1>1. Len(a) \in Nat /\ Len(c) \in Nat /\ Len(s) \in Nat /\ Len(t) \in Nat
    BY <1>0, LenProperties
<1>2. Len(a) = Len(c)
    <2>1. ~(Len(a) < Len(c))
        BY SplitBound
    <2>2. ~(Len(c) < Len(a))
        BY SplitBound
    <2> QED
        BY <1>1, <2>1, <2>2
<1>3. /\ Len(Join(a, s)) = Len(a) + 2 + Len(s)
      /\ \A i \in 1 .. Len(a) : Join(a, s)[i] = a[i]
      /\ \A i \in 1 .. Len(s) : Join(a, s)[Len(a) + 2 + i] = s[i]
    BY <1>0, JoinAt
<1>4. /\ Len(Join(c, t)) = Len(c) + 2 + Len(t)
      /\ \A i \in 1 .. Len(c) : Join(c, t)[i] = c[i]
      /\ \A i \in 1 .. Len(t) : Join(c, t)[Len(c) + 2 + i] = t[i]
    BY <1>0, JoinAt
<1>5. Len(s) = Len(t)
    BY <1>1, <1>2, <1>3, <1>4
<1>6. \A i \in 1 .. Len(a) : a[i] = c[i]
    BY <1>2, <1>3, <1>4
<1>7. \A i \in 1 .. Len(s) : s[i] = t[i]
    BY <1>2, <1>3, <1>4, <1>5
<1>8. a = c
    BY <1>0, <1>2, <1>6, SeqEqual
<1>9. s = t
    BY <1>0, <1>5, <1>7, SeqEqual
<1> QED
    BY <1>8, <1>9

-----------------------------------------------------------------------------
\* A function on an initial interval is a sequence.
LEMMA FunctionIsSeq ==
    ASSUME NEW n \in Nat, NEW f \in [1 .. n -> Chars]
    PROVE  f \in Seq(Chars) /\ Len(f) = n
<1>1. f \in Seq(Chars)
    BY SeqDef
<1>2. DOMAIN f = 1 .. n
    OBVIOUS
<1>3. Len(f) \in Nat /\ DOMAIN f = 1 .. Len(f)
    BY <1>1, LenProperties
<1> QED
    BY <1>1, <1>2, <1>3

\* A valid segment stays one when it is made safe, at the same length.
LEMMA SafeSegment ==
    ASSUME NEW s, ValidateSegment(s)
    PROVE  /\ Segment(ToSecretSafe(s))
           /\ Len(ToSecretSafe(s)) = Len(s) /\ Len(s) \in Nat
           /\ \A i \in 1 .. Len(s) : ToSecretSafe(s)[i] = IF s[i] = "_" THEN "-" ELSE s[i]
<1> DEFINE f == ToSecretSafe(s)
<1>1. s \in Seq(Chars) /\ s # <<>> /\ s[1] \in Alphanumeric /\ Alternates(s)
    BY DEF ValidateSegment, Name, Chars
<1>2. Len(s) \in Nat /\ Len(s) > 0 /\ DOMAIN s = 1 .. Len(s) /\ \A i \in 1 .. Len(s) : s[i] \in Chars
    BY <1>1, LenProperties, ElementOfSeq, EmptySeq
<1>3. f = [i \in 1 .. Len(s) |-> IF s[i] = "_" THEN "-" ELSE s[i]]
    BY <1>2 DEF ToSecretSafe
<1>4. \A i \in 1 .. Len(s) : f[i] = IF s[i] = "_" THEN "-" ELSE s[i]
    BY <1>3
<1>5. \A i \in 1 .. Len(s) : (IF s[i] = "_" THEN "-" ELSE s[i]) \in Chars
    BY <1>2 DEF Chars, Dashes
<1>6. f \in Seq(Chars) /\ Len(f) = Len(s)
    <2>1. f \in [1 .. Len(s) -> Chars]
        BY <1>3, <1>5
    <2> QED
        BY <1>2, <2>1, FunctionIsSeq
<1>7. f[1] \in Alphanumeric
    <2>1. s[1] # "_"
        BY <1>1, NamingAssumption DEF Dashes
    <2>2. 1 \in 1 .. Len(s)
        BY <1>2
    <2>3. f[1] = s[1]
        BY <1>4, <2>1, <2>2
    <2> QED
        BY <1>1, <2>3
<1>8. Alternates(f)
    <2> SUFFICES ASSUME NEW i \in DOMAIN f \ {Len(f)} PROVE ~({f[i], f[i + 1]} \subseteq Dashes)
        BY DEF Alternates
    <2>1. i \in 1 .. Len(s) /\ i + 1 \in 1 .. Len(s) /\ i \in DOMAIN s \ {Len(s)}
        BY <1>2, <1>6, LenProperties
    <2>2. ~({s[i], s[i + 1]} \subseteq Dashes)
        BY <1>1, <2>1 DEF Alternates
    <2>3. \A j \in {i, i + 1} : f[j] \in Dashes => s[j] \in Dashes
        BY <1>4, <2>1 DEF Dashes
    <2> QED
        BY <2>2, <2>3
<1> QED
    BY <1>2, <1>4, <1>6, <1>7, <1>8 DEF Segment

\* Making safe loses nothing where there was no underscore.
LEMMA SafeIsInjective ==
    ASSUME NEW s, ValidateSegment(s), Without(s, "_"),
           NEW t, ValidateSegment(t), Without(t, "_"),
           ToSecretSafe(s) = ToSecretSafe(t)
    PROVE  s = t
<1>1. s \in Seq(Chars) /\ t \in Seq(Chars)
    BY DEF ValidateSegment, Name, Chars
<1>2. Len(s) = Len(t) /\ Len(s) \in Nat
    BY SafeSegment
<1>3. \A i \in 1 .. Len(s) : s[i] # "_" /\ t[i] # "_"
    BY <1>1, <1>2, LenProperties DEF Without
<1>4. \A i \in 1 .. Len(s) : s[i] = t[i]
    <2> TAKE i \in 1 .. Len(s)
    <2>1. ToSecretSafe(s)[i] = s[i]
        BY <1>3, SafeSegment
    <2>2. ToSecretSafe(t)[i] = t[i]
        BY <1>2, <1>3, SafeSegment
    <2> QED
        BY <2>1, <2>2
<1> QED
    BY <1>1, <1>2, <1>4, SeqEqual

\* What follows the first separator starts with a letter or digit.
LEMMA JoinIsTail ==
    ASSUME NEW s, Segment(s), NEW t, Segment(t)
    PROVE  Tail1(Join(s, t)) /\ Len(Join(s, t)) = Len(s) + 2 + Len(t)
<1>1. s \in Seq(Chars) /\ t \in Seq(Chars) /\ Len(s) \in Nat /\ Len(t) \in Nat /\ Len(s) > 0
    BY LenProperties DEF Segment
<1>2. Join(s, t) \in Seq(Chars) /\ Len(Join(s, t)) = Len(s) + 2 + Len(t) /\ Join(s, t)[1] = s[1]
    BY <1>1, JoinAt
<1> QED
    BY <1>1, <1>2 DEF Segment, Tail1

\* Two identifiers "yk-a--b--c" with valid segments are equal only segment by segment.
LEMMA ThreeParts ==
    ASSUME NEW a, Segment(a), NEW b, Segment(b), NEW c, Segment(c),
           NEW x, Segment(x), NEW y, Segment(y), NEW z, Segment(z),
           Prefixed(Join(a, Join(b, c))) = Prefixed(Join(x, Join(y, z)))
    PROVE  a = x /\ b = y /\ c = z
<1> DEFINE pre == <<"y", "k", "-">>
<1> DEFINE u == Join(a, Join(b, c))
<1> DEFINE v == Join(x, Join(y, z))
<1>1. pre \in Seq(Chars)
    <2>1. "y" \in Chars /\ "k" \in Chars /\ "-" \in Chars
        BY NamingAssumption DEF Chars, Dashes
    <2> QED
        BY <2>1
<1>2. Tail1(Join(b, c)) /\ Tail1(Join(y, z))
    BY JoinIsTail
<1>3. u \in Seq(Chars) /\ v \in Seq(Chars)
    BY <1>2, JoinAt DEF Segment, Tail1
<1>4. pre \o u = pre \o v
    BY DEF Prefixed
<1> HIDE DEF pre, u, v
<1>5. u = v
    BY <1>1, <1>3, <1>4, ConcatSimplifications
<1>6. a = x /\ Join(b, c) = Join(y, z)
    BY <1>2, <1>5, SplitUnique DEF u, v
<1>7. Tail1(c) /\ Tail1(z)
    BY DEF Segment, Tail1
<1>8. b = y /\ c = z
    BY <1>6, <1>7, SplitUnique
<1> QED
    BY <1>6, <1>8

\* Identifiers are as long as their parts.
LEMMA IdentifierLen ==
    ASSUME NEW org, ValidateSegment(org), NEW n, ValidateSegment(n), NEW m, ValidateSegment(m)
    PROVE  Len(TenantIdentifier(org, n, m)) = 7 + Len(org) + Len(n) + Len(m)
<1> DEFINE pre == <<"y", "k", "-">>
<1> DEFINE so == ToSecretSafe(org)
<1> DEFINE sn == ToSecretSafe(n)
<1> DEFINE sm == ToSecretSafe(m)
<1>1. /\ Segment(so) /\ Segment(sn) /\ Segment(sm)
      /\ Len(so) = Len(org) /\ Len(sn) = Len(n) /\ Len(sm) = Len(m)
      /\ Len(org) \in Nat /\ Len(n) \in Nat /\ Len(m) \in Nat
    BY SafeSegment
<1> HIDE DEF so, sn, sm
<1>2. Tail1(Join(sn, sm)) /\ Len(Join(sn, sm)) = Len(n) + 2 + Len(m)
    BY <1>1, JoinIsTail
<1>3. /\ Join(so, Join(sn, sm)) \in Seq(Chars)
      /\ Len(Join(so, Join(sn, sm))) = Len(org) + 2 + (Len(n) + 2 + Len(m))
    <2> DEFINE t == Join(sn, sm)
    <2>1. so \in Seq(Chars) /\ Len(so) = Len(org)
        BY <1>1 DEF Segment
    <2>2. t \in Seq(Chars) /\ Len(t) = Len(n) + 2 + Len(m)
        BY <1>2 DEF Tail1
    <2> HIDE DEF t
    <2>3. Join(so, t) \in Seq(Chars) /\ Len(Join(so, t)) = Len(so) + 2 + Len(t)
        BY <2>1, <2>2, JoinAt
    <2>4. Join(so, t) \in Seq(Chars) /\ Len(Join(so, t)) = Len(org) + 2 + (Len(n) + 2 + Len(m))
        BY <2>1, <2>2, <2>3
    <2> QED
        BY <2>4 DEF t
<1>4. pre \in Seq(Chars) /\ Len(pre) = 3
    <2>1. "y" \in Chars /\ "k" \in Chars /\ "-" \in Chars
        BY NamingAssumption DEF Chars, Dashes
    <2>2. Len(pre) = 3
        OBVIOUS
    <2> QED
        BY <2>1, <2>2
<1> HIDE DEF pre
<1>5. Len(pre \o Join(so, Join(sn, sm))) = Len(pre) + Len(Join(so, Join(sn, sm)))
    BY <1>3, <1>4, ConcatProperties
<1>6. Len(pre \o Join(so, Join(sn, sm))) = 7 + Len(org) + Len(n) + Len(m)
    BY <1>1, <1>3, <1>4, <1>5
<1> QED
    BY <1>6 DEF TenantIdentifier, Prefixed, pre, so, sn, sm

-----------------------------------------------------------------------------
\* One character is a sequence.
LEMMA Single ==
    ASSUME NEW c \in Chars
    PROVE  <<c>> \in Seq(Chars) /\ Len(<<c>>) = 1
OBVIOUS

\* The characters of a resolved name, by position.
LEMMA ResolvedAt ==
    ASSUME NEW m, NameRule(m), NEW n \in Namespaces
    PROVE  /\ Len(ResolveName(m, n)) = Len(m) + 1 + SuffixLen
           /\ \A i \in 1 .. Len(m) : ResolveName(m, n)[i] = IF m[i] = "-" THEN "_" ELSE m[i]
           /\ \A i \in 1 .. SuffixLen : ResolveName(m, n)[Len(m) + 1 + i] = Suffix[n][i]
           /\ Suffix[n] \in Seq(Chars) /\ Len(Suffix[n]) = SuffixLen /\ SuffixLen \in Nat
           /\ m \in Seq(Chars) /\ Len(m) \in Nat
<1> DEFINE tr == [i \in DOMAIN m |-> IF m[i] = "-" THEN "_" ELSE m[i]]
<1> DEFINE one == <<"_">>
<1> DEFINE tu == tr \o one
<1>1. m \in Seq(Chars)
    BY DEF NameRule, Name, Chars
<1>2. Len(m) \in Nat /\ DOMAIN m = 1 .. Len(m) /\ \A i \in 1 .. Len(m) : m[i] \in Chars
    BY <1>1, LenProperties, ElementOfSeq
<1>3. tr \in Seq(Chars) /\ Len(tr) = Len(m)
    <2>1. \A i \in 1 .. Len(m) : (IF m[i] = "-" THEN "_" ELSE m[i]) \in Chars
        BY <1>2 DEF Chars, Dashes
    <2>2. tr \in [1 .. Len(m) -> Chars]
        BY <1>2, <2>1
    <2> HIDE DEF tr
    <2> QED
        BY <1>2, <2>2, FunctionIsSeq
<1>4. \A i \in 1 .. Len(m) : tr[i] = IF m[i] = "-" THEN "_" ELSE m[i]
    BY <1>2
<1> HIDE DEF tr
<1>5. one \in Seq(Chars) /\ Len(one) = 1
    <2>1. "_" \in Chars
        BY DEF Chars, Dashes
    <2> QED
        BY <2>1, Single
<1> HIDE DEF one
<1>6. /\ tr \o one \in Seq(Chars)
      /\ Len(tr \o one) = Len(tr) + Len(one)
      /\ \A i \in 1 .. Len(tr) + Len(one) :
            (tr \o one)[i] = IF i <= Len(tr) THEN tr[i] ELSE one[i - Len(tr)]
    BY <1>3, <1>5, ConcatProperties
<1>7. /\ tu \in Seq(Chars) /\ Len(tu) = Len(m) + 1
      /\ \A i \in 1 .. Len(m) : tu[i] = tr[i]
    BY <1>2, <1>3, <1>5, <1>6
<1> HIDE DEF tu
<1>8. Suffix[n] \in Seq(Alphanumeric) /\ Len(Suffix[n]) = SuffixLen
    BY NamespaceAssumption
<1>9. Suffix[n] \in Seq(Chars) /\ SuffixLen \in Nat
    BY <1>8, SeqMonotonic, NamingAssumption DEF Chars
<1>10. /\ Len(tu \o Suffix[n]) = Len(tu) + Len(Suffix[n])
       /\ \A i \in 1 .. Len(tu) + Len(Suffix[n]) :
             (tu \o Suffix[n])[i] = IF i <= Len(tu) THEN tu[i] ELSE Suffix[n][i - Len(tu)]
    BY <1>7, <1>9, ConcatProperties
<1>11. ResolveName(m, n) = tu \o Suffix[n]
    BY DEF ResolveName, tu, tr, one
<1>12. Len(ResolveName(m, n)) = Len(m) + 1 + SuffixLen
    BY <1>7, <1>8, <1>10, <1>11
<1>13. \A i \in 1 .. Len(m) : ResolveName(m, n)[i] = IF m[i] = "-" THEN "_" ELSE m[i]
    <2>1. \A i \in 1 .. Len(m) : (tu \o Suffix[n])[i] = tu[i]
        BY <1>2, <1>7, <1>8, <1>9, <1>10
    <2> QED
        BY <1>4, <1>7, <1>11, <2>1
<1>14. \A i \in 1 .. SuffixLen : ResolveName(m, n)[Len(m) + 1 + i] = Suffix[n][i]
    BY <1>2, <1>7, <1>8, <1>9, <1>10, <1>11
<1> QED
    BY <1>1, <1>2, <1>8, <1>9, <1>12, <1>13, <1>14

\* Resolved names are equal only for equal names in namespaces with equal suffixes.
LEMMA ResolvedUnique ==
    ASSUME NEW m, NameRule(m), NEW n \in Namespaces,
           NEW k, NameRule(k), NEW p \in Namespaces,
           ResolveName(m, n) = ResolveName(k, p)
    PROVE  m = k /\ Suffix[n] = Suffix[p]
<1>1. /\ Len(ResolveName(m, n)) = Len(m) + 1 + SuffixLen
      /\ \A i \in 1 .. Len(m) : ResolveName(m, n)[i] = IF m[i] = "-" THEN "_" ELSE m[i]
      /\ \A i \in 1 .. SuffixLen : ResolveName(m, n)[Len(m) + 1 + i] = Suffix[n][i]
      /\ Suffix[n] \in Seq(Chars) /\ Len(Suffix[n]) = SuffixLen /\ SuffixLen \in Nat
      /\ m \in Seq(Chars) /\ Len(m) \in Nat
    BY ResolvedAt
<1>2. /\ Len(ResolveName(k, p)) = Len(k) + 1 + SuffixLen
      /\ \A i \in 1 .. Len(k) : ResolveName(k, p)[i] = IF k[i] = "-" THEN "_" ELSE k[i]
      /\ \A i \in 1 .. SuffixLen : ResolveName(k, p)[Len(k) + 1 + i] = Suffix[p][i]
      /\ Suffix[p] \in Seq(Chars) /\ Len(Suffix[p]) = SuffixLen
      /\ k \in Seq(Chars) /\ Len(k) \in Nat
    BY ResolvedAt
<1>3. Len(m) = Len(k)
    <2>1. Len(m) + 1 + SuffixLen = Len(k) + 1 + SuffixLen
        BY <1>1, <1>2
    <2>2. Len(m) \in Nat /\ Len(k) \in Nat /\ SuffixLen \in Nat
        BY <1>1, <1>2
    <2> QED
        BY <2>1, <2>2
<1>4. \A i \in 1 .. Len(m) : m[i] # "_" /\ k[i] # "_"
    <2>1. DOMAIN m = 1 .. Len(m) /\ DOMAIN k = 1 .. Len(m)
        BY <1>1, <1>2, <1>3, LenProperties
    <2> QED
        BY <2>1 DEF NameRule, Without
<1>5. \A i \in 1 .. Len(m) : m[i] = k[i]
    <2> TAKE i \in 1 .. Len(m)
    <2>1. (IF m[i] = "-" THEN "_" ELSE m[i]) = (IF k[i] = "-" THEN "_" ELSE k[i])
        BY <1>1, <1>2, <1>3
    <2> QED
        BY <1>4, <2>1
<1>6. \A i \in 1 .. SuffixLen : Suffix[n][i] = Suffix[p][i]
    BY <1>1, <1>2, <1>3
<1>7. m = k
    <2>1. m \in Seq(Chars) /\ k \in Seq(Chars)
        BY <1>1, <1>2
    <2> QED
        BY <1>3, <1>5, <2>1, SeqEqual
<1>8. Suffix[n] = Suffix[p]
    <2>1. Suffix[n] \in Seq(Chars) /\ Suffix[p] \in Seq(Chars)
        BY <1>1, <1>2
    <2>2. Len(Suffix[n]) = SuffixLen /\ Len(Suffix[p]) = SuffixLen
        BY <1>1, <1>2
    <2> QED
        BY <1>6, <2>1, <2>2, SeqEqual
<1> QED
    BY <1>7, <1>8

-----------------------------------------------------------------------------
\* What the checks before the first side effect leave: the types, valid segments for
\* whatever is stored and for a running process, and nothing refused for its length.
AdmissionInv ==
    /\ resources \in [Owners -> Outcomes]
    /\ \A o \in Stored : SegmentsValid(o)
    /\ process = "up" => OrgAdminSegmentsValid
    /\ IdentifiersFit

\* A name that fits its label fits its identifier: the three limits agree.
LEMMA FittingNameFits ==
    ASSUME NEW o \in Owners, SegmentsValid(o), NameFits(file.org, o[2], o[1])
    PROVE  CheckLen(Identifier(o))
<1>1. o[1] \in Namespaces /\ o[2] \in Names
    BY DEF Owners
<1>2. ValidateSegment(file.org) /\ ValidateSegment(o[1]) /\ ValidateSegment(o[2])
    BY DEF SegmentsValid
<1>3. Len(file.org) \in Nat /\ Len(o[1]) \in Nat /\ Len(o[2]) \in Nat
    BY <1>2, SafeSegment
<1>4. Len(Identifier(o)) = 7 + Len(file.org) + Len(o[1]) + Len(o[2])
    <2> DEFINE org == file.org
    <2> DEFINE n == o[1]
    <2> DEFINE m == o[2]
    <2> HIDE DEF org, n, m
    <2>1. ValidateSegment(org) /\ ValidateSegment(n) /\ ValidateSegment(m)
        BY <1>2 DEF org, n, m
    <2>2. Len(TenantIdentifier(org, n, m)) = 7 + Len(org) + Len(n) + Len(m)
        BY <2>1, IdentifierLen
    <2> QED
        BY <2>2 DEF Identifier, org, n, m
<1>5. Len(ResolveName(o[2], o[1])) = Len(o[2]) + 1 + SuffixLen
    BY <1>1, AdmissionAssumption, ResolvedAt
<1>6. Len(o[1]) <= NamespaceMax
    BY <1>1, NamespaceAssumption DEF NamespaceRule
<1>7. /\ MaxIdentifierLen \in Nat /\ MaxAccountLabelLen \in Nat
      /\ NamespaceMax \in Nat /\ SuffixLen \in Nat
    BY NamingAssumption
<1> DEFINE lo == Len(file.org)
<1> DEFINE ln == Len(o[1])
<1> DEFINE lm == Len(o[2])
<1> DEFINE lr == Len(ResolveName(o[2], o[1]))
<1> DEFINE li == Len(Identifier(o))
<1>8. lm + 1 + lo + (lr - lm) <= MaxAccountLabelLen
    BY DEF NameFits
<1>9. CheckLen(Identifier(o)) <=> li <= MaxIdentifierLen
    BY DEF CheckLen
<1>10. lo \in Nat /\ ln \in Nat /\ lm \in Nat /\ lr = lm + 1 + SuffixLen
       /\ li = 7 + lo + ln + lm /\ ln <= NamespaceMax
    BY <1>3, <1>4, <1>5, <1>6
<1> HIDE DEF lo, ln, lm, lr, li
<1> QED
    BY <1>7, <1>8, <1>9, <1>10, LimitsAssumption

\* The invariant holds initially and is preserved.
LEMMA AdmissionInductive == Spec => []AdmissionInv
<1>1. Init => AdmissionInv
    BY DEF Init, AdmissionInv, Outcomes, Stored, IdentifiersFit
<1>2. AdmissionInv /\ [Next]_vars => AdmissionInv'
    <2> SUFFICES ASSUME AdmissionInv, [Next]_vars PROVE AdmissionInv'
        OBVIOUS
    <2> USE DEF AdmissionInv, Stored, SegmentsValid, OrgAdminSegmentsValid, IdentifiersFit, Outcomes
    <2>1. CASE UNCHANGED vars
        BY <2>1 DEF vars
    <2>2. CASE Start
        BY <2>2 DEF Start, Starts
    <2>3. ASSUME NEW o \in Owners, CreateResource(o) PROVE AdmissionInv'
        BY <2>3 DEF CreateResource
    <2>4. ASSUME NEW o \in Owners, RemoveResource(o) PROVE AdmissionInv'
        BY <2>4 DEF RemoveResource
    <2>5. ASSUME NEW o \in Owners, NEW r \in Regions, NEW label \in Labels, Apply(o, r, label)
          PROVE  AdmissionInv'
        <3>1. PICK v \in {Verdict(o, r, label), "system error"} : resources' = [resources EXCEPT ![o] = v]
            BY <2>5 DEF Apply
        <3>2. UNCHANGED <<process, file, regions>>
            BY <2>5 DEF Apply
        <3>3. Verdict(o, r, label) \in {"user error", "system error", "too long", "stored"}
            BY DEF Verdict
        <3>4. Verdict(o, r, label) = "stored" => SegmentsValid(o)
            BY DEF Verdict
        <3>5. Verdict(o, r, label) # "too long"
            BY FittingNameFits DEF Verdict, CheckCreatable
        <3>6. v \in Outcomes /\ v # "too long" /\ (v = "stored" => SegmentsValid(o))
            BY <3>1, <3>3, <3>4, <3>5
        <3> HIDE DEF SegmentsValid
        <3>7. resources' \in [Owners -> Outcomes]
            BY <3>1, <3>6
        <3>8. \A p \in Owners : resources'[p] = IF p = o THEN v ELSE resources[p]
            BY <3>1
        <3>9. \A p \in Owners : SegmentsValid(p)' <=> SegmentsValid(p)
            BY <3>2 DEF SegmentsValid
        <3>10. (\A p \in Stored : SegmentsValid(p))'
            BY <3>6, <3>8, <3>9
        <3>11. (process = "up" => OrgAdminSegmentsValid)'
            BY <3>2
        <3>12. IdentifiersFit'
            BY <3>6, <3>8
        <3> QED
            BY <3>7, <3>10, <3>11, <3>12
    <2> QED
        BY <2>1, <2>2, <2>3, <2>4, <2>5 DEF Next
<1> QED
    BY <1>1, <1>2, PTL DEF Spec

\* The three parts of the uniqueness of names, from the invariant.
LEMMA UniqueNow ==
    ASSUME AdmissionInv
    PROVE  NamesAreUnique
<1>1. ASSUME NEW o \in Stored
      PROVE  /\ o \in Owners /\ o = <<o[1], o[2]>>
             /\ o[1] \in Namespaces /\ NameRule(o[2])
             /\ ValidateSegment(file.org) /\ ValidateSegment(o[1]) /\ ValidateSegment(o[2])
             /\ Without(o[1], "_") /\ Without(o[2], "_")
    <2>1. o \in Owners /\ o = <<o[1], o[2]>> /\ o[1] \in Namespaces /\ o[2] \in Names
        BY DEF Stored, Owners
    <2>2. ValidateSegment(file.org) /\ ValidateSegment(o[1]) /\ ValidateSegment(o[2])
        BY DEF AdmissionInv, SegmentsValid
    <2>3. NameRule(o[2]) /\ NamespaceRule(o[1])
        BY <2>1, AdmissionAssumption, NamespaceAssumption
    <2> QED
        BY <2>1, <2>2, <2>3 DEF NameRule, NamespaceRule
<1>2. ASSUME NEW o \in Stored, NEW p \in Stored, Identifier(o) = Identifier(p) PROVE o = p
    <2>1. /\ Segment(ToSecretSafe(file.org))
          /\ Segment(ToSecretSafe(o[1])) /\ Segment(ToSecretSafe(o[2]))
          /\ Segment(ToSecretSafe(p[1])) /\ Segment(ToSecretSafe(p[2]))
        BY <1>1, SafeSegment
    <2>2. ToSecretSafe(o[1]) = ToSecretSafe(p[1]) /\ ToSecretSafe(o[2]) = ToSecretSafe(p[2])
        BY <1>2, <2>1, ThreeParts DEF Identifier, TenantIdentifier
    <2>3. o[1] = p[1] /\ o[2] = p[2]
        BY <1>1, <2>2, SafeIsInjective
    <2> QED
        BY <1>1, <2>3
<1>3. ASSUME process = "up", file.org # <<"orgadmin">>, NEW o \in Stored, Identifier(o) = OrgAdmin
      PROVE  FALSE
    <2>1. ValidateSegment(file.org) /\ ValidateSegment(file.orgAdminAccount)
        BY <1>3 DEF AdmissionInv, OrgAdminSegmentsValid
    <2>2. Segment(<<"orgadmin">>)
        <3>1. "orgadmin" \in Alphanumeric /\ "orgadmin" \in Chars
            BY NamingAssumption DEF Chars
        <3>2. <<"orgadmin">> \in Seq(Chars) /\ Len(<<"orgadmin">>) = 1 /\ <<"orgadmin">>[1] = "orgadmin"
            BY <3>1
        <3>3. Alternates(<<"orgadmin">>)
            BY <3>2 DEF Alternates
        <3> QED
            BY <3>1, <3>2, <3>3 DEF Segment
    <2>3. /\ Segment(ToSecretSafe(file.org)) /\ Segment(ToSecretSafe(file.orgAdminAccount))
          /\ Segment(ToSecretSafe(o[1])) /\ Segment(ToSecretSafe(o[2]))
        BY <1>1, <2>1, SafeSegment
    <2>4. ToSecretSafe(file.org) = <<"orgadmin">>
        BY <1>3, <2>2, <2>3, ThreeParts
        DEF Identifier, TenantIdentifier, OrgAdmin, OrgAdminIdentifier
    <2>5. file.org = <<"orgadmin">>
        <3> DEFINE w == <<"orgadmin">>
        <3>3. file.org \in Seq(Chars)
            BY <2>1 DEF ValidateSegment, Name, Chars
        <3>4. w \in Seq(Chars) /\ Len(w) = 1 /\ w[1] = "orgadmin"
            BY <2>2 DEF Segment
        <3> HIDE DEF w
        <3>5. /\ Len(ToSecretSafe(file.org)) = Len(file.org) /\ Len(file.org) \in Nat
              /\ \A i \in 1 .. Len(file.org) :
                    ToSecretSafe(file.org)[i] = IF file.org[i] = "_" THEN "-" ELSE file.org[i]
            BY <2>1, SafeSegment
        <3>6. ToSecretSafe(file.org) = w
            BY <2>4 DEF w
        <3>1. Len(file.org) = 1 /\ w[1] = IF file.org[1] = "_" THEN "-" ELSE file.org[1]
            <4>1. Len(w) = Len(file.org)
                BY <3>5, <3>6
            <4>2. 1 \in 1 .. Len(file.org)
                BY <3>4, <4>1
            <4>3. ToSecretSafe(file.org)[1] = IF file.org[1] = "_" THEN "-" ELSE file.org[1]
                BY <3>5, <4>2
            <4> QED
                BY <3>4, <3>6, <4>1, <4>3
        <3>2. file.org[1] = "orgadmin"
            BY <3>1, <3>4
        <3>7. \A i \in 1 .. Len(file.org) : file.org[i] = w[i]
            BY <3>1, <3>2, <3>4
        <3>8. file.org = w
            BY <3>1, <3>3, <3>4, <3>7, SeqEqual
        <3> QED
            BY <3>8 DEF w
    <2> QED
        BY <1>3, <2>5
<1>4. ASSUME NEW o \in Stored, NEW p \in Stored, Resolved(o) = Resolved(p)
      PROVE  o[2] = p[2] /\ Suffix[o[1]] = Suffix[p[1]]
    <2>1. NameRule(o[2]) /\ NameRule(p[2]) /\ o[1] \in Namespaces /\ p[1] \in Namespaces
        BY <1>1
    <2>2. ResolveName(o[2], o[1]) = ResolveName(p[2], p[1])
        BY <1>4 DEF Resolved
    <2> QED
        BY <2>1, <2>2, ResolvedUnique
<1> QED
    BY <1>2, <1>3, <1>4 DEF NamesAreUnique

-----------------------------------------------------------------------------
\* No two stored credentials share an identifier, whatever the organization, the
\* namespaces and the names: dashes in names never shift the boundary between segments
\* (identifier.go:36-43).  Outside an organization called orgadmin that includes the
\* platform's own, and account names coincide only where truncated hashes do.
THEOREM NamesStayUnique == Spec => []NamesAreUnique
<1>1. AdmissionInv => NamesAreUnique
    BY UniqueNow
<1> QED
    BY <1>1, AdmissionInductive, PTL

\* checkLen never refuses what checkCreatable let through (identifier.go:67-74), as long
\* as the three limits stay in proportion (LimitsAssumption).
THEOREM IdentifiersAlwaysFit == Spec => []IdentifiersFit
<1>1. AdmissionInv => IdentifiersFit
    BY DEF AdmissionInv
<1> QED
    BY <1>1, AdmissionInductive, PTL

-----------------------------------------------------------------------------
(* What startup has checked stays true, as the files are read once.        *)

\* While the process is up, its files are those it accepted.
LEMMA UpHasStarted == Spec => [](process = "up" => Starts)
<1>1. Init => (process = "up" => Starts)
  BY DEF Init
<1>2. ASSUME process = "up" => Starts, [Next]_vars PROVE (process = "up" => Starts)'
  <2>1. CASE UNCHANGED vars
    BY <1>2, <2>1 DEF vars, Starts, OrgAdminSegmentsValid, OrgAdmin
  <2>2. CASE Start
    BY <2>2 DEF Start, Starts, OrgAdminSegmentsValid, OrgAdmin
  <2>3. ASSUME NEW o \in Owners, CreateResource(o) \/ RemoveResource(o)
        PROVE  (process = "up" => Starts)'
    BY <1>2, <2>3 DEF CreateResource, RemoveResource, Starts, OrgAdminSegmentsValid, OrgAdmin
  <2>4. ASSUME NEW o \in Owners, NEW r \in Regions, NEW label \in Labels, Apply(o, r, label)
        PROVE  (process = "up" => Starts)'
    BY <1>2, <2>4 DEF Apply, Starts, OrgAdminSegmentsValid, OrgAdmin
  <2> QED
    BY <1>2, <2>1, <2>2, <2>3, <2>4 DEF Next
<1> QED
  BY <1>1, <1>2, PTL DEF Spec

\* The range base.yaml allows is what Secrets Manager can represent, once capped.
LEMMA AcceptedDaysFit ==
  ASSUME Starts
  PROVE  RecoveryWindow(file) \in 7 .. 30 /\ RecoveryWindow(file) <= GraceDays(file)
<1>1. file.graceDays \subseteq 7 .. 90
  BY DEF Starts, LoadBase, GraceDaysValid
<1>2. GraceDays(file) \in 7 .. 90
  BY <1>1 DEF GraceDays
<1> QED
  BY <1>2 DEF RecoveryWindow

\* Every recovery window asked for is one the store can represent, and none outlasts the
\* account's own (base.go:55-59, aws/keystore.go:93-101).
THEOREM RecoveryAlwaysFits == Spec => []RecoveryFits
<1>1. (process = "up" => Starts) => RecoveryFits
  BY AcceptedDaysFit DEF RecoveryFits
<1> QED
  BY <1>1, UpHasStarted, PTL

-----------------------------------------------------------------------------
(* Address ranges.                                                         *)

\* The network of a range written in IPv4 is an IPv4 network.
LEMMA NetworkOfIPv4 ==
  ASSUME NEW r \in Ranges, r.family = "IPv4"
  PROVE  IsIPv4(Network(r))
<1>1. /\ Wide \in Nat /\ Bits \in Nat /\ Bits <= Wide /\ r.ones \in Nat
      /\ IsIPv4(r.ip) /\ Kept(r) = 1 .. Wide - Bits + r.ones
  BY ConfigurationAssumption DEF Ranges, Kept
<1>2. ASSUME NEW i \in 1 .. Wide - Bits PROVE Network(r)[i] = MappedPrefix[i]
  <2>1. i \in 1 .. Wide /\ i \in Kept(r)
    BY <1>1
  <2>2. Network(r)[i] = r.ip[i]
    BY <2>1 DEF Network
  <2> QED
    BY <1>1, <2>2 DEF IsIPv4
<1> QED
  BY <1>2 DEF IsIPv4

\* What a range keeps, a range accepted as narrower keeps as well, unless it is misjudged.
LEMMA NarrowerKeepsMore ==
  ASSUME NEW r \in Ranges, NEW ip \in Ranges, ip.ones >= r.ones, Contains(r, ip.ip),
         ~(r.family = "IPv4" /\ ip.family = "IPv6" /\ IsIPv4(ip.ip))
  PROVE  Kept(r) \subseteq Kept(ip)
<1>1. /\ Wide \in Nat /\ Bits \in Nat /\ Bits <= Wide /\ r.ones \in Nat /\ ip.ones \in Nat
      /\ r.family \in {"IPv4", "IPv6"} /\ ip.family \in {"IPv4", "IPv6"}
  BY ConfigurationAssumption DEF Ranges
<1>2. (r.family = "IPv4" /\ ip.family = "IPv6") => FALSE
  BY NetworkOfIPv4 DEF Contains
<1> QED
  BY <1>1, <1>2 DEF Kept

\* Then it names a smaller range.
LEMMA NarrowerIsWithin ==
  ASSUME NEW r \in Ranges, NEW ip \in Ranges, ip.ones >= r.ones, Contains(r, ip.ip),
         ~(r.family = "IPv4" /\ ip.family = "IPv6" /\ IsIPv4(ip.ip))
  PROVE  Addresses(ip) \subseteq Addresses(r)
<1>1. Kept(r) \subseteq Kept(ip) /\ \A i \in Kept(r) : r.ip[i] = ip.ip[i]
  BY NarrowerKeepsMore DEF Contains
<1> QED
  BY <1>1 DEF Addresses

\* An accepted baseline narrows what its connection may carry, but for misjudged entries.
LEMMA AcceptedRangesFit ==
  ASSUME NEW region, LoadRegion(region),
         NEW a \in Range(region.allowlist), NEW ip \in a.allowedIPs,
         ~Misjudged(region, a.connection, ip)
  PROVE  Addresses(ip) \subseteq Carried(region, a.connection)
<1>1. PICK c \in Range(region.inventory) :
        /\ c.connection = a.connection
        /\ a.allowedIPs \subseteq Ranges
        /\ ContainsCIDR(c.maxCidrs, ip)
  BY DEF LoadRegion, AllowlistValid
<1>2. PICK r \in c.maxCidrs : ip.ones >= r.ones /\ Contains(r, ip.ip)
  BY <1>1 DEF ContainsCIDR
<1>3. r \in Ranges /\ ip \in Ranges
  BY <1>1, <1>2 DEF LoadRegion, InventoryValid
<1>4. r \in MaxCidrs(region, a.connection)
  BY <1>1, <1>2 DEF MaxCidrs
<1>5. ~(r.family = "IPv4" /\ ip.family = "IPv6" /\ IsIPv4(ip.ip))
  BY <1>4 DEF Misjudged
<1>6. Addresses(ip) \subseteq Addresses(r)
  BY <1>2, <1>3, <1>5, NarrowerIsWithin
<1> QED
  BY <1>4, <1>6 DEF Carried

\* Whatever the two files say and whatever families their ranges are written in, a process
\* that came up lets no address through on a connection that may never carry it, unless an
\* entry in IPv4-mapped form was judged by a range in IPv4 (backplane.go:182-221, 263-289).
THEOREM RangesAlwaysFit == Spec => []RangesFit
<1>1. (process = "up" => Starts) => RangesFit
  BY AcceptedRangesFit DEF RangesFit, Starts, LoadBackplane
<1> QED
  BY <1>1, UpHasStarted, PTL

-----------------------------------------------------------------------------
(* Looking an account up.                                                  *)

\* Where names are unique, the rows with a name that LIKE lets through are those with
\* that name, and the first of them is the only one.
LEMMA FoundByName ==
  ASSUME NEW I \in SUBSET Int, NEW A, NEW accounts \in [I -> A], NEW o, NEW i \in I,
         \A j, k \in I : Resolved(accounts[j]) = Resolved(accounts[k]) => j = k,
         Resolved(accounts[i]) = Resolved(o)
  PROVE  Row(accounts[i]) \in FindAccount(accounts, o)
<1> DEFINE shown == {j \in DOMAIN accounts : Like(Resolved(o), Resolved(accounts[j]))}
           rows == [j \in shown |-> Row(accounts[j])]
           equal == {j \in DOMAIN rows : rows[j]["account_name"] = Resolved(o)}
<1>1. FindAccount(accounts, o) = First(rows, equal)
  BY DEF FindAccount, FindRow
<1>2. i \in shown
  BY DEF Like
<1>3. \A j \in shown : rows[j]["account_name"] = Resolved(accounts[j])
  BY DEF Row
<1>4. i \in equal
  BY <1>2, <1>3
<1>5. \A j \in equal : j = i
  BY <1>3
<1>6. rows[i] = Row(accounts[i]) /\ i <= i
  BY <1>2
<1> HIDE DEF rows, equal
<1> QED
  BY <1>1, <1>4, <1>5, <1>6 DEF First

\* A row that is found has the name looked for.
LEMMA FoundHasName ==
  ASSUME NEW I \in SUBSET Int, NEW A, NEW accounts \in [I -> A], NEW o
  PROVE  \A row \in FindAccount(accounts, o) :
            \E i \in I : row = Row(accounts[i]) /\ Resolved(accounts[i]) = Resolved(o)
<1> SUFFICES ASSUME NEW row \in FindAccount(accounts, o)
             PROVE  \E i \in I : row = Row(accounts[i]) /\ Resolved(accounts[i]) = Resolved(o)
  OBVIOUS
<1> DEFINE shown == {j \in DOMAIN accounts : Like(Resolved(o), Resolved(accounts[j]))}
           rows == [j \in shown |-> Row(accounts[j])]
           equal == {j \in DOMAIN rows : rows[j]["account_name"] = Resolved(o)}
<1>1. FindAccount(accounts, o) = First(rows, equal)
  BY DEF FindAccount, FindRow
<1>2. PICK i \in equal : row = rows[i]
  BY <1>1 DEF First
<1>3. i \in I /\ rows[i] = Row(accounts[i]) /\ Row(accounts[i])["account_name"] = Resolved(o)
  BY <1>2
<1>4. Row(accounts[i])["account_name"] = Resolved(accounts[i])
  BY DEF Row
<1> QED
  BY <1>2, <1>3, <1>4

\* Whatever accounts there are and in whatever order the organization lists them, the
\* look-up finds a row exactly when the name is taken, and then the resource's own, or
\* one of equal name whose namespace shares the suffix (apply.go:311-328).
THEOREM LookUpsAreExact == Spec => []LookUpIsExact
<1>1. ASSUME AdmissionInv PROVE LookUpIsExact
  <2> SUFFICES ASSUME NEW A \in SUBSET Stored,
                      \A p, q \in A : Resolved(p) = Resolved(q) => p = q,
                      NEW accounts \in Bijection(1 .. Cardinality(A), A), NEW o \in Stored
               PROVE  /\ FindAccount(accounts, o) = {} <=> Resolved(o) \notin {Resolved(p) : p \in A}
                      /\ \A row \in FindAccount(accounts, o) :
                            row.account_locator \in {p \in Owners : p[2] = o[2] /\ Suffix[p[1]] = Suffix[o[1]]}
    BY DEF LookUpIsExact
  <2> DEFINE I == 1 .. Cardinality(A)
  <2>1. /\ accounts \in [I -> A]
        /\ \A i, j \in I : accounts[i] = accounts[j] => i = j
        /\ \A p \in A : \E i \in I : accounts[i] = p
    BY DEF Bijection, Injection, Surjection, IsInjective
  <2>2. I \in SUBSET Int
    OBVIOUS
  <2> HIDE DEF I
  <2>3. \A i, j \in I : Resolved(accounts[i]) = Resolved(accounts[j]) => i = j
    BY <2>1
  <2>4. ASSUME NEW p \in A, Resolved(p) = Resolved(o) PROVE FindAccount(accounts, o) # {}
    <3>1. PICK i \in I : accounts[i] = p
      BY <2>1
    <3> QED
      BY <2>1, <2>2, <2>3, <2>4, <3>1, FoundByName
  <2>5. ASSUME NEW row \in FindAccount(accounts, o)
        PROVE  \E p \in A : row.account_locator = p /\ Resolved(p) = Resolved(o)
    <3>1. \A r \in FindAccount(accounts, o) :
             \E i \in I : r = Row(accounts[i]) /\ Resolved(accounts[i]) = Resolved(o)
      BY <2>1, <2>2, FoundHasName
    <3>2. PICK i \in I : row = Row(accounts[i]) /\ Resolved(accounts[i]) = Resolved(o)
      BY <3>1
    <3> QED
      BY <2>1, <3>2 DEF Row
  <2>6. ASSUME NEW p \in A, Resolved(p) = Resolved(o)
        PROVE  p \in Owners /\ p[2] = o[2] /\ Suffix[p[1]] = Suffix[o[1]]
    <3>1. p \in Stored /\ NamesAreUnique
      BY <1>1, UniqueNow
    <3> QED
      BY <2>6, <3>1 DEF NamesAreUnique, Stored
  <2> QED
    BY <2>4, <2>5, <2>6
<1> QED
  BY <1>1, AdmissionInductive, PTL
=============================================================================
