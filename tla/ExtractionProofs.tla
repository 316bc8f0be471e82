-------------------------- MODULE ExtractionProofs --------------------------
(***************************************************************************)
(* Proofs about the functions of Extraction, for any texts, templates and  *)
(* characters.  Facts about what they compute by recursion go by the least *)
(* counterexample: a set of natural numbers that is not empty has a least  *)
(* element.                                                                *)
(***************************************************************************)
EXTENDS Extraction, TLAPS, WellFoundedInduction, SequenceTheorems

Below == OpToRel(<, Nat)

LEMMA BelowIsLess == \A i, j \in Nat : <<i, j>> \in Below <=> i < j
BY DEF Below, OpToRel

LEMMA BelowIsWellFounded == IsWellFoundedOn(Below, Nat)
BY NatLessThanWellFounded, Zenon DEF Below

LEMMA Least ==
  ASSUME NEW S \in SUBSET Nat, S # {}
  PROVE  Min(S) \in S /\ \A j \in S : Min(S) <= j
<1>1. PICK m \in S : \A j \in S : ~(<<j, m>> \in Below)
  BY WFMin, BelowIsWellFounded, Zenon
<1>2. ASSUME NEW j \in S
      PROVE  m <= j
  <2>1. m \in Nat /\ j \in Nat /\ ~(<<j, m>> \in Below)
    BY <1>1
  <2>2. ~(j < m)
    BY <2>1, BelowIsLess
  <2>. QED  BY <2>1, <2>2
<1>. QED  BY <1>2 DEF Min

LEMMA Greatest ==
  ASSUME NEW n \in Nat, NEW S \in SUBSET (1..n), S # {}
  PROVE  Max(S) \in S
<1>. DEFINE R == {n - i : i \in S}
<1>1. R \in SUBSET Nat /\ R # {}
  <2>1. \A i \in S : n - i \in Nat
    OBVIOUS
  <2>. QED  BY <2>1
<1>2. PICK m \in S : Min(R) = n - m
  BY <1>1, Least
<1>3. ASSUME NEW j \in S
      PROVE  j <= m
  <2>1. n - j \in R
    OBVIOUS
  <2>2. n - m <= n - j
    BY <1>1, <1>2, <2>1, Least
  <2>. QED  BY <2>2
<1>. QED  BY <1>3 DEF Max
-----------------------------------------------------------------------------
(* Bytes *)

Sums(s, n, f) == f = [i \in 0..n |-> IF i = 0 THEN 0 ELSE f[i - 1] + s[i]]

\* The recursion of Bytes defines a function.
LEMMA SumsExist ==
  ASSUME NEW s, NEW n \in Nat
  PROVE  \E f : Sums(s, n, f)
<1>. DEFINE Bad == {k \in Nat : ~\E f : Sums(s, k, f)}
<1>. SUFFICES ASSUME n \in Bad PROVE FALSE
  OBVIOUS
<1>. DEFINE m == Min(Bad)
<1>1. m \in Bad /\ \A j \in Bad : m <= j
  BY Least
<1>. HIDE DEF m
<1>2. m \in Nat /\ (\A f : ~Sums(s, m, f)) /\ \A j \in Nat : j < m => \E f : Sums(s, j, f)
  BY <1>1
<1>3. CASE m = 0
  <2>1. Sums(s, 0, [i \in 0..0 |-> 0])
    BY DEF Sums
  <2>. QED  BY <1>2, <1>3, <2>1
<1>4. CASE m # 0
  <2>1. PICK g : Sums(s, m - 1, g)
    BY <1>2, <1>4
  <2>. DEFINE f == [i \in 0..m |-> IF i = m THEN g[m - 1] + s[m] ELSE g[i]]
  <2>2. \A i \in 0..m : f[i] = IF i = 0 THEN 0 ELSE f[i - 1] + s[i]
    BY <1>2, <1>4, <2>1 DEF Sums
  <2>3. Sums(s, m, f)
    BY <1>2, <2>2 DEF Sums
  <2>. QED  BY <1>2, <2>3
<1>. QED  BY <1>3, <1>4

\* A text has at least as many bytes as characters.
LEMMA BytesOfChars ==
  ASSUME NEW s \in Seq(1..4)
  PROVE  Bytes(s) \in Nat /\ Len(s) <= Bytes(s)
<1>. DEFINE n == Len(s)
            f == CHOOSE g : g = [i \in 0..n |-> IF i = 0 THEN 0 ELSE g[i - 1] + s[i]]
<1>1. n \in Nat /\ \A i \in 1..n : s[i] \in 1..4
  OBVIOUS
<1>2. Bytes(s) = f[n]
  BY DEF Bytes
<1>3. Sums(s, n, f)
  BY <1>1, SumsExist DEF Sums
<1>. HIDE DEF n, f
<1>4. \A i \in 0..n : f[i] = IF i = 0 THEN 0 ELSE f[i - 1] + s[i]
  BY <1>3 DEF Sums
<1>. DEFINE Bad == {k \in 0..n : ~(f[k] \in Nat /\ k <= f[k])}
<1>5. Bad = {}
  <2>. SUFFICES ASSUME Bad # {} PROVE FALSE
    OBVIOUS
  <2>. DEFINE m == Min(Bad)
  <2>1. m \in Bad /\ \A j \in Bad : m <= j
    <3>1. Bad \in SUBSET Nat
      BY <1>1
    <3>. QED  BY <3>1, Least
  <2>. HIDE DEF m
  <2>2. m \in 0..n /\ m # 0
    BY <1>1, <1>4, <2>1
  <2>3. m - 1 \in 0..n /\ m \in 1..n /\ m - 1 \notin Bad
    BY <1>1, <2>1, <2>2
  <2>4. f[m - 1] \in Nat /\ m - 1 <= f[m - 1] /\ s[m] \in 1..4
    BY <1>1, <2>3
  <2>5. f[m] = f[m - 1] + s[m]
    BY <1>1, <1>4, <2>2
  <2>6. f[m] \in Nat /\ m <= f[m]
    BY <1>1, <2>2, <2>4, <2>5
  <2>. QED  BY <2>1, <2>6
<1>. QED  BY <1>1, <1>2, <1>5 DEF n
-----------------------------------------------------------------------------
(* Cut *)

Kept(s, k) ==
    /\ Bytes(SubSeq(s, 1, k)) <= MaxAttributeValueSize
    /\ k = Len(s) \/ Bytes(SubSeq(s, 1, k + 1)) > MaxAttributeValueSize

\* There is a number of characters to keep.
LEMMA SomeAreKept ==
  ASSUME NEW s \in Seq(1..4)
  PROVE  \E k \in 0..Len(s) : Kept(s, k)
<1>. DEFINE n == Len(s)
            Size(k) == Bytes(SubSeq(s, 1, k))
            Long == {k \in 0..n : Size(k) > MaxAttributeValueSize}
<1>1. n \in Nat /\ MaxAttributeValueSize \in Nat
  BY ExtractionAssumption
<1>2. \A k \in 0..n : SubSeq(s, 1, k) \in Seq(1..4)
  OBVIOUS
<1>3. \A k \in 0..n : Size(k) \in Nat
  BY <1>2, BytesOfChars
<1>4. Size(0) = 0
  <2>1. SubSeq(s, 1, 0) = << >>
    OBVIOUS
  <2>. DEFINE f == CHOOSE g : g = [i \in 0..0 |-> IF i = 0 THEN 0 ELSE g[i - 1] + << >>[i]]
  <2>2. Sums(<< >>, 0, f)
    BY SumsExist DEF Sums
  <2>3. Bytes(<< >>) = f[0]
    BY DEF Bytes
  <2>. HIDE DEF f
  <2>4. f[0] = 0
    BY <2>2 DEF Sums
  <2>. QED  BY <2>1, <2>3, <2>4
<1>. HIDE DEF Size, n
<1>5. CASE Long = {}
  <2>1. n \in 0..n /\ Size(n) <= MaxAttributeValueSize
    BY <1>1, <1>3, <1>5
  <2>. QED  BY <2>1 DEF Kept, Size, n
<1>6. CASE Long # {}
  <2>. DEFINE m == Min(Long)
  <2>1. m \in Long /\ \A j \in Long : m <= j
    <3>1. Long \in SUBSET Nat
      BY <1>1
    <3>. QED  BY <1>6, <3>1, Least
  <2>. HIDE DEF m
  <2>2. m \in 1..n
    BY <1>1, <1>4, <2>1
  <2>3. m - 1 \in 0..n /\ m - 1 \notin Long
    BY <1>1, <2>1, <2>2
  <2>4. Size(m - 1) <= MaxAttributeValueSize /\ Size((m - 1) + 1) > MaxAttributeValueSize
    <3>1. (m - 1) + 1 = m
      BY <2>2
    <3>. QED  BY <1>1, <1>3, <2>1, <2>3, <3>1
  <2>. QED  BY <2>3, <2>4 DEF Kept, Size, n
<1>. QED  BY <1>5, <1>6

\* However the limit falls on the characters, what is left of them fits, even
\* with the pieces of the one that was cut (utils.go:120-125).
THEOREM CutFits ==
  ASSUME NEW s \in Seq(1..4)
  PROVE  Len(Cut(s)) \in 0..MaxAttributeValueSize
<1>. DEFINE k == CHOOSE i \in 0..Len(s) : Kept(s, i)
            head == SubSeq(s, 1, k)
            rest == MaxAttributeValueSize - Bytes(head)
            pieces == [i \in 1..rest |-> Replacement]
<1>1. k \in 0..Len(s) /\ Kept(s, k)
  BY SomeAreKept
<1>2. Cut(s) = IF k = Len(s) THEN s ELSE head \o pieces
  BY DEF Cut, Kept
<1>. HIDE DEF k
<1>3. head \in Seq(1..4) /\ Len(head) = k /\ Len(s) \in Nat
  BY <1>1
<1>4. Bytes(head) \in Nat /\ k <= Bytes(head) /\ Bytes(head) <= MaxAttributeValueSize
  BY <1>1, <1>3, BytesOfChars DEF Kept
<1>5. rest \in Nat /\ MaxAttributeValueSize \in Nat
  BY <1>4, ExtractionAssumption
<1>6. CASE k = Len(s)
  BY <1>1, <1>2, <1>3, <1>4, <1>5, <1>6
<1>7. CASE k # Len(s)
  <2>. HIDE DEF head, rest
  <2>1. pieces \in Seq(Nat) /\ Len(pieces) = rest
    BY <1>5 DEF Replacement
  <2>. HIDE DEF pieces
  <2>2. Len(head \o pieces) = k + rest
    <3>1. head \in Seq(Nat)
      BY <1>3
    <3>2. Len(head \o pieces) = Len(head) + Len(pieces)
      BY <2>1, <3>1, ConcatProperties, Zenon
    <3>. QED  BY <1>3, <2>1, <3>2
  <2>3. k + rest \in 0..MaxAttributeValueSize
    BY <1>1, <1>3, <1>4, <1>5 DEF rest
  <2>. QED  BY <1>2, <1>7, <2>2, <2>3
<1>. QED  BY <1>6, <1>7

LEMMA CutType ==
  ASSUME NEW s \in Seq(1..4)
  PROVE  Cut(s) \in Seq(0..4)
<1>. DEFINE k == CHOOSE i \in 0..Len(s) : Kept(s, i)
            head == SubSeq(s, 1, k)
            rest == MaxAttributeValueSize - Bytes(head)
            pieces == [i \in 1..rest |-> Replacement]
<1>1. k \in 0..Len(s) /\ Kept(s, k)
  BY SomeAreKept
<1>2. Cut(s) = IF k = Len(s) THEN s ELSE head \o pieces
  BY DEF Cut, Kept
<1>. HIDE DEF k
<1>3. head \in Seq(1..4) /\ head \in Seq(0..4)
  BY <1>1
<1>4. rest \in Nat
  <2>1. Bytes(head) \in Nat /\ Bytes(head) <= MaxAttributeValueSize
    BY <1>1, <1>3, BytesOfChars DEF Kept
  <2>. QED  BY <2>1, ExtractionAssumption
<1>. HIDE DEF head, rest
<1>5. pieces \in Seq(0..4)
  BY <1>4 DEF Replacement
<1>6. head \o pieces \in Seq(0..4)
  BY <1>3, <1>5, ConcatProperties, Zenon
<1>7. s \in Seq(0..4)
  OBVIOUS
<1>. QED  BY <1>2, <1>6, <1>7
-----------------------------------------------------------------------------
(* Texts *)

Joins(s, n, f) == f = [i \in 1..n |-> IF i = 1 THEN s[i] ELSE f[i - 1] \o s[i]]

\* The recursion of FlattenSeq defines a function.
LEMMA JoinsExist ==
  ASSUME NEW s, NEW n \in Nat
  PROVE  \E f : Joins(s, n, f)
<1>. DEFINE Bad == {k \in Nat : ~\E f : Joins(s, k, f)}
<1>. SUFFICES ASSUME n \in Bad PROVE FALSE
  OBVIOUS
<1>. DEFINE m == Min(Bad)
<1>1. m \in Bad /\ \A j \in Bad : m <= j
  BY Least
<1>. HIDE DEF m
<1>2. m \in Nat /\ (\A f : ~Joins(s, m, f)) /\ \A j \in Nat : j < m => \E f : Joins(s, j, f)
  BY <1>1
<1>3. CASE m = 0
  <2>1. Joins(s, 0, [i \in 1..0 |-> 0])
    BY DEF Joins
  <2>. QED  BY <1>2, <1>3, <2>1
<1>4. CASE m # 0
  <2>1. PICK g : Joins(s, m - 1, g)
    BY <1>2, <1>4
  <2>. DEFINE f == [i \in 1..m |-> IF i # m THEN g[i]
                                  ELSE IF i = 1 THEN s[i] ELSE g[m - 1] \o s[m]]
  <2>2. ASSUME NEW i \in 1..m
        PROVE  f[i] = IF i = 1 THEN s[i] ELSE f[i - 1] \o s[i]
    <3>1. CASE i = m
      BY <1>2, <3>1
    <3>2. CASE i # m
      <4>1. i \in 1..(m - 1) /\ f[i] = g[i] /\ (i # 1 => f[i - 1] = g[i - 1])
        BY <1>2, <3>2
      <4>2. g[i] = IF i = 1 THEN s[i] ELSE g[i - 1] \o s[i]
        BY <2>1, <4>1 DEF Joins
      <4>. QED  BY <4>1, <4>2
    <3>. QED  BY <3>1, <3>2
  <2>3. Joins(s, m, f)
    BY <1>2, <2>2 DEF Joins
  <2>. QED  BY <1>2, <2>3
<1>. QED  BY <1>3, <1>4

\* Texts one after the other are a text.
LEMMA FlattenType ==
  ASSUME NEW A, NEW s \in Seq(Seq(A))
  PROVE  FlattenSeq(s) \in Seq(A)
<1>. DEFINE n == Len(s)
            f == CHOOSE g : g = [i \in 1..n |-> IF i = 1 THEN s[i] ELSE g[i - 1] \o s[i]]
<1>1. n \in Nat /\ \A i \in 1..n : s[i] \in Seq(A)
  OBVIOUS
<1>2. FlattenSeq(s) = IF n = 0 THEN s ELSE f[n]
  BY DEF FlattenSeq
<1>3. Joins(s, n, f)
  BY <1>1, JoinsExist DEF Joins
<1>4. n = 0 => s \in Seq(A)
  <2>1. n = 0 => s = << >>
    OBVIOUS
  <2>. QED  BY <2>1, EmptySeq
<1>. HIDE DEF n, f
<1>5. \A i \in 1..n : f[i] = IF i = 1 THEN s[i] ELSE f[i - 1] \o s[i]
  BY <1>3 DEF Joins
<1>. DEFINE Bad == {k \in 1..n : f[k] \notin Seq(A)}
<1>6. Bad = {}
  <2>. SUFFICES ASSUME Bad # {} PROVE FALSE
    OBVIOUS
  <2>. DEFINE m == Min(Bad)
  <2>1. m \in Bad /\ \A j \in Bad : m <= j
    <3>1. Bad \in SUBSET Nat
      BY <1>1
    <3>. QED  BY <3>1, Least
  <2>. HIDE DEF m
  <2>2. m # 1
    BY <1>1, <1>5, <2>1
  <2>3. m - 1 \in 1..n /\ m - 1 \notin Bad /\ m \in 1..n
    BY <1>1, <2>1, <2>2
  <2>4. f[m - 1] \in Seq(A) /\ s[m] \in Seq(A)
    BY <1>1, <2>3
  <2>5. f[m - 1] \o s[m] \in Seq(A)
    BY <2>4, ConcatProperties
  <2>6. f[m] = f[m - 1] \o s[m]
    BY <1>5, <2>2, <2>3
  <2>. QED  BY <2>1, <2>5, <2>6
<1>. QED  BY <1>1, <1>2, <1>4, <1>6

LEMMA CharsType ==
  ASSUME NEW text \in Text
  PROVE  CharsOf(text) \in Seq(1..4)
<1>. DEFINE chars == [i \in DOMAIN text |-> Chars[text[i]]]
<1>1. \A i \in 1..Len(text) : Chars[text[i]] \in Seq(1..4)
  BY ExtractionAssumption DEF Text
<1>2. chars = [i \in 1..Len(text) |-> Chars[text[i]]] /\ Len(text) \in Nat
  BY DEF Text
<1>3. chars \in Seq(Seq(1..4))
  BY <1>1, <1>2
<1>. QED  BY <1>3, FlattenType DEF CharsOf

LEMMA ImageIsText ==
  ASSUME NEW s \in Image
  PROVE  s \in Text
<1>1. \A i \in 1..Len(s) : s[i] \in Words
  BY ExtractionAssumption DEF Image
<1>2. s = [i \in 1..Len(s) |-> s[i]] /\ Len(s) \in Nat
  BY DEF Image
<1>. QED  BY <1>1, <1>2 DEF Text

\* Where parseContainerImage has the name of an image begin and end.
Begin(s) == Max(NameStarts(s))
First(s) ==
    IF Class[s[Begin(s)]] = "/" /\ Begin(s) < Len(s) /\ InName(s[Begin(s) + 1])
    THEN Begin(s) + 1 ELSE Begin(s)
NameEnds(s) == {i \in First(s)..Len(s) : \A j \in First(s)..i : InName(s[j])}

LEMMA NameIs ==
  ASSUME NEW s \in Image, NameStarts(s) # {}
  PROVE  /\ Begin(s) \in 1..Len(s) /\ First(s) \in 1..Len(s)
         /\ Max(NameEnds(s)) \in First(s)..Len(s)
         /\ parseContainerImage(s).name = SubSeq(s, First(s), Max(NameEnds(s)))
<1>1. Len(s) \in Nat
  BY DEF Image
<1>2. Begin(s) \in NameStarts(s)
  <2>1. NameStarts(s) \in SUBSET (1..Len(s))
    BY DEF NameStarts
  <2>. QED  BY <1>1, <2>1, Greatest DEF Begin
<1>3. Begin(s) \in 1..Len(s) /\ InName(s[Begin(s)])
  BY <1>2 DEF NameStarts
<1>4. First(s) \in 1..Len(s) /\ InName(s[First(s)])
  BY <1>1, <1>3 DEF First
<1>5. Max(NameEnds(s)) \in NameEnds(s)
  <2>1. First(s) \in NameEnds(s)
    <3>1. \A j \in First(s)..First(s) : j = First(s)
      BY <1>4
    <3>. QED  BY <1>1, <1>4, <3>1 DEF NameEnds
  <2>2. NameEnds(s) \in SUBSET (1..Len(s))
    BY <1>1, <1>4 DEF NameEnds
  <2>. QED  BY <1>1, <2>1, <2>2, Greatest
<1>6. parseContainerImage(s).name = SubSeq(s, First(s), Max(NameEnds(s)))
  BY DEF parseContainerImage, ParsedFrom, Parsed, NameFirst, NameLast, TagFirst, Begin,
      First, NameEnds
<1>. QED  BY <1>3, <1>4, <1>5, <1>6 DEF NameEnds

LEMMA ImageType ==
  ASSUME NEW o \in Owner
  PROVE  /\ MainImage(o, "name") \in Text \cup {Error}
         /\ MainImage(o, "tag") \in Text \cup {Error}
<1>. DEFINE s == o.image
            parsed == parseContainerImage(s)
<1>1. << >> \in Text
  BY EmptySeq DEF Text
<1>2. ASSUME s # NoContainer, NameStarts(s) # {}
      PROVE  parsed.name \in Text /\ parsed.tag \in Text
  <2>1. s \in Image /\ s \in Text /\ Len(s) \in Nat
    BY <1>2, ImageIsText DEF Owner, Image
  <2>2. /\ First(s) \in 1..Len(s) /\ Max(NameEnds(s)) \in First(s)..Len(s)
        /\ parsed.name = SubSeq(s, First(s), Max(NameEnds(s)))
    BY <1>2, <2>1, NameIs
  <2>. DEFINE last == Max(NameEnds(s))
              tag == IF last < Len(s) /\ Class[s[last + 1]] = ":" THEN last + 2 ELSE last + 1
  <2>3. parsed.tag = SubSeq(s, tag, Len(s))
    BY DEF parseContainerImage, ParsedFrom, Parsed, NameFirst, NameLast, TagFirst, Begin,
        First, NameEnds
  <2>4. tag \in Nat /\ tag >= 1
    BY <2>1, <2>2
  <2>. HIDE DEF tag, last, s
  <2>5. \A m, n \in Nat : m >= 1 /\ n <= Len(s) => SubSeq(s, m, n) \in Text
    BY <2>1 DEF Text
  <2>6. First(s) \in Nat /\ First(s) >= 1 /\ last \in Nat /\ last <= Len(s)
    BY <2>1, <2>2 DEF last
  <2>. QED  BY <2>1, <2>2, <2>3, <2>4, <2>5, <2>6 DEF last
<1>. QED  BY <1>1, <1>2 DEF MainImage

\* What a template may see: a default key, or none, and the names that were
\* extracted before, or the reason why not.
IsKey(key) == key \in Keys \cup {NoDefault}
IsContext(ctx) == ctx.app \in Text \cup {Error} /\ ctx.cat \in Text \cup {Error}

\* A part of a template yields a text, or fails.
LEMMA CallType ==
  ASSUME NEW part, IsPart(part), NEW o \in Owner, NEW n \in Namespace,
         NEW key, IsKey(key), NEW ctx, IsContext(ctx)
  PROVE  Call(part, o, n, key, ctx) \in Text \cup {Error}
<1>. DEFINE result == Call(part, o, n, key, ctx)
<1>1. CASE part.fn = "text"
  BY <1>1 DEF Call, IsPart
<1>2. CASE part.fn \in OfKey
  BY <1>2 DEF Call, IsPart, OfKey, Owner, Namespace, Map
<1>3. CASE part.fn \in OfPath
  BY <1>3 DEF Call, IsPart, OfPath, Owner, Namespace
<1>4. CASE part.fn \in {"defaultLabel", "defaultAnnotation", "nsDefaultLabel",
                        "nsDefaultAnnotation"}
  <2>1. << >> \in Text
    BY EmptySeq DEF Text
  <2>2. ASSUME key # NoDefault
        PROVE  /\ o.label[key] \in Text /\ o.annotation[key] \in Text
               /\ n.label[key] \in Text /\ n.annotation[key] \in Text
    BY <2>2 DEF Owner, Namespace, Map, IsKey
  <2>. QED  BY <1>4, <2>1, <2>2 DEF Call
<1>5. CASE part.fn \in {"name", "nsName"}
  BY <1>5 DEF Call, Owner, Namespace, Name
<1>6. CASE part.fn = "mainImageName"
  BY <1>6, ImageType DEF Call
<1>7. CASE part.fn = "mainImageTag"
  BY <1>7, ImageType DEF Call
<1>8. CASE part.fn = "context"
  BY <1>8 DEF Call, IsPart, IsContext
<1>9. CASE part.fn = "invalid"
  BY <1>9 DEF Call
<1>. QED
  BY <1>1, <1>2, <1>3, <1>4, <1>5, <1>6, <1>7, <1>8, <1>9 DEF IsPart, OfNothing

LEMMA RenderType ==
  ASSUME NEW t, IsTemplate(t), NEW o \in Owner, NEW n \in Namespace,
         NEW key, IsKey(key), NEW ctx, IsContext(ctx)
  PROVE  Render(t, o, n, key, ctx) \in Text \cup {Error}
<1>. DEFINE parts == [i \in DOMAIN t |-> Call(t[i], o, n, key, ctx)]
<1>1. \A i \in DOMAIN t : parts[i] \in Text \cup {Error}
  BY CallType DEF IsTemplate
<1>2. DOMAIN t = 1..Len(t) /\ Len(t) \in Nat
  BY DEF IsTemplate
<1>3. Render(t, o, n, key, ctx) = Joined(OrError(parts))
  BY DEF Render
<1>4. DOMAIN parts = 1..Len(t) /\ parts = [i \in 1..Len(t) |-> parts[i]]
  BY <1>2
<1>. HIDE DEF parts
<1>5. CASE \E i \in DOMAIN parts : parts[i] = Error
  BY <1>3, <1>5 DEF OrError, Joined
<1>6. CASE \A i \in DOMAIN parts : parts[i] # Error
  <2>1. \A i \in 1..Len(t) : parts[i] \in Text
    BY <1>1, <1>2, <1>4, <1>6
  <2>2. parts \in Seq(Text)
    BY <1>2, <1>4, <2>1
  <2>3. FlattenSeq(parts) \in Text
    BY <2>2, FlattenType DEF Text
  <2>. QED  BY <1>3, <1>6, <2>3 DEF OrError, Joined
<1>. QED  BY <1>5, <1>6

LEMMA WithoutContext == IsKey(NoDefault) /\ IsContext(NoContext)
<1>1. <<NoValue>> \in Text
  BY ExtractionAssumption DEF Text
<1>. QED  BY <1>1 DEF IsKey, IsContext, NoContext
-----------------------------------------------------------------------------
(* Templates and their defaults *)

LEMMA FlattenOne ==
  ASSUME NEW x
  PROVE  FlattenSeq(<<x>>) = x
<1>. DEFINE s == <<x>>
            f == CHOOSE g : g = [i \in 1..1 |-> IF i = 1 THEN s[i] ELSE g[i - 1] \o s[i]]
<1>1. FlattenSeq(s) = f[1]
  BY DEF FlattenSeq
<1>2. Joins(s, 1, f)
  BY JoinsExist DEF Joins
<1>. HIDE DEF f
<1>3. f[1] = s[1]
  BY <1>2 DEF Joins
<1>. QED  BY <1>1, <1>3

\* What a default template yields.
CallOf(fn, o, n, key) == Call([fn |-> fn, arg |-> ""], o, n, key, NoContext)

LEMMA DefaultIs ==
  ASSUME NEW fn \in OfNothing, NEW o \in Owner, NEW n \in Namespace, NEW key, IsKey(key)
  PROVE  /\ CallOf(fn, o, n, key) \in Text \cup {Error}
         /\ Render(Fn(fn), o, n, key, NoContext) = CallOf(fn, o, n, key)
<1>. DEFINE c == CallOf(fn, o, n, key)
<1>1. IsPart([fn |-> fn, arg |-> ""])
  BY DEF IsPart, OfNothing, OfKey, OfPath
<1>2. c \in Text \cup {Error}
  BY <1>1, CallType, WithoutContext DEF CallOf
<1>3. Render(Fn(fn), o, n, key, NoContext) = Joined(OrError(<<c>>))
  <2>1. DOMAIN Fn(fn) = 1..1 /\ Fn(fn)[1] = [fn |-> fn, arg |-> ""]
    BY DEF Fn
  <2>2. \A i \in 1..1 : i = 1
    OBVIOUS
  <2>. HIDE DEF c
  <2>3. [i \in 1..1 |-> c] = <<c>>
    OBVIOUS
  <2>4. Call(Fn(fn)[1], o, n, key, NoContext) = c
    BY <2>1 DEF c, CallOf
  <2>5. \A i \in 1..1 : Call(Fn(fn)[i], o, n, key, NoContext) = c
    BY <2>2, <2>4
  <2>6. [i \in DOMAIN Fn(fn) |-> Call(Fn(fn)[i], o, n, key, NoContext)] = <<c>>
    BY <2>1, <2>3, <2>5
  <2>. QED  BY <2>6 DEF Render
<1>. HIDE DEF c
<1>4. CASE c = Error
  <2>1. 1 \in DOMAIN <<c>> /\ <<c>>[1] = Error
    BY <1>4
  <2>2. OrError(<<c>>) = Error
    BY <2>1 DEF OrError
  <2>. QED  BY <1>2, <1>3, <1>4, <2>2 DEF Joined, c
<1>5. CASE c # Error
  <2>1. <<c>> \in Seq(Text)
    BY <1>2, <1>5
  <2>2. <<c>> # Error
    BY <2>1, ExtractionAssumption
  <2>3. OrError(<<c>>) = <<c>>
    BY <1>5 DEF OrError
  <2>. QED  BY <1>2, <1>3, <2>2, <2>3, FlattenOne DEF Joined, c
<1>. QED  BY <1>4, <1>5

LEMMA DefaultsAre ==
  ASSUME NEW chain \in Seq(OfNothing), NEW o \in Owner, NEW n \in Namespace,
         NEW key, IsKey(key)
  PROVE  /\ DOMAIN Defaults(chain, o, n, key) = 1..Len(chain)
         /\ \A i \in 1..Len(chain) :
               /\ Defaults(chain, o, n, key)[i] = CallOf(chain[i], o, n, key)
               /\ Defaults(chain, o, n, key)[i] \in Text \cup {Error}
<1>1. DOMAIN chain = 1..Len(chain) /\ \A i \in 1..Len(chain) : chain[i] \in OfNothing
  OBVIOUS
<1>. QED  BY <1>1, DefaultIs DEF Defaults

LEMMA FirstIs ==
  ASSUME NEW m \in Nat, NEW texts, DOMAIN texts = 1..m,
         NEW k \in 1..m, texts[k] # << >>, \A j \in 1..m : j < k => texts[j] = << >>
  PROVE  FirstOf(texts) = texts[k]
<1>. DEFINE hits == {i \in DOMAIN texts : texts[i] # << >>}
<1>1. hits \in SUBSET Nat /\ k \in hits
  OBVIOUS
<1>2. Min(hits) \in hits /\ Min(hits) <= k
  BY <1>1, Least
<1>3. Min(hits) = k
  BY <1>2
<1>. QED  BY <1>1, <1>3 DEF FirstOf

LEMMA FirstOfNone ==
  ASSUME NEW texts, \A i \in DOMAIN texts : texts[i] = << >>
  PROVE  FirstOf(texts) = << >>
BY DEF FirstOf

LEMMA FirstType ==
  ASSUME NEW m \in Nat, NEW texts, DOMAIN texts = 1..m,
         \A i \in 1..m : texts[i] \in Text \cup {Error}
  PROVE  FirstOf(texts) \in Text \cup {Error}
<1>. DEFINE hits == {i \in DOMAIN texts : texts[i] # << >>}
<1>1. hits \in SUBSET Nat
  OBVIOUS
<1>2. hits # {} => Min(hits) \in hits
  BY <1>1, Least
<1>3. << >> \in Text
  BY EmptySeq DEF Text
<1>. QED  BY <1>2, <1>3 DEF FirstOf

LEMMA ValueType ==
  ASSUME NEW t, MayBeTemplate(t), NEW chain \in Seq(OfNothing),
         NEW o \in Owner, NEW n \in Namespace, NEW key, IsKey(key), NEW ctx, IsContext(ctx)
  PROVE  Value(t, chain, o, n, key, ctx) \in Text \cup {Error}
<1>1. Len(chain) \in Nat
  OBVIOUS
<1>2. FirstOf(Defaults(chain, o, n, key)) \in Text \cup {Error}
  BY <1>1, DefaultsAre, FirstType
<1>3. t # NoTemplate => Render(t, o, n, key, ctx) \in Text \cup {Error}
  BY RenderType DEF MayBeTemplate
<1>. QED  BY <1>2, <1>3 DEF Value

\* The chains of default templates.
LEMMA Chains ==
  /\ UrlChain \in Seq(OfNothing) /\ Len(UrlChain) = 4
  /\ \A fn \in OfNothing :
        /\ OwnerChain(fn) \in Seq(OfNothing) /\ Len(OwnerChain(fn)) = 3
        /\ OwnerChain(fn)[1] = "defaultLabel"
        /\ OwnerChain(fn)[2] = "defaultAnnotation"
        /\ OwnerChain(fn)[3] = fn
        /\ NamespaceChain(fn) \in Seq(OfNothing) /\ Len(NamespaceChain(fn)) = 5
        /\ NamespaceChain(fn)[5] = fn
BY DEF OwnerChain, NamespaceChain, UrlChain, OfNothing

LEMMA EmptyIsText == << >> \in Text /\ << >> # Error
BY EmptySeq, ExtractionAssumption DEF Text

\* What the labels and the annotations leave open, the last template decides.
LEMMA OwnerChainYields ==
  ASSUME NEW fn \in OfNothing, NEW o \in Owner, NEW n \in Namespace, NEW key \in Keys
  PROVE  FirstOf(Defaults(OwnerChain(fn), o, n, key)) =
           IF o.label[key] # << >> THEN o.label[key]
           ELSE IF o.annotation[key] # << >> THEN o.annotation[key]
           ELSE CallOf(fn, o, n, key)
<1>. DEFINE texts == Defaults(OwnerChain(fn), o, n, key)
<1>1. IsKey(key) /\ key # NoDefault
  BY ExtractionAssumption DEF IsKey
<1>2. DOMAIN texts = 1..3 /\ texts[1] = CallOf("defaultLabel", o, n, key)
      /\ texts[2] = CallOf("defaultAnnotation", o, n, key) /\ texts[3] = CallOf(fn, o, n, key)
  <2>. DEFINE chain == OwnerChain(fn)
  <2>1. /\ chain \in Seq(OfNothing) /\ Len(chain) = 3 /\ chain[1] = "defaultLabel"
        /\ chain[2] = "defaultAnnotation" /\ chain[3] = fn
    BY Chains
  <2>. HIDE DEF chain
  <2>2. /\ DOMAIN Defaults(chain, o, n, key) = 1..Len(chain)
        /\ \A i \in 1..Len(chain) : Defaults(chain, o, n, key)[i] = CallOf(chain[i], o, n, key)
    BY <1>1, <2>1, DefaultsAre
  <2>. QED  BY <2>1, <2>2 DEF chain
<1>3. texts[1] = o.label[key] /\ texts[2] = o.annotation[key]
  BY <1>1, <1>2 DEF CallOf, Call
<1>. HIDE DEF texts
<1>4. CASE texts[1] # << >>
  <2>1. 3 \in Nat /\ 1 \in 1..3 /\ \A j \in 1..3 : ~(j < 1)
    OBVIOUS
  <2>2. FirstOf(texts) = texts[1]
    BY <1>2, <1>4, <2>1, FirstIs, Zenon
  <2>. QED  BY <1>3, <1>4, <2>2 DEF texts
<1>5. CASE texts[1] = << >> /\ texts[2] # << >>
  <2>1. 3 \in Nat /\ 2 \in 1..3 /\ \A j \in 1..3 : j < 2 => j = 1
    OBVIOUS
  <2>2. FirstOf(texts) = texts[2]
    BY <1>2, <1>5, <2>1, FirstIs, Zenon
  <2>. QED  BY <1>3, <1>5, <2>2 DEF texts
<1>6. CASE texts[1] = << >> /\ texts[2] = << >> /\ texts[3] # << >>
  <2>1. \A j \in 1..3 : j < 3 => j = 1 \/ j = 2
    OBVIOUS
  <2>2. FirstOf(texts) = texts[3]
    BY <1>2, <1>6, <2>1, FirstIs
  <2>. QED  BY <1>2, <1>3, <1>6, <2>2 DEF texts
<1>7. CASE texts[1] = << >> /\ texts[2] = << >> /\ texts[3] = << >>
  <2>1. \A j \in 1..3 : j = 1 \/ j = 2 \/ j = 3
    OBVIOUS
  <2>2. FirstOf(texts) = << >>
    BY <1>2, <1>7, <2>1, FirstOfNone
  <2>. QED  BY <1>2, <1>3, <1>7, <2>2 DEF texts
<1>. QED  BY <1>4, <1>5, <1>6, <1>7

\* Labels and annotations are texts: looking at them cannot fail.
LEMMA LabelsAreTexts ==
  ASSUME NEW fn \in {"defaultLabel", "defaultAnnotation", "nsDefaultLabel",
                     "nsDefaultAnnotation"},
         NEW o \in Owner, NEW n \in Namespace, NEW key, IsKey(key)
  PROVE  CallOf(fn, o, n, key) \in Text
<1>1. key # NoDefault =>
        /\ o.label[key] \in Text /\ o.annotation[key] \in Text
        /\ n.label[key] \in Text /\ n.annotation[key] \in Text
  BY DEF Owner, Namespace, Map, IsKey
<1>. QED  BY <1>1, EmptyIsText DEF CallOf, Call

LEMMA FirstText ==
  ASSUME NEW m \in Nat, NEW texts, DOMAIN texts = 1..m, \A i \in 1..m : texts[i] \in Text
  PROVE  FirstOf(texts) \in Text
<1>. DEFINE hits == {i \in DOMAIN texts : texts[i] # << >>}
<1>1. hits \in SUBSET Nat
  OBVIOUS
<1>2. hits # {} => Min(hits) \in hits
  BY <1>1, Least
<1>. QED  BY <1>2, EmptyIsText DEF FirstOf

\* A name at the end of a chain is always found.
LEMMA NamespaceChainYields ==
  ASSUME NEW fn \in {"name", "nsName"}, NEW o \in Owner, NEW n \in Namespace,
         NEW key, IsKey(key)
  PROVE  FirstOf(Defaults(NamespaceChain(fn), o, n, key)) \in Name
<1>. DEFINE texts == Defaults(NamespaceChain(fn), o, n, key)
            hits == {i \in DOMAIN texts : texts[i] # << >>}
<1>1. fn \in OfNothing
  BY DEF OfNothing
<1>2. /\ DOMAIN texts = 1..5
      /\ \A i \in 1..5 : texts[i] = CallOf(NamespaceChain(fn)[i], o, n, key)
      /\ NamespaceChain(fn)[5] = fn
  BY <1>1, Chains, DefaultsAre
<1>3. texts[5] \in Name
  <2>1. CallOf("name", o, n, key) = o.name /\ CallOf("nsName", o, n, key) = n.name
    BY DEF CallOf, Call
  <2>. QED  BY <1>2, <2>1 DEF Owner, Namespace
<1>4. ASSUME NEW i \in 1..4
      PROVE  texts[i] \in Text
  <2>1. NamespaceChain(fn)[i] \in {"defaultLabel", "defaultAnnotation", "nsDefaultLabel",
                                   "nsDefaultAnnotation"}
    BY <1>4 DEF NamespaceChain
  <2>. QED  BY <1>2, <2>1, LabelsAreTexts
<1>5. \A i \in 1..5 : texts[i] \in Text
  <2>1. \A i \in 1..5 : i = 5 \/ i \in 1..4
    OBVIOUS
  <2>. QED  BY <1>3, <1>4, <2>1 DEF Name
<1>. HIDE DEF texts
<1>6. hits \in SUBSET Nat /\ 5 \in hits
  BY <1>2, <1>3 DEF Name
<1>7. Min(hits) \in hits
  BY <1>6, Least
<1>. QED  BY <1>2, <1>5, <1>7 DEF FirstOf, texts, Name
-----------------------------------------------------------------------------
(* Payloads *)

LEMMA AttributeTextsType ==
  ASSUME NEW configured, AreAttributes(configured),
         NEW annotations \in Values, NEW nsAnnotations \in Values,
         NEW o \in Owner, NEW n \in Namespace,
         ~AttributesFail(configured, o, n), NEW a \in Attributes
  PROVE  AttributeTexts(configured, annotations, nsAnnotations, o, n)[a]
           \in Text \cup {NoAttribute}
<1>. DEFINE texts == AttributeTexts(configured, annotations, nsAnnotations, o, n)
            own == {i \in DOMAIN configured : configured[i].name = a}
            Rendered(i) == Render(configured[i].value, o, n, NoDefault, NoContext)
<1>1. ASSUME NEW i \in DOMAIN configured
      PROVE  Rendered(i) \in Text
  BY RenderType, WithoutContext DEF AreAttributes, AttributesFail
<1>. HIDE DEF Rendered
<1>2. ASSUME own # {}
      PROVE  Max(own) \in DOMAIN configured
  <2>1. DOMAIN configured = 1..Len(configured) /\ Len(configured) \in Nat
    BY DEF AreAttributes
  <2>2. own \in SUBSET (1..Len(configured))
    BY <2>1
  <2>. HIDE DEF own
  <2>3. Max(own) \in own
    BY <1>2, <2>1, <2>2, Greatest
  <2>. QED  BY <2>1, <2>2, <2>3
<1>3. texts[a] = IF nsAnnotations[a] # << >> THEN nsAnnotations[a]
                 ELSE IF annotations[a] # << >> THEN annotations[a]
                 ELSE IF own = {} THEN NoAttribute ELSE Rendered(Max(own))
  BY DEF AttributeTexts, Rendered
<1>4. nsAnnotations[a] \in Text /\ annotations[a] \in Text
  BY DEF Values
<1>5. own # {} => Rendered(Max(own)) \in Text
  BY <1>1, <1>2
<1>. HIDE DEF own, texts
<1>6. texts[a] \in Text \cup {NoAttribute}
  BY <1>3, <1>4, <1>5
<1>. QED  BY <1>6 DEF texts

\* The attributes of either kind fit, wherever their values come from.
LEMMA AttributesFit ==
  ASSUME NEW configured, AreAttributes(configured),
         NEW annotations \in Values, NEW nsAnnotations \in Values,
         NEW o \in Owner, NEW n \in Namespace,
         ~AttributesFail(configured, o, n)
  PROVE  LET texts == AttributeTexts(configured, annotations, nsAnnotations, o, n)
             sent == TruncateAll(texts, annotations, nsAnnotations)
         IN  /\ \E names \in SUBSET Attributes : sent \in Sent(names)
             /\ \A a \in DOMAIN sent : Len(sent[a]) <= MaxAttributeValueSize
<1>. DEFINE texts == AttributeTexts(configured, annotations, nsAnnotations, o, n)
            sent == TruncateAll(texts, annotations, nsAnnotations)
            names == {a \in Attributes : texts[a] # NoAttribute}
<1>1. ASSUME NEW a \in names
      PROVE  Truncate(texts[a]) \in Seq(0..4) /\ Len(Truncate(texts[a])) \in 0..MaxAttributeValueSize
  <2>1. texts[a] \in Text
    BY AttributeTextsType
  <2>. QED  BY <2>1, CharsType, CutType, CutFits DEF Truncate
<1>. HIDE DEF texts
<1>2. sent = [a \in names |-> Truncate(texts[a])]
  BY DEF TruncateAll
<1>3. sent \in Sent(names)
  BY <1>1, <1>2 DEF Sent
<1>4. \A a \in DOMAIN sent : Len(sent[a]) <= MaxAttributeValueSize
  BY <1>1, <1>2, ExtractionAssumption
<1>. QED  BY <1>3, <1>4 DEF texts

LEMMA MandatoryType ==
  ASSUME NEW text \in Text \cup {Error}
  PROVE  /\ Mandatory(text) \in Name \cup {Error}
         /\ Mandatory(text) = Error <=> text \in {<< >>, Error}
BY EmptyIsText DEF Mandatory, Name

LEMMA TextParts ==
  ASSUME NEW l, IsListener(l), NEW o \in Owner, NEW n \in Namespace
  PROVE  /\ Application(l, o, n) \in Name \cup {Error}
         /\ Category(l, o, n) \in Name \cup {Error}
         /\ IsContext(Context(l, o, n))
         /\ EnvironmentName(l, o, n) \in Name \cup {Error}
         /\ EnvironmentUrl(l, o, n) \in Text \cup {Error}
         /\ VersionName(l, o, n) \in Text \cup {Error}
<1>1. \A key \in {"app", "cat", "environment", "url", "version"} : IsKey(key)
  BY ExtractionAssumption DEF IsKey
<1>2. /\ MayBeTemplate(l.app) /\ MayBeTemplate(l.cat) /\ MayBeTemplate(l.env)
      /\ MayBeTemplate(l.url) /\ MayBeTemplate(l.version)
  BY DEF IsListener
<1>3. /\ OwnerChain("mainImageName") \in Seq(OfNothing)
      /\ OwnerChain("mainImageTag") \in Seq(OfNothing)
      /\ NamespaceChain("nsName") \in Seq(OfNothing)
      /\ NamespaceChain("name") \in Seq(OfNothing) /\ UrlChain \in Seq(OfNothing)
  <2>1. {"mainImageName", "mainImageTag", "nsName", "name"} \subseteq OfNothing
    BY DEF OfNothing
  <2>. QED  BY <2>1, Chains
<1>4. /\ Application(l, o, n) \in Name \cup {Error}
      /\ Category(l, o, n) \in Name \cup {Error}
  BY <1>1, <1>2, <1>3, ValueType, MandatoryType, WithoutContext DEF Application, Category
<1>5. IsContext(Context(l, o, n))
  BY <1>4 DEF IsContext, Context, Name
<1>6. /\ EnvironmentName(l, o, n) \in Name \cup {Error}
      /\ EnvironmentUrl(l, o, n) \in Text \cup {Error}
  BY <1>1, <1>2, <1>3, <1>5, ValueType, MandatoryType DEF EnvironmentName, EnvironmentUrl
<1>7. VersionName(l, o, n) \in Text \cup {Error}
  BY <1>1, <1>2, <1>3, ValueType, WithoutContext DEF VersionName
<1>. QED  BY <1>4, <1>5, <1>6, <1>7

LEMMA AttributeParts ==
  ASSUME NEW l, IsListener(l), NEW o \in Owner, NEW n \in Namespace
  PROVE  /\ EnvironmentAttributes(l, o, n) = Error <=> AttributesFail(l.attributes, o, n)
         /\ DeploymentAttributes(l, o, n) = Error <=> AttributesFail(l.deployAttributes, o, n)
         /\ ~AttributesFail(l.attributes, o, n) =>
              \E names \in SUBSET Attributes : EnvironmentAttributes(l, o, n) \in Sent(names)
         /\ ~AttributesFail(l.deployAttributes, o, n) =>
              \E names \in SUBSET Attributes : DeploymentAttributes(l, o, n) \in Sent(names)
<1>1. /\ o.env \in Values /\ o.deploy \in Values
      /\ n.env \in Values /\ n.deploy \in Values
  BY DEF Owner, Namespace
<1>2. \A names \in SUBSET Attributes : Error \notin Sent(names)
  BY ExtractionAssumption
<1>3. ~AttributesFail(l.attributes, o, n) =>
        \E names \in SUBSET Attributes : EnvironmentAttributes(l, o, n) \in Sent(names)
  BY <1>1, AttributesFit DEF EnvironmentAttributes, IsListener
<1>4. ~AttributesFail(l.deployAttributes, o, n) =>
        \E names \in SUBSET Attributes : DeploymentAttributes(l, o, n) \in Sent(names)
  BY <1>1, AttributesFit DEF DeploymentAttributes, IsListener
<1>5. EnvironmentAttributes(l, o, n) = Error <=> AttributesFail(l.attributes, o, n)
  BY <1>2, <1>3 DEF EnvironmentAttributes
<1>6. DeploymentAttributes(l, o, n) = Error <=> AttributesFail(l.deployAttributes, o, n)
  BY <1>2, <1>4 DEF DeploymentAttributes
<1>. QED  BY <1>3, <1>4, <1>5, <1>6

\* A deployment fails with its version or with one of its attributes.
LEMMA DeploymentPart ==
  ASSUME NEW l, IsListener(l), NEW o \in Owner, NEW n \in Namespace
  PROVE  LET failed == /\ ~l.ignoreDeployment
                       /\ \/ VersionName(l, o, n) = Error
                          \/ DeploymentAttributes(l, o, n) = Error
         IN  /\ Deployment(l, o, n) = Error <=> failed
             /\ ~failed => \E names \in SUBSET Attributes :
                             Deployment(l, o, n) \in DeploymentInfo(names) \cup {NoDeployment}
<1>. DEFINE version == VersionName(l, o, n)
            attributes == DeploymentAttributes(l, o, n)
            parts == [version |-> version, attributes |-> attributes]
<1>1. NoDeployment # Error
  BY ExtractionAssumption
<1>2. CASE l.ignoreDeployment
  <2>1. Deployment(l, o, n) = NoDeployment
    BY <1>2 DEF Deployment
  <2>2. {} \in SUBSET Attributes
    OBVIOUS
  <2>. QED  BY <1>1, <1>2, <2>1, <2>2
<1>3. ASSUME ~l.ignoreDeployment
      PROVE  Deployment(l, o, n) = OrError(parts)
  BY <1>3 DEF Deployment
<1>4. DOMAIN parts = {"version", "attributes"} /\ parts.version = version
      /\ parts.attributes = attributes
  OBVIOUS
<1>5. CASE ~l.ignoreDeployment /\ (version = Error \/ attributes = Error)
  <2>. HIDE DEF parts, version, attributes
  <2>1. OrError(parts) = Error
    BY <1>4, <1>5 DEF OrError
  <2>. QED  BY <1>3, <1>5, <2>1 DEF version, attributes
<1>6. CASE ~l.ignoreDeployment /\ version # Error /\ attributes # Error
  <2>1. version \in Text
    BY <1>6, TextParts
  <2>2. PICK names \in SUBSET Attributes : attributes \in Sent(names)
    BY <1>6, AttributeParts
  <2>. HIDE DEF version, attributes
  <2>3. parts \in DeploymentInfo(names)
    BY <2>1, <2>2 DEF DeploymentInfo
  <2>4. parts # Error
    BY <2>3, ExtractionAssumption
  <2>. HIDE DEF parts
  <2>5. OrError(parts) = parts
    BY <1>4, <1>6 DEF OrError
  <2>. QED  BY <1>3, <1>6, <2>3, <2>4, <2>5 DEF version, attributes
<1>. QED  BY <1>2, <1>5, <1>6

\* What the comparison with the cache is reached with names its environment,
\* and all its attributes fit (handler.go:155-232).
THEOREM ExtractFits ==
  ASSUME NEW l, AreAttributes(l.attributes), AreAttributes(l.deployAttributes),
         NEW mapping, NEW o \in Owner, NEW n \in Namespace,
         NEW p, p = Extract(l, mapping, o, n), p # Error
  PROVE  /\ << >> \notin {p.app, p.cat, p.env}
         /\ \A a \in DOMAIN p.attributes : Len(p.attributes[a]) <= MaxAttributeValueSize
         /\ p.deployment # NoDeployment =>
              \A a \in DOMAIN p.deployment.attributes :
                 Len(p.deployment.attributes[a]) <= MaxAttributeValueSize
<1>1. \A text : Mandatory(text) # << >>
  <2>1. << >> # Error
    BY ExtractionAssumption, EmptySeq DEF Text
  <2>. QED  BY <2>1 DEF Mandatory
<1>2. /\ p.app = Application(l, o, n) /\ p.cat = Category(l, o, n)
      /\ p.env = EnvironmentName(l, o, n)
      /\ p.attributes = EnvironmentAttributes(l, o, n) /\ p.attributes # Error
      /\ p.deployment = Deployment(l, o, n) /\ p.deployment # Error
  <2>. DEFINE parts == [app |-> Application(l, o, n),
                        cat |-> Category(l, o, n),
                        env |-> EnvironmentName(l, o, n),
                        url |-> EnvironmentUrl(l, o, n),
                        attributes |-> EnvironmentAttributes(l, o, n),
                        deployment |-> Deployment(l, o, n),
                        status |-> Status(mapping, o)]
  <2>1. p = OrError(parts)
    BY DEF Extract
  <2>2. p = parts /\ \A part \in DOMAIN parts : parts[part] # Error
    BY <2>1 DEF OrError
  <2>. QED  BY <2>2
<1>3. << >> \notin {p.app, p.cat, p.env}
  BY <1>1, <1>2 DEF Application, Category, EnvironmentName
<1>4. /\ o.env \in Values /\ o.deploy \in Values
      /\ n.env \in Values /\ n.deploy \in Values
  BY DEF Owner, Namespace
<1>5. \A a \in DOMAIN p.attributes : Len(p.attributes[a]) <= MaxAttributeValueSize
  <2>1. /\ ~AttributesFail(l.attributes, o, n)
        /\ p.attributes = TruncateAll(AttributeTexts(l.attributes, o.env, n.env, o, n),
                                      o.env, n.env)
    BY <1>2 DEF EnvironmentAttributes
  <2>. QED  BY <1>4, <2>1, AttributesFit
<1>6. ASSUME p.deployment # NoDeployment
      PROVE  \A a \in DOMAIN p.deployment.attributes :
               Len(p.deployment.attributes[a]) <= MaxAttributeValueSize
  <2>. DEFINE parts == [version |-> VersionName(l, o, n),
                        attributes |-> DeploymentAttributes(l, o, n)]
  <2>1. p.deployment = OrError(parts)
    BY <1>2, <1>6 DEF Deployment
  <2>2. p.deployment = parts /\ \A part \in DOMAIN parts : parts[part] # Error
    BY <1>2, <2>1 DEF OrError
  <2>3. /\ p.deployment.attributes = DeploymentAttributes(l, o, n)
        /\ p.deployment.attributes # Error
    BY <2>2
  <2>4. /\ ~AttributesFail(l.deployAttributes, o, n)
        /\ p.deployment.attributes =
             TruncateAll(AttributeTexts(l.deployAttributes, o.deploy, n.deploy, o, n),
                         o.deploy, n.deploy)
    BY <2>3 DEF DeploymentAttributes
  <2>. QED  BY <1>4, <2>4, AttributesFit
<1>. QED  BY <1>3, <1>5, <1>6

PayloadsAreNot(error, mapping) ==
    /\ error \notin Range(mapping)
    /\ \A names, deployNames \in SUBSET Attributes :
          error \notin Payload(Range(mapping), names, deployNames)

\* The extraction fails exactly when one of its parts does, and otherwise it is
\* a payload: names that are not empty, texts, attributes (handler.go:155-232).
THEOREM ExtractType ==
  ASSUME NEW l, IsListener(l), NEW mapping, PayloadsAreNot(Error, mapping),
         NEW o \in Owner, NEW n \in Namespace
  PROVE  LET failed == \/ Application(l, o, n) = Error \/ Category(l, o, n) = Error
                       \/ EnvironmentName(l, o, n) = Error
                       \/ EnvironmentUrl(l, o, n) = Error
                       \/ EnvironmentAttributes(l, o, n) = Error
                       \/ Deployment(l, o, n) = Error
             p == Extract(l, mapping, o, n)
         IN  /\ p = Error <=> failed
             /\ ~failed =>
                  /\ p.app = Application(l, o, n) /\ p.cat = Category(l, o, n)
                  /\ p.env = EnvironmentName(l, o, n) /\ p.url = EnvironmentUrl(l, o, n)
                  /\ p.attributes = EnvironmentAttributes(l, o, n)
                  /\ p.deployment = Deployment(l, o, n) /\ p.status = Status(mapping, o)
                  /\ \E names, deployNames \in SUBSET Attributes :
                       p \in Payload(Range(mapping), names, deployNames)
<1>. DEFINE app == Application(l, o, n)
            cat == Category(l, o, n)
            env == EnvironmentName(l, o, n)
            url == EnvironmentUrl(l, o, n)
            attributes == EnvironmentAttributes(l, o, n)
            deployment == Deployment(l, o, n)
            status == Status(mapping, o)
            parts == [app |-> app, cat |-> cat, env |-> env, url |-> url,
                      attributes |-> attributes, deployment |-> deployment, status |-> status]
            failed == \/ app = Error \/ cat = Error \/ env = Error \/ url = Error
                      \/ attributes = Error \/ deployment = Error
<1>1. Extract(l, mapping, o, n) = OrError(parts)
  BY DEF Extract
<1>2. status \in Range(mapping) \cup {NoStatus} /\ status # Error
  BY ExtractionAssumption DEF Status, Range, PayloadsAreNot
<1>3. /\ app \in Name \cup {Error} /\ cat \in Name \cup {Error} /\ env \in Name \cup {Error}
      /\ url \in Text \cup {Error}
  BY TextParts
<1>4. attributes # Error => \E names \in SUBSET Attributes : attributes \in Sent(names)
  BY AttributeParts
<1>5. deployment # Error =>
        \E names \in SUBSET Attributes : deployment \in DeploymentInfo(names) \cup {NoDeployment}
  BY DeploymentPart
<1>. HIDE DEF app, cat, env, url, attributes, deployment, status
<1>6. /\ DOMAIN parts = {"app", "cat", "env", "url", "attributes", "deployment", "status"}
      /\ parts.app = app /\ parts.cat = cat /\ parts.env = env /\ parts.url = url
      /\ parts.attributes = attributes /\ parts.deployment = deployment
      /\ parts.status = status
  OBVIOUS
<1>7. (\E part \in DOMAIN parts : parts[part] = Error) <=> failed
  <2>. HIDE DEF parts
  <2>. QED  BY <1>2, <1>6
<1>8. ASSUME ~failed
      PROVE  /\ parts # Error
             /\ \E names, deployNames \in SUBSET Attributes :
                  parts \in Payload(Range(mapping), names, deployNames)
  <2>1. PICK names \in SUBSET Attributes : attributes \in Sent(names)
    BY <1>4, <1>8
  <2>2. PICK deployNames \in SUBSET Attributes :
          deployment \in DeploymentInfo(deployNames) \cup {NoDeployment}
    BY <1>5, <1>8
  <2>3. parts \in Payload(Range(mapping), names, deployNames)
    BY <1>2, <1>3, <1>8, <2>1, <2>2 DEF Payload
  <2>. QED  BY <2>3 DEF PayloadsAreNot
<1>. HIDE DEF parts, failed
<1>9. CASE failed
  <2>1. OrError(parts) = Error
    BY <1>7, <1>9 DEF OrError
  <2>. QED  BY <1>1, <1>9, <2>1 DEF failed, app, cat, env, url, attributes, deployment
<1>10. CASE ~failed
  <2>1. OrError(parts) = parts
    BY <1>7, <1>10 DEF OrError
  <2>. QED
    BY <1>1, <1>6, <1>8, <1>10, <2>1
    DEF failed, app, cat, env, url, attributes, deployment, status
<1>. QED  BY <1>9, <1>10
-----------------------------------------------------------------------------
(* A listener without templates *)

\* It needs the image for the name of an application that is not labelled, and
\* for the name of a version that is not labelled; nothing else can fail
\* (handler.go:360-390, utils.go:45-56).
THEOREM DefaultsFail ==
  ASSUME NEW l, IsListener(l),
         l.app = NoTemplate, l.cat = NoTemplate, l.env = NoTemplate, l.url = NoTemplate,
         l.version = NoTemplate, l.attributes = << >>, l.deployAttributes = << >>,
         NEW mapping, PayloadsAreNot(Error, mapping), NEW o \in Owner, NEW n \in Namespace
  PROVE  LET Labelled(key) == o.label[key] # << >> \/ o.annotation[key] # << >>
         IN  Extract(l, mapping, o, n) = Error <=>
                \/ ~Labelled("app") /\ MainImage(o, "name") \in {<< >>, Error}
                \/ /\ ~l.ignoreDeployment /\ ~Labelled("version")
                   /\ MainImage(o, "tag") = Error
<1>. DEFINE Labelled(key) == o.label[key] # << >> \/ o.annotation[key] # << >>
<1>1. /\ {"app", "cat", "environment", "url", "version"} \subseteq Keys
      /\ {"mainImageName", "mainImageTag"} \subseteq OfNothing
  BY ExtractionAssumption DEF OfNothing
<1>2. \A key \in Keys : IsKey(key) /\ o.label[key] \in Text /\ o.annotation[key] \in Text
  BY DEF IsKey, Owner, Map
<1>3. /\ CallOf("mainImageName", o, n, "app") = MainImage(o, "name")
      /\ CallOf("mainImageTag", o, n, "version") = MainImage(o, "tag")
  BY DEF CallOf, Call
<1>4. Application(l, o, n) = Error <=>
        ~Labelled("app") /\ MainImage(o, "name") \in {<< >>, Error}
  <2>. DEFINE value == FirstOf(Defaults(OwnerChain("mainImageName"), o, n, "app"))
  <2>1. value = IF o.label["app"] # << >> THEN o.label["app"]
                ELSE IF o.annotation["app"] # << >> THEN o.annotation["app"]
                ELSE MainImage(o, "name")
    BY <1>1, <1>3, OwnerChainYields
  <2>2. MainImage(o, "name") \in Text \cup {Error}
    BY ImageType
  <2>3. Application(l, o, n) = Mandatory(value)
    BY DEF Application, Value
  <2>. HIDE DEF value
  <2>4. o.label["app"] \in Text /\ o.annotation["app"] \in Text /\ Error \notin Text
    BY <1>1, <1>2, ExtractionAssumption
  <2>5. Mandatory(value) = Error <=> value \in {<< >>, Error}
    BY <2>1, <2>2, <2>4, MandatoryType
  <2>. QED  BY <2>1, <2>3, <2>4, <2>5
<1>5. VersionName(l, o, n) = Error <=> ~Labelled("version") /\ MainImage(o, "tag") = Error
  <2>. DEFINE value == FirstOf(Defaults(OwnerChain("mainImageTag"), o, n, "version"))
  <2>1. value = IF o.label["version"] # << >> THEN o.label["version"]
                ELSE IF o.annotation["version"] # << >> THEN o.annotation["version"]
                ELSE MainImage(o, "tag")
    BY <1>1, <1>3, OwnerChainYields
  <2>2. VersionName(l, o, n) = value
    BY DEF VersionName, Value
  <2>. HIDE DEF value
  <2>3. /\ o.label["version"] \in Text /\ o.annotation["version"] \in Text
        /\ << >> # Error /\ Error \notin Text
    BY <1>1, <1>2, ExtractionAssumption, EmptyIsText
  <2>. QED  BY <2>1, <2>2, <2>3
<1>6. Category(l, o, n) # Error /\ EnvironmentName(l, o, n) # Error
  <2>. DEFINE cat == FirstOf(Defaults(NamespaceChain("nsName"), o, n, "cat"))
              env == FirstOf(Defaults(NamespaceChain("name"), o, n, "environment"))
  <2>1. cat \in Name /\ env \in Name
    BY <1>1, <1>2, NamespaceChainYields
  <2>2. Category(l, o, n) = Mandatory(cat) /\ EnvironmentName(l, o, n) = Mandatory(env)
    BY DEF Category, EnvironmentName, Value
  <2>. HIDE DEF cat, env
  <2>3. Error \notin Text
    BY ExtractionAssumption
  <2>. QED  BY <2>1, <2>2, <2>3 DEF Mandatory, Name
<1>7. EnvironmentUrl(l, o, n) # Error
  <2>. DEFINE texts == Defaults(UrlChain, o, n, "url")
  <2>1. IsKey("url") /\ UrlChain \in Seq(OfNothing) /\ Len(UrlChain) = 4
    BY <1>1, <1>2, Chains
  <2>2. DOMAIN texts = 1..4 /\ \A i \in 1..4 : texts[i] = CallOf(UrlChain[i], o, n, "url")
    BY <2>1, DefaultsAre
  <2>3. \A i \in 1..4 : UrlChain[i] \in {"defaultLabel", "defaultAnnotation",
                                         "nsDefaultLabel", "nsDefaultAnnotation"}
    BY DEF UrlChain
  <2>4. \A i \in 1..4 : texts[i] \in Text
    BY <2>1, <2>2, <2>3, LabelsAreTexts
  <2>5. FirstOf(texts) \in Text
    BY <2>2, <2>4, FirstText
  <2>6. EnvironmentUrl(l, o, n) = FirstOf(texts)
    BY DEF EnvironmentUrl, Value
  <2>. QED  BY <2>5, <2>6, ExtractionAssumption
<1>8. EnvironmentAttributes(l, o, n) # Error /\ DeploymentAttributes(l, o, n) # Error
  <2>1. ~AttributesFail(<< >>, o, n)
    BY DEF AttributesFail
  <2>. QED  BY <2>1, AttributeParts
<1>9. Deployment(l, o, n) = Error <=> ~l.ignoreDeployment /\ VersionName(l, o, n) = Error
  BY <1>8, DeploymentPart
<1>. HIDE DEF Labelled
<1>10. Extract(l, mapping, o, n) = Error <=>
         Application(l, o, n) = Error \/ Deployment(l, o, n) = Error
  BY <1>6, <1>7, <1>8, ExtractType
<1>. QED  BY <1>4, <1>5, <1>9, <1>10 DEF Labelled
=============================================================================
