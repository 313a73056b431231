------------------------- MODULE PhoneNumber_proofs -------------------------
(***************************************************************************)
(* What holds of the number a session reads, for targets of any length.     *)
(* A match of the pattern is described by the places where its parts end    *)
(* (Read).  They are determined by where the digits are, so there is one    *)
(* reading; and counting the digits up to each place ties them to the rules *)
(* for a caller and to the digits of the target.                            *)
(***************************************************************************)
EXTENDS PhoneNumber, SequenceTheorems, WellFoundedInduction, TLAPS

-----------------------------------------------------------------------------
(* Induction, over a set of numbers *)

LEMMA LeastNumber ==
    ASSUME NEW T, T \subseteq Nat, T # {}
    PROVE  \E n \in T : \A m \in T : n <= m
<1>1. PICK n \in T : \A m \in T : ~(<<m, n>> \in OpToRel(<, Nat))
    BY NatLessThanWellFounded, WFMin
<1>2. \A m \in T : ~(m < n)
    BY <1>1 DEF OpToRel
<1> QED BY <1>2

LEMMA Induction ==
    ASSUME NEW T, 0 \in T, \A n \in Nat : n \in T => n + 1 \in T
    PROVE  \A n \in Nat : n \in T
<1> SUFFICES ASSUME NEW k \in Nat, k \notin T PROVE FALSE
    OBVIOUS
<1>1. PICK n \in Nat \ T : \A m \in Nat \ T : n <= m
    BY LeastNumber
<1>2. n # 0 /\ n - 1 \in Nat /\ n - 1 \notin Nat \ T
    BY <1>1
<1> QED BY <1>1, <1>2

-----------------------------------------------------------------------------
(* The functions of the model satisfy their recursive definitions *)

\* The tokens of a decoded target.
Char == (Token \ {"%20"}) \cup {"SP"}

LEMMA DigitsInIs ==
    ASSUME NEW str \in Seq(Token)
    PROVE  /\ DigitsIn(str)[0] = <<>>
           /\ \A i \in 1 .. Len(str) :
                DigitsIn(str)[i] = IF str[i] \in Digit THEN Append(DigitsIn(str)[i - 1], str[i])
                                   ELSE DigitsIn(str)[i - 1]
<1> DEFINE Body(g, i) == IF i = 0 THEN <<>>
                         ELSE IF str[i] \in Digit THEN Append(g[i - 1], str[i])
                         ELSE g[i - 1]
           Is(g, n) == g = [i \in 0 .. n |-> Body(g, i)]
           T == {n \in Nat : \E g : Is(g, n)}
<1>1. 0 \in T
    <2>1. Is([i \in 0 .. 0 |-> <<>>], 0)
        OBVIOUS
    <2> QED BY <2>1
<1>2. ASSUME NEW n \in Nat, n \in T PROVE n + 1 \in T
    <2>1. PICK g : Is(g, n)
        BY <1>2
    <2>2. \A i \in 0 .. n : g[i] = Body(g, i)
        <3> HIDE DEF Body
        <3> QED BY <2>1
    <2> DEFINE h == [i \in 0 .. n + 1 |-> IF i = n + 1 THEN Body(g, n + 1) ELSE g[i]]
    <2>3. ASSUME NEW i \in 0 .. n + 1 PROVE h[i] = Body(h, i)
        <3>1. i = 0 \/ (i - 1 \in 0 .. n /\ h[i - 1] = g[i - 1])
            OBVIOUS
        <3>2. Body(h, i) = Body(g, i)
            BY <3>1
        <3>3. h[i] = Body(g, i)
            <4> HIDE DEF Body
            <4> QED BY <2>2
        <3> QED BY <3>2, <3>3
    <2>4. Is(h, n + 1)
        <3> HIDE DEF Body
        <3> QED BY <2>3
    <2> HIDE DEF h, Is
    <2> QED BY <2>4
<1>3. Len(str) \in Nat
    OBVIOUS
<1>4. Len(str) \in T
    <2> HIDE DEF T
    <2> QED BY <1>1, <1>2, <1>3, Induction
<1>5. Is(DigitsIn(str), Len(str))
    BY <1>4 DEF DigitsIn
<1>6. \A i \in 0 .. Len(str) : DigitsIn(str)[i] = Body(DigitsIn(str), i)
    <2> HIDE DEF Body
    <2> QED BY <1>5
<1> QED BY <1>3, <1>6

LEMMA ReadingsAfterIs ==
    ASSUME NEW s \in Seq(Char), NEW code \in Code
    PROVE  /\ ReadingsAfter(s, code)[0] = {Begun}
           /\ \A i \in 1 .. 11 :
                ReadingsAfter(s, code)[i] =
                  UNION {Extended(s, r, Pattern(code)[i]) :
                           r \in ReadingsAfter(s, code)[i - 1]}
<1> DEFINE Body(g, i) == IF i = 0 THEN {Begun}
                         ELSE UNION {Extended(s, r, Pattern(code)[i]) : r \in g[i - 1]}
           Is(g, n) == g = [i \in 0 .. n |-> Body(g, i)]
           T == {n \in Nat : \E g : Is(g, n)}
<1>1. 0 \in T
    <2>1. Is([i \in 0 .. 0 |-> {Begun}], 0)
        OBVIOUS
    <2> QED BY <2>1
<1>2. ASSUME NEW n \in Nat, n \in T PROVE n + 1 \in T
    <2>1. PICK g : Is(g, n)
        BY <1>2
    <2>2. \A i \in 0 .. n : g[i] = Body(g, i)
        <3> HIDE DEF Body
        <3> QED BY <2>1
    <2> DEFINE h == [i \in 0 .. n + 1 |-> IF i = n + 1 THEN Body(g, n + 1) ELSE g[i]]
    <2>3. ASSUME NEW i \in 0 .. n + 1 PROVE h[i] = Body(h, i)
        <3>1. i = 0 \/ (i - 1 \in 0 .. n /\ h[i - 1] = g[i - 1])
            OBVIOUS
        <3>2. Body(h, i) = Body(g, i)
            BY <3>1
        <3>3. h[i] = Body(g, i)
            <4> HIDE DEF Body
            <4> QED BY <2>2
        <3> QED BY <3>2, <3>3
    <2>4. Is(h, n + 1)
        <3> HIDE DEF Body
        <3> QED BY <2>3
    <2> HIDE DEF h, Is
    <2> QED BY <2>4
<1>3. 11 \in T
    <2> HIDE DEF T
    <2> QED BY <1>1, <1>2, Induction
<1>4. Is(ReadingsAfter(s, code), 11)
    BY <1>3 DEF ReadingsAfter
<1>5. \A i \in 0 .. 11 : ReadingsAfter(s, code)[i] = Body(ReadingsAfter(s, code), i)
    <2> HIDE DEF Body
    <2> QED BY <1>4
<1> QED BY <1>5

-----------------------------------------------------------------------------
(* Matching, item by item *)

Filled(s, i, j, class) == \A k \in i .. j : s[k] \in class

\* The first i items of the pattern can match up to the place to, with groups g.
Reached(s, code, i, to, g) ==
    [read |-> to, groups |-> g] \in ReadingsAfter(s, code)[i]

\* Behind the place from, up to to, every token is of the class.
Span(s, class, from, to) ==
    from \in 0 .. to /\ to \in 0 .. Len(s) /\ Filled(s, from + 1, to, class)

Captured(s, h, from, to) == Append(h, SubSeq(s, from + 1, to))

\* The item matches from one place to the other, and makes of the groups h the groups g.
Taken(s, item, from, to, g, h) ==
    /\ Span(s, item.class, from, to)
    /\ to - from \in item.lengths
    /\ g = IF item.captured THEN Captured(s, h, from, to) ELSE h

LEMMA ReadingsAreRecords ==
    ASSUME NEW s \in Seq(Char), NEW code \in Code, NEW i \in 0 .. 11,
           NEW r \in ReadingsAfter(s, code)[i]
    PROVE  r.read \in 0 .. Len(s) /\ r = [read |-> r.read, groups |-> r.groups]
<1> DEFINE T == {k \in Nat : k <= 11 => \A q \in ReadingsAfter(s, code)[k] :
                   q.read \in 0 .. Len(s) /\ q = [read |-> q.read, groups |-> q.groups]}
<1>1. 0 \in T
    BY ReadingsAfterIs DEF Begun
<1>2. ASSUME NEW k \in Nat, k \in T PROVE k + 1 \in T
    <2> SUFFICES ASSUME k + 1 <= 11, NEW q \in ReadingsAfter(s, code)[k + 1]
                 PROVE  q.read \in 0 .. Len(s) /\ q = [read |-> q.read, groups |-> q.groups]
        OBVIOUS
    <2>1. PICK p \in ReadingsAfter(s, code)[k] : q \in Extended(s, p, Pattern(code)[k + 1])
        <3>1. k + 1 \in 1 .. 11 /\ (k + 1) - 1 = k
            OBVIOUS
        <3>2. ReadingsAfter(s, code)[k + 1] =
                UNION {Extended(s, p, Pattern(code)[k + 1]) : p \in ReadingsAfter(s, code)[k]}
            BY <3>1, ReadingsAfterIs
        <3> QED BY <3>2
    <2>2. p.read \in 0 .. Len(s)
        BY <1>2
    <2>3. PICK to \in p.read .. Len(s) : \E g : q = [read |-> to, groups |-> g]
        BY <2>1 DEF Extended
    <2>4. PICK g : q = [read |-> to, groups |-> g]
        BY <2>3
    <2> QED BY <2>2, <2>4
<1>3. i \in T
    <2> HIDE DEF T
    <2> QED BY <1>1, <1>2, Induction
<1> QED BY <1>3

LEMMA TakenIs ==
    ASSUME NEW s \in Seq(Char), NEW item, NEW q, q.read \in 0 .. Len(s), NEW to, NEW g
    PROVE  [read |-> to, groups |-> g] \in Extended(s, q, item) <=>
             Taken(s, item, q.read, to, g, q.groups)
<1> DEFINE r == [read |-> to, groups |-> g]
           Step(e) == [read |-> e,
                       groups |-> IF item.captured
                                  THEN Append(q.groups, SubSeq(s, q.read + 1, e))
                                  ELSE q.groups]
<1>1. r \in Extended(s, q, item) <=>
        \E e \in q.read .. Len(s) : /\ e - q.read \in item.lengths
                                   /\ Filled(s, q.read + 1, e, item.class)
                                   /\ r = Step(e)
    BY Zenon DEF Extended, Filled
<1>2. ASSUME NEW e
      PROVE  r = Step(e) <=>
               e = to /\ g = IF item.captured THEN Append(q.groups, SubSeq(s, q.read + 1, to))
                             ELSE q.groups
    OBVIOUS
<1>3. to \in q.read .. Len(s) <=> q.read \in 0 .. to /\ to \in 0 .. Len(s)
    OBVIOUS
<1> QED BY <1>1, <1>2, <1>3 DEF Taken, Span, Captured

LEMMA Reach ==
    ASSUME NEW s \in Seq(Char), NEW code \in Code, NEW i \in 1 .. 11, NEW to, NEW g
    PROVE  Reached(s, code, i, to, g) <=>
             \E from, h : /\ Reached(s, code, i - 1, from, h)
                          /\ Taken(s, Pattern(code)[i], from, to, g, h)
<1> DEFINE item == Pattern(code)[i]
<1>1. ASSUME Reached(s, code, i, to, g)
      PROVE  \E from, h : Reached(s, code, i - 1, from, h) /\ Taken(s, item, from, to, g, h)
    <2>1. PICK q \in ReadingsAfter(s, code)[i - 1] :
                 [read |-> to, groups |-> g] \in Extended(s, q, item)
        BY <1>1, ReadingsAfterIs DEF Reached
    <2>2. q.read \in 0 .. Len(s) /\ q = [read |-> q.read, groups |-> q.groups]
        BY ReadingsAreRecords
    <2>3. Reached(s, code, i - 1, q.read, q.groups)
        BY <2>2 DEF Reached
    <2> QED BY <2>1, <2>2, <2>3, TakenIs
<1>2. ASSUME NEW from, NEW h, Reached(s, code, i - 1, from, h), Taken(s, item, from, to, g, h)
      PROVE  Reached(s, code, i, to, g)
    <2> DEFINE q == [read |-> from, groups |-> h]
    <2>1. q \in ReadingsAfter(s, code)[i - 1] /\ q.read = from /\ q.groups = h
        BY <1>2 DEF Reached
    <2>2. q.read \in 0 .. Len(s)
        BY <2>1, ReadingsAreRecords
    <2>3. [read |-> to, groups |-> g] \in Extended(s, q, item)
        BY <1>2, <2>1, <2>2, TakenIs
    <2> QED BY <2>1, <2>3, ReadingsAfterIs DEF Reached
<1> QED BY <1>1, <1>2

\* The country code in the target and left out.
Given == << Item({"+"}, {0, 1}, FALSE), Group(1) >>
Absent == << Item({}, {0}, FALSE), Item({}, {0}, TRUE) >>

LEMMA ItemsOfPattern ==
    ASSUME NEW code
    PROVE  /\ Pattern(code)[1] = Item({"/"}, {1}, FALSE)
           /\ Pattern(code)[2] = Star({"SP"})
           /\ Pattern(code)[3] = code[1]
           /\ Pattern(code)[4] = code[2]
           /\ Pattern(code)[5] = Star({"-", "SP", "("})
           /\ Pattern(code)[6] = Group(3)
           /\ Pattern(code)[7] = Star({"-", "SP", ")"})
           /\ Pattern(code)[8] = Group(3)
           /\ Pattern(code)[9] = Star({"-", "SP"})
           /\ Pattern(code)[10] = Group(4)
           /\ Pattern(code)[11] = Star({"SP"})
BY DEF Pattern

ReachedBy(s, code, i, j, item) ==
    \A to, g : Reached(s, code, i, to, g) <=>
                 \E from, h : Reached(s, code, j, from, h) /\ Taken(s, item, from, to, g, h)

LEMMA Reaching ==
    ASSUME NEW s \in Seq(Char), NEW code \in Code
    PROVE  /\ ReachedBy(s, code, 1, 0, Item({"/"}, {1}, FALSE))
           /\ ReachedBy(s, code, 2, 1, Star({"SP"}))
           /\ ReachedBy(s, code, 3, 2, code[1])
           /\ ReachedBy(s, code, 4, 3, code[2])
           /\ ReachedBy(s, code, 5, 4, Star({"-", "SP", "("}))
           /\ ReachedBy(s, code, 6, 5, Group(3))
           /\ ReachedBy(s, code, 7, 6, Star({"-", "SP", ")"}))
           /\ ReachedBy(s, code, 8, 7, Group(3))
           /\ ReachedBy(s, code, 9, 8, Star({"-", "SP"}))
           /\ ReachedBy(s, code, 10, 9, Group(4))
           /\ ReachedBy(s, code, 11, 10, Star({"SP"}))
<1> DEFINE By(i, j) == ReachedBy(s, code, i, j, Pattern(code)[i])
<1>1. ASSUME NEW i \in 1 .. 11, NEW j, j = i - 1
      PROVE  By(i, j)
    BY <1>1, Reach DEF ReachedBy
<1>2. /\ By(1, 0) /\ By(2, 1) /\ By(3, 2) /\ By(4, 3) /\ By(5, 4) /\ By(6, 5)
      /\ By(7, 6) /\ By(8, 7) /\ By(9, 8) /\ By(10, 9) /\ By(11, 10)
    <2> HIDE DEF By
    <2> QED BY <1>1
<1> QED BY <1>2, ItemsOfPattern, Zenon

LEMMA AppendToEmpty == ASSUME NEW x PROVE Append(<<>>, x) = <<x>>
OBVIOUS

LEMMA TakenStar ==
    ASSUME NEW s \in Seq(Char), NEW class, NEW from, NEW to, NEW g, NEW h
    PROVE  Taken(s, Star(class), from, to, g, h) <=> Span(s, class, from, to) /\ g = h
BY DEF Taken, Star, Item, Span

LEMMA TakenGroup ==
    ASSUME NEW s \in Seq(Char), NEW n \in Nat, NEW from, NEW to, NEW g, NEW h
    PROVE  Taken(s, Group(n), from, to, g, h) <=>
             /\ Span(s, Digit, from, to) /\ to = from + n
             /\ g = Captured(s, h, from, to)
<1>1. /\ Group(n).class = Digit /\ Group(n).lengths = {n}
      /\ Group(n).captured = TRUE
    BY DEF Group, Item
<1>2. Taken(s, Group(n), from, to, g, h) <=>
        /\ Span(s, Digit, from, to) /\ to - from \in {n}
        /\ g = Captured(s, h, from, to)
    BY <1>1, Zenon DEF Taken
<1>3. ASSUME Span(s, Digit, from, to)
      PROVE  to - from \in {n} <=> to = from + n
    BY <1>3 DEF Span
<1> QED BY <1>2, <1>3

\* The readings of the first i items are those that end in E, and all have groups f.
ReachedIn(s, code, i, E, f) ==
    \A to, g : Reached(s, code, i, to, g) <=> to \in E /\ g = f

LEMMA FromThere ==
    ASSUME NEW s, NEW code, NEW i, NEW j, NEW item, ReachedBy(s, code, i, j, item),
           NEW E, NEW f, ReachedIn(s, code, j, E, f), NEW to, NEW g
    PROVE  Reached(s, code, i, to, g) <=> \E e \in E : Taken(s, item, e, to, g, f)
<1>1. ASSUME Reached(s, code, i, to, g)
      PROVE  \E e \in E : Taken(s, item, e, to, g, f)
    <2>1. PICK e, h : Reached(s, code, j, e, h) /\ Taken(s, item, e, to, g, h)
        BY <1>1 DEF ReachedBy
    <2>2. e \in E /\ h = f
        BY <2>1 DEF ReachedIn
    <2> QED BY <2>1, <2>2
<1>2. ASSUME NEW e \in E, Taken(s, item, e, to, g, f)
      PROVE  Reached(s, code, i, to, g)
    <2>1. Reached(s, code, j, e, f)
        BY DEF ReachedIn
    <2> QED BY <1>2, <2>1 DEF ReachedBy
<1> QED BY <1>1, <1>2

\* Where the slash and the blanks behind it may end, and where a country code stands.
Slash(s) == {e \in 1 .. Len(s) : s[1] = "/" /\ Filled(s, 2, e, {"SP"})}

CodeAt(s) ==
    {c \in 2 .. Len(s) :
       /\ s[1] = "/" /\ s[c] \in Digit
       /\ \A k \in 2 .. c - 1 : s[k] = "SP" \/ (s[k] = "+" /\ k = c - 1)}

LEMMA AfterSlash ==
    ASSUME NEW s \in Seq(Char), NEW code \in Code
    PROVE  ReachedIn(s, code, 2, Slash(s), <<>>)
<1> DEFINE E == {e \in {1} : 1 <= Len(s) /\ s[1] = "/"}
<1>1. ReachedIn(s, code, 0, {0}, <<>>)
    BY ReadingsAfterIs DEF Reached, Begun, ReachedIn
<1>2. ReachedIn(s, code, 1, E, <<>>)
    <2> SUFFICES ASSUME NEW to, NEW g
                 PROVE  Reached(s, code, 1, to, g) <=> to \in E /\ g = <<>>
        BY DEF ReachedIn
    <2>1. Reached(s, code, 1, to, g) <=>
            \E e, h : /\ Reached(s, code, 0, e, h)
                     /\ Taken(s, Item({"/"}, {1}, FALSE), e, to, g, h)
        BY Reaching DEF ReachedBy
    <2>2. Reached(s, code, 1, to, g) <=> Taken(s, Item({"/"}, {1}, FALSE), 0, to, g, <<>>)
        <3>1. Reached(s, code, 0, 0, <<>>)
            BY <1>1 DEF ReachedIn
        <3>2. \A e, h : Reached(s, code, 0, e, h) => e = 0 /\ h = <<>>
            BY <1>1 DEF ReachedIn
        <3> QED BY <2>1, <3>1, <3>2
    <2> QED BY <2>2 DEF Taken, Item, Span, Filled
<1>3. ASSUME NEW to, NEW g
      PROVE  Reached(s, code, 2, to, g) <=> to \in Slash(s) /\ g = <<>>
    <2>1. Reached(s, code, 2, to, g) <=> \E e \in E : Taken(s, Star({"SP"}), e, to, g, <<>>)
        <3> HIDE DEF E
        <3> QED BY <1>2, Reaching, FromThere
    <2>2. Reached(s, code, 2, to, g) <=>
            1 <= Len(s) /\ s[1] = "/" /\ Taken(s, Star({"SP"}), 1, to, g, <<>>)
        BY <2>1
    <2> QED BY <2>2, TakenStar DEF Slash, Span
<1> QED BY <1>3 DEF ReachedIn

LEMMA AfterCode ==
    ASSUME NEW s \in Seq(Char), NEW to, NEW g
    PROVE  Reached(s, Given, 4, to, g) <=> to \in CodeAt(s) /\ g = << SubSeq(s, to, to) >>
<1>1. Given \in Code /\ Given[1] = Item({"+"}, {0, 1}, FALSE) /\ Given[2] = Group(1)
    BY DEF Given, Code
<1>2. /\ ReachedBy(s, Given, 3, 2, Item({"+"}, {0, 1}, FALSE))
      /\ ReachedBy(s, Given, 4, 3, Group(1))
    BY <1>1, Reaching
<1> DEFINE Plus == {e \in 2 .. Len(s) : e - 1 \in Slash(s) /\ s[e] = "+"}
<1>3. ReachedIn(s, Given, 3, Slash(s) \cup Plus, <<>>)
    <2> SUFFICES ASSUME NEW e, NEW h
                 PROVE  Reached(s, Given, 3, e, h) <=> e \in Slash(s) \cup Plus /\ h = <<>>
        BY DEF ReachedIn
    <2>1. Reached(s, Given, 3, e, h) <=>
            \E b \in Slash(s) : Taken(s, Item({"+"}, {0, 1}, FALSE), b, e, h, <<>>)
        BY <1>1, <1>2, AfterSlash, FromThere
    <2>2. ASSUME NEW b \in Slash(s)
          PROVE  Taken(s, Item({"+"}, {0, 1}, FALSE), b, e, h, <<>>) <=>
                   h = <<>> /\ (e = b \/ (e = b + 1 /\ e <= Len(s) /\ s[e] = "+"))
        BY DEF Taken, Item, Span, Filled, Slash
    <2>3. \A b \in Slash(s) : b \in 1 .. Len(s)
        BY DEF Slash
    <2>4. ASSUME Reached(s, Given, 3, e, h)
          PROVE  e \in Slash(s) \cup Plus /\ h = <<>>
        <3>1. PICK b \in Slash(s) : Taken(s, Item({"+"}, {0, 1}, FALSE), b, e, h, <<>>)
            BY <2>1, <2>4
        <3>2. h = <<>> /\ (e = b \/ (e = b + 1 /\ e <= Len(s) /\ s[e] = "+"))
            BY <3>1, <2>2
        <3> QED BY <3>2, <2>3
    <2>5. ASSUME e \in Plus, h = <<>>
          PROVE  Reached(s, Given, 3, e, h)
        <3>1. e - 1 \in Slash(s) /\ e = (e - 1) + 1 /\ e <= Len(s) /\ s[e] = "+"
            BY <2>5
        <3> QED BY <2>1, <2>2, <2>5, <3>1
    <2>6. ASSUME e \in Slash(s), h = <<>>
          PROVE  Reached(s, Given, 3, e, h)
        BY <2>1, <2>2, <2>6
    <2> HIDE DEF Plus
    <2> QED BY <2>4, <2>5, <2>6
<1>4. Reached(s, Given, 4, to, g) <=>
        \E e \in Slash(s) \cup Plus : Taken(s, Group(1), e, to, g, <<>>)
    <2> HIDE DEF Plus
    <2> QED BY <1>2, <1>3, FromThere
<1>5. ASSUME NEW e \in Nat
      PROVE  Taken(s, Group(1), e, to, g, <<>>) <=>
               to = e + 1 /\ to \in 1 .. Len(s) /\ s[to] \in Digit /\ g = << SubSeq(s, to, to) >>
    <2>1. Taken(s, Group(1), e, to, g, <<>>) <=>
            Span(s, Digit, e, to) /\ to = e + 1 /\ g = Captured(s, <<>>, e, to)
        BY TakenGroup
    <2>2. CASE to # e + 1
        BY <2>1, <2>2
    <2>3. CASE to = e + 1
        <3>1. Captured(s, <<>>, e, to) = << SubSeq(s, to, to) >>
            BY <2>3, AppendToEmpty DEF Captured
        <3>2. Span(s, Digit, e, to) <=> to \in 1 .. Len(s) /\ s[to] \in Digit
            BY <2>3 DEF Filled, Span
        <3> QED BY <2>1, <2>3, <3>1, <3>2, Zenon
    <2> QED BY <2>2, <2>3
<1>6. ASSUME to \in CodeAt(s), g = << SubSeq(s, to, to) >>
      PROVE  Reached(s, Given, 4, to, g)
    <2> DEFINE e == to - 1
    <2>1. e \in Nat /\ to = e + 1 /\ e \in Slash(s) \cup Plus /\ to \in 1 .. Len(s) /\ s[to] \in Digit
        BY <1>6 DEF CodeAt, Slash, Filled
    <2> HIDE DEF e, Plus
    <2> QED BY <1>4, <1>5, <1>6, <2>1
<1>7. ASSUME Reached(s, Given, 4, to, g)
      PROVE  to \in CodeAt(s) /\ g = << SubSeq(s, to, to) >>
    <2>1. PICK e \in Slash(s) \cup Plus : Taken(s, Group(1), e, to, g, <<>>)
        BY <1>4, <1>7
    <2>2. e \in Nat
        BY DEF Slash
    <2>3. to = e + 1 /\ to \in 1 .. Len(s) /\ s[to] \in Digit /\ g = << SubSeq(s, to, to) >>
        BY <1>5, <2>1, <2>2
    <2>4. to \in CodeAt(s)
        BY <2>2, <2>3 DEF CodeAt, Slash, Filled
    <2> QED BY <2>3, <2>4
<1> QED BY <1>6, <1>7

LEMMA AfterNoCode ==
    ASSUME NEW s \in Seq(Char)
    PROVE  ReachedIn(s, Absent, 4, Slash(s), << <<>> >>)
<1>1. Absent \in Code /\ Absent[1] = Item({}, {0}, FALSE) /\ Absent[2] = Item({}, {0}, TRUE)
    BY DEF Absent, Code
<1>2. /\ ReachedBy(s, Absent, 3, 2, Item({}, {0}, FALSE))
      /\ ReachedBy(s, Absent, 4, 3, Item({}, {0}, TRUE))
    BY <1>1, Reaching
<1>3. ReachedIn(s, Absent, 3, Slash(s), <<>>)
    <2> SUFFICES ASSUME NEW to, NEW g
                 PROVE  Reached(s, Absent, 3, to, g) <=> to \in Slash(s) /\ g = <<>>
        BY DEF ReachedIn
    <2>1. Reached(s, Absent, 3, to, g) <=>
            \E e \in Slash(s) : Taken(s, Item({}, {0}, FALSE), e, to, g, <<>>)
        BY <1>1, <1>2, AfterSlash, FromThere
    <2>2. ASSUME NEW e \in Slash(s)
          PROVE  Taken(s, Item({}, {0}, FALSE), e, to, g, <<>>) <=> to = e /\ g = <<>>
        BY DEF Taken, Item, Span, Filled, Slash
    <2> QED BY <2>1, <2>2
<1>4. ASSUME NEW to, NEW g
      PROVE  Reached(s, Absent, 4, to, g) <=> to \in Slash(s) /\ g = << <<>> >>
    <2>1. Reached(s, Absent, 4, to, g) <=>
            \E e \in Slash(s) : Taken(s, Item({}, {0}, TRUE), e, to, g, <<>>)
        BY <1>2, <1>3, FromThere
    <2>2. ASSUME NEW e \in Slash(s)
          PROVE  Taken(s, Item({}, {0}, TRUE), e, to, g, <<>>) <=> to = e /\ g = << <<>> >>
        <3>1. Taken(s, Item({}, {0}, TRUE), e, to, g, <<>>) <=>
                to = e /\ g = Append(<<>>, SubSeq(s, e + 1, e))
            BY DEF Taken, Item, Span, Filled, Slash, Captured
        <3>2. SubSeq(s, e + 1, e) = <<>>
            BY SubSeqEmpty DEF Slash
        <3> QED BY <3>1, <3>2, AppendToEmpty, Zenon
    <2> QED BY <2>1, <2>2
<1> QED BY <1>4 DEF ReachedIn

\* The ten digits in three groups, that start behind x, y and z, and what may stand
\* between and behind them.
Number(s, x, y, z) ==
    /\ Span(s, Digit, x, x + 3)
    /\ Span(s, {"-", "SP", ")"}, x + 3, y)
    /\ Span(s, Digit, y, y + 3)
    /\ Span(s, {"-", "SP"}, y + 3, z)
    /\ Span(s, Digit, z, z + 4)
    /\ Span(s, {"SP"}, z + 4, Len(s))

Groups(s, h, x, y, z) ==
    Captured(s, Captured(s, Captured(s, h, x, x + 3), y, y + 3), z, z + 4)

LEMMA AfterNumber ==
    ASSUME NEW s \in Seq(Char), NEW code \in Code, NEW g
    PROVE  Reached(s, code, 11, Len(s), g) <=>
             \E c, h, x, y, z : /\ Reached(s, code, 4, c, h)
                                /\ Span(s, {"-", "SP", "("}, c, x)
                                /\ Number(s, x, y, z)
                                /\ g = Groups(s, h, x, y, z)
<1>1. /\ ReachedBy(s, code, 5, 4, Star({"-", "SP", "("}))
      /\ ReachedBy(s, code, 6, 5, Group(3))
      /\ ReachedBy(s, code, 7, 6, Star({"-", "SP", ")"}))
      /\ ReachedBy(s, code, 8, 7, Group(3))
      /\ ReachedBy(s, code, 9, 8, Star({"-", "SP"}))
      /\ ReachedBy(s, code, 10, 9, Group(4))
      /\ ReachedBy(s, code, 11, 10, Star({"SP"}))
    BY Reaching
<1>2. ASSUME NEW i, NEW j, NEW class, ReachedBy(s, code, i, j, Star(class)), NEW to, NEW f
      PROVE  Reached(s, code, i, to, f) <=>
               \E from : Reached(s, code, j, from, f) /\ Span(s, class, from, to)
    <2>1. Reached(s, code, i, to, f) <=>
            \E from, h : Reached(s, code, j, from, h) /\ Taken(s, Star(class), from, to, f, h)
        BY <1>2 DEF ReachedBy
    <2> QED BY <2>1, TakenStar
<1>3. ASSUME NEW i, NEW j, NEW n \in Nat, ReachedBy(s, code, i, j, Group(n)), NEW to, NEW f
      PROVE  Reached(s, code, i, to, f) <=>
               \E from, h : /\ Reached(s, code, j, from, h)
                            /\ Span(s, Digit, from, to) /\ to = from + n
                            /\ f = Captured(s, h, from, to)
    <2>1. Reached(s, code, i, to, f) <=>
            \E from, h : Reached(s, code, j, from, h) /\ Taken(s, Group(n), from, to, f, h)
        BY <1>3 DEF ReachedBy
    <2> QED BY <2>1, TakenGroup
<1>4. ASSUME Reached(s, code, 11, Len(s), g)
      PROVE  \E c, h, x, y, z : /\ Reached(s, code, 4, c, h)
                                /\ Span(s, {"-", "SP", "("}, c, x)
                                /\ Number(s, x, y, z)
                                /\ g = Groups(s, h, x, y, z)
    <2>1. PICK e10 : Reached(s, code, 10, e10, g) /\ Span(s, {"SP"}, e10, Len(s))
        BY <1>1, <1>2, <1>4
    <2>2. PICK z, f9 : /\ Reached(s, code, 9, z, f9) /\ Span(s, Digit, z, e10)
                       /\ e10 = z + 4 /\ g = Captured(s, f9, z, e10)
        BY <1>1, <1>3, <2>1
    <2>3. PICK e8 : Reached(s, code, 8, e8, f9) /\ Span(s, {"-", "SP"}, e8, z)
        BY <1>1, <1>2, <2>2
    <2>4. PICK y, f7 : /\ Reached(s, code, 7, y, f7) /\ Span(s, Digit, y, e8)
                       /\ e8 = y + 3 /\ f9 = Captured(s, f7, y, e8)
        BY <1>1, <1>3, <2>3
    <2>5. PICK e6 : Reached(s, code, 6, e6, f7) /\ Span(s, {"-", "SP", ")"}, e6, y)
        BY <1>1, <1>2, <2>4
    <2>6. PICK x, h : /\ Reached(s, code, 5, x, h) /\ Span(s, Digit, x, e6)
                      /\ e6 = x + 3 /\ f7 = Captured(s, h, x, e6)
        BY <1>1, <1>3, <2>5
    <2>7. PICK c : Reached(s, code, 4, c, h) /\ Span(s, {"-", "SP", "("}, c, x)
        BY <1>1, <1>2, <2>6
    <2>8. Number(s, x, y, z) /\ g = Groups(s, h, x, y, z)
        BY <2>1, <2>2, <2>3, <2>4, <2>5, <2>6, Zenon DEF Number, Groups
    <2> QED BY <2>7, <2>8
<1>5. ASSUME NEW c, NEW h, NEW x, NEW y, NEW z,
             Reached(s, code, 4, c, h), Span(s, {"-", "SP", "("}, c, x),
             Number(s, x, y, z), g = Groups(s, h, x, y, z)
      PROVE  Reached(s, code, 11, Len(s), g)
    <2> DEFINE f7 == Captured(s, h, x, x + 3)
               f9 == Captured(s, f7, y, y + 3)
               f11 == Captured(s, f9, z, z + 4)
    <2> HIDE DEF f7, f9, f11
    <2>1. Reached(s, code, 5, x, h)
        BY <1>1, <1>2, <1>5
    <2>2. Reached(s, code, 6, x + 3, f7)
        BY <1>1, <1>3, <1>5, <2>1 DEF Number, f7
    <2>3. Reached(s, code, 7, y, f7)
        BY <1>1, <1>2, <1>5, <2>2 DEF Number
    <2>4. Reached(s, code, 8, y + 3, f9)
        BY <1>1, <1>3, <1>5, <2>3 DEF Number, f9
    <2>5. Reached(s, code, 9, z, f9)
        BY <1>1, <1>2, <1>5, <2>4 DEF Number
    <2>6. Reached(s, code, 10, z + 4, f11)
        BY <1>1, <1>3, <1>5, <2>5 DEF Number, f11
    <2>7. Reached(s, code, 11, Len(s), f11)
        BY <1>1, <1>2, <1>5, <2>6 DEF Number
    <2> QED BY <1>5, <2>7, Zenon DEF Groups, f7, f9, f11
<1> QED BY <1>4, <1>5

\* A reading: where the code or, without one, the blanks behind the slash end, and where the
\* groups start; first is what the group of the code holds.
Read(s, first, c, x, y, z) ==
    /\ \/ c \in CodeAt(s) /\ first = SubSeq(s, c, c)
       \/ c \in Slash(s) /\ first = <<>>
    /\ Span(s, {"-", "SP", "("}, c, x)
    /\ Number(s, x, y, z)

LEMMA MatchesAre ==
    ASSUME NEW s \in Seq(Char), NEW g
    PROVE  g \in RegexMatches(s) <=>
             \E first, c, x, y, z : Read(s, first, c, x, y, z) /\ g = Groups(s, <<first>>, x, y, z)
<1>1. g \in RegexMatches(s) <=> \E code \in Code : Reached(s, code, 11, Len(s), g)
    <2>1. ASSUME g \in RegexMatches(s)
          PROVE  \E code \in Code : Reached(s, code, 11, Len(s), g)
        <3>1. PICK code \in Code : \E r \in ReadingsAfter(s, code)[11] :
                                     r.read = Len(s) /\ r.groups = g
            BY <2>1 DEF RegexMatches
        <3>2. PICK r \in ReadingsAfter(s, code)[11] : r.read = Len(s) /\ r.groups = g
            BY <3>1
        <3>3. r = [read |-> Len(s), groups |-> g]
            BY <3>2, ReadingsAreRecords
        <3> QED BY <3>2, <3>3 DEF Reached
    <2>2. ASSUME NEW code \in Code, Reached(s, code, 11, Len(s), g)
          PROVE  g \in RegexMatches(s)
        <3> DEFINE r == [read |-> Len(s), groups |-> g]
        <3>1. r \in ReadingsAfter(s, code)[11] /\ r.read = Len(s) /\ r.groups = g
            BY <2>2 DEF Reached
        <3> HIDE DEF r
        <3> QED BY <3>1, Zenon DEF RegexMatches
    <2> QED BY <2>1, <2>2
<1>2. Given \in Code /\ Absent \in Code /\ Code = {Given, Absent}
    BY DEF Code, Given, Absent
<1>3. ASSUME g \in RegexMatches(s)
      PROVE  \E first, c, x, y, z : Read(s, first, c, x, y, z) /\ g = Groups(s, <<first>>, x, y, z)
    <2>1. PICK code \in Code : Reached(s, code, 11, Len(s), g)
        BY <1>1, <1>3
    <2>2. PICK c, h, x, y, z :
                 /\ Reached(s, code, 4, c, h)
                 /\ Span(s, {"-", "SP", "("}, c, x)
                 /\ Number(s, x, y, z)
                 /\ g = Groups(s, h, x, y, z)
        BY <2>1, AfterNumber
    <2>3. CASE code = Given
        <3>1. c \in CodeAt(s) /\ h = << SubSeq(s, c, c) >>
            BY <2>2, <2>3, AfterCode
        <3> QED BY <2>2, <3>1, Zenon DEF Read
    <2>4. CASE code = Absent
        <3>1. c \in Slash(s) /\ h = << <<>> >>
            BY <2>2, <2>4, AfterNoCode DEF ReachedIn
        <3> QED BY <2>2, <3>1, Zenon DEF Read
    <2> QED BY <1>2, <2>3, <2>4
<1>4. ASSUME NEW first, NEW c, NEW x, NEW y, NEW z,
             Read(s, first, c, x, y, z), g = Groups(s, <<first>>, x, y, z)
      PROVE  g \in RegexMatches(s)
    <2>1. CASE c \in CodeAt(s) /\ first = SubSeq(s, c, c)
        <3>1. Reached(s, Given, 4, c, <<first>>)
            BY <2>1, AfterCode
        <3> QED BY <1>1, <1>2, <1>4, <3>1, AfterNumber, Zenon DEF Read
    <2>2. CASE c \in Slash(s) /\ first = <<>>
        <3>1. Reached(s, Absent, 4, c, <<first>>)
            BY <2>2, AfterNoCode DEF ReachedIn
        <3> QED BY <1>1, <1>2, <1>4, <3>1, AfterNumber, Zenon DEF Read
    <2> QED BY <1>4, <2>1, <2>2 DEF Read
<1> QED BY <1>3, <1>4

-----------------------------------------------------------------------------
(* One reading: the digits fix the places *)

\* D is a set of places that has three groups of three, three and four, in this order.
ThreeGroups(D, x, y, z) ==
    /\ x \in Nat /\ y \in Nat /\ z \in Nat
    /\ x + 3 <= y /\ y + 3 <= z
    /\ \A k \in Nat : k \in D <=> k \in x + 1 .. x + 3 \/ k \in y + 1 .. y + 3 \/ k \in z + 1 .. z + 4

\* The same with one more place in front.
FourGroups(D, c, x, y, z) ==
    /\ c \in Nat /\ x \in Nat /\ y \in Nat /\ z \in Nat
    /\ c <= x /\ x + 3 <= y /\ y + 3 <= z
    /\ \A k \in Nat : k \in D <=> \/ k = c
                                \/ k \in x + 1 .. x + 3 \/ k \in y + 1 .. y + 3
                                \/ k \in z + 1 .. z + 4

LEMMA SameThreeGroups ==
    ASSUME NEW D, NEW x, NEW y, NEW z, NEW u, NEW v, NEW w,
           ThreeGroups(D, x, y, z), ThreeGroups(D, u, v, w)
    PROVE  x = u /\ y = v /\ z = w
<1> USE DEF ThreeGroups
<1>1. x = u
    <2>1. x + 1 \in D /\ u + 1 \in D
        OBVIOUS
    <2>2. x + 1 >= u + 1 /\ u + 1 >= x + 1
        BY <2>1
    <2> QED BY <2>2
<1>2. y = v
    <2>1. y + 1 \in D /\ v + 1 \in D
        OBVIOUS
    <2>2. y + 1 >= v + 1 /\ v + 1 >= y + 1
        BY <1>1, <2>1
    <2> QED BY <2>2
<1>3. z = w
    <2>1. z + 1 \in D /\ w + 1 \in D
        OBVIOUS
    <2>2. z + 1 >= w + 1 /\ w + 1 >= z + 1
        BY <1>1, <1>2, <2>1
    <2> QED BY <2>2
<1> QED BY <1>1, <1>2, <1>3

LEMMA SameFourGroups ==
    ASSUME NEW D, NEW c, NEW x, NEW y, NEW z, NEW b, NEW u, NEW v, NEW w,
           FourGroups(D, c, x, y, z), FourGroups(D, b, u, v, w)
    PROVE  c = b /\ x = u /\ y = v /\ z = w
<1> USE DEF FourGroups
<1>1. c = b
    <2>1. c \in D /\ b \in D
        OBVIOUS
    <2>2. c >= b /\ b >= c
        BY <2>1
    <2> QED BY <2>2
<1>2. ThreeGroups(D \ {c}, x, y, z) /\ ThreeGroups(D \ {c}, u, v, w)
    BY <1>1 DEF ThreeGroups
<1> QED BY <1>1, <1>2, SameThreeGroups

LEMMA NotThreeAndFour ==
    ASSUME NEW D, NEW c, NEW x, NEW y, NEW z, NEW u, NEW v, NEW w,
           FourGroups(D, c, x, y, z), ThreeGroups(D, u, v, w)
    PROVE  FALSE
<1> USE DEF FourGroups, ThreeGroups
<1>1. c = u + 1
    <2>1. c \in D /\ u + 1 \in D
        OBVIOUS
    <2>2. c >= u + 1 /\ u + 1 >= c
        BY <2>1
    <2> QED BY <2>2
<1>2. x = u + 1
    <2>1. x + 1 \in D /\ u + 2 \in D
        OBVIOUS
    <2>2. x + 1 >= u + 2 /\ u + 2 >= x + 1
        BY <1>1, <2>1
    <2> QED BY <2>2
<1>3. y = v + 1
    <2>1. v + 1 = x + 3
        <3>1. x + 3 \in D /\ v + 1 \in D /\ x + 3 = u + 4
            BY <1>2
        <3>2. x + 3 >= v + 1 /\ v + 1 >= x + 3
            BY <1>1, <1>2, <3>1
        <3> QED BY <3>2
    <2>2. y + 1 \in D /\ v + 2 \in D
        OBVIOUS
    <2>3. y + 1 >= v + 2 /\ v + 2 >= y + 1
        BY <1>1, <1>2, <2>1, <2>2
    <2> QED BY <2>3
<1>4. z = w + 1
    <2>1. w + 1 = y + 3
        <3>1. y + 3 \in D /\ w + 1 \in D /\ y + 3 = v + 4
            BY <1>3
        <3>2. y + 3 >= w + 1 /\ w + 1 >= y + 3
            BY <1>1, <1>2, <1>3, <3>1
        <3> QED BY <3>2
    <2>2. z + 1 \in D /\ w + 2 \in D
        OBVIOUS
    <2>3. z + 1 >= w + 2 /\ w + 2 >= z + 1
        BY <1>1, <1>2, <1>3, <2>1, <2>2
    <2> QED BY <2>3
<1>5. z + 4 \in D /\ z + 4 = w + 5
    BY <1>4
<1> QED BY <1>1, <1>2, <1>3, <1>5

DigitPlaces(s) == {k \in 1 .. Len(s) : s[k] \in Digit}

\* Behind c the digits of s are the three groups that start behind x, y and z.
GroupsAt(s, c, x, y, z) ==
    /\ x \in Nat /\ y \in Nat /\ z \in Nat
    /\ c <= x /\ x + 3 <= y /\ y + 3 <= z /\ z + 4 <= Len(s)
    /\ \A k \in c + 1 .. Len(s) :
         s[k] \in Digit <=> k \in x + 1 .. x + 3 \/ k \in y + 1 .. y + 3 \/ k \in z + 1 .. z + 4

LEMMA NumberPlaces ==
    ASSUME NEW s \in Seq(Char), NEW c \in Nat, NEW x, NEW y, NEW z,
           Span(s, {"-", "SP", "("}, c, x), Number(s, x, y, z)
    PROVE  GroupsAt(s, c, x, y, z)
<1>1. /\ x \in Nat /\ y \in Nat /\ z \in Nat
      /\ c <= x /\ x + 3 <= y /\ y + 3 <= z /\ z + 4 <= Len(s)
    BY DEF Number, Span
<1>2. /\ \A k \in x + 1 .. x + 3 : s[k] \in Digit
      /\ \A k \in y + 1 .. y + 3 : s[k] \in Digit
      /\ \A k \in z + 1 .. z + 4 : s[k] \in Digit
    BY DEF Number, Span, Filled
<1>3. /\ \A k \in c + 1 .. x : s[k] \in {"-", "SP", "("}
      /\ \A k \in x + 4 .. y : s[k] \in {"-", "SP", ")"}
      /\ \A k \in y + 4 .. z : s[k] \in {"-", "SP"}
      /\ \A k \in z + 5 .. Len(s) : s[k] \in {"SP"}
    <2>1. (x + 3) + 1 = x + 4 /\ (y + 3) + 1 = y + 4 /\ (z + 4) + 1 = z + 5
        BY <1>1
    <2> QED BY <2>1 DEF Number, Span, Filled
<1>4. \A t \in {"-", "SP", "(", ")"} : t \notin Digit
    BY DEF Digit
<1>5. ASSUME NEW k \in c + 1 .. Len(s)
      PROVE  \/ k \in c + 1 .. x \/ k \in x + 1 .. x + 3 \/ k \in x + 4 .. y
             \/ k \in y + 1 .. y + 3 \/ k \in y + 4 .. z
             \/ k \in z + 1 .. z + 4 \/ k \in z + 5 .. Len(s)
    BY <1>1
<1> QED BY <1>1, <1>2, <1>3, <1>4, <1>5 DEF GroupsAt

LEMMA ReadPlaces ==
    ASSUME NEW s \in Seq(Char), NEW first, NEW c, NEW x, NEW y, NEW z,
           Read(s, first, c, x, y, z)
    PROVE  \/ /\ FourGroups(DigitPlaces(s), c, x, y, z)
              /\ first = SubSeq(s, c, c)
           \/ /\ ThreeGroups(DigitPlaces(s), x, y, z)
              /\ first = <<>>
<1>1. c \in 1 .. Len(s)
    BY DEF Read, CodeAt, Slash
<1>2. /\ x \in Nat /\ y \in Nat /\ z \in Nat
      /\ c <= x /\ x + 3 <= y /\ y + 3 <= z /\ z + 4 <= Len(s)
      /\ \A k \in c + 1 .. Len(s) :
           s[k] \in Digit <=> k \in x + 1 .. x + 3 \/ k \in y + 1 .. y + 3 \/ k \in z + 1 .. z + 4
    BY <1>1, NumberPlaces DEF Read, GroupsAt
<1>3. \A t \in {"/", "SP", "+"} : t \notin Digit
    BY DEF Digit
<1>4. CASE c \in CodeAt(s) /\ first = SubSeq(s, c, c)
    <2>1. \A k \in 1 .. c : s[k] \in Digit <=> k = c
        BY <1>3, <1>4 DEF CodeAt
    <2>2. FourGroups(DigitPlaces(s), c, x, y, z)
        BY <1>1, <1>2, <2>1 DEF FourGroups, DigitPlaces
    <2> QED BY <1>4, <2>2
<1>5. CASE c \in Slash(s) /\ first = <<>>
    <2>1. \A k \in 1 .. c : s[k] \notin Digit
        BY <1>3, <1>5 DEF Slash, Filled
    <2>2. ThreeGroups(DigitPlaces(s), x, y, z)
        BY <1>1, <1>2, <2>1 DEF ThreeGroups, DigitPlaces
    <2> QED BY <1>5, <2>2
<1> QED BY <1>4, <1>5 DEF Read

\* However std::regex finds its way through the pattern, the groups are the same.
LEMMA OneMatch ==
    ASSUME NEW s \in Seq(Char), NEW g \in RegexMatches(s), NEW h \in RegexMatches(s)
    PROVE  g = h
<1>1. PICK f, c, x, y, z : Read(s, f, c, x, y, z) /\ g = Groups(s, <<f>>, x, y, z)
    BY MatchesAre
<1>2. PICK e, b, u, v, w : Read(s, e, b, u, v, w) /\ h = Groups(s, <<e>>, u, v, w)
    BY MatchesAre
<1>3. f = e /\ x = u /\ y = v /\ z = w
    <2> DEFINE D == DigitPlaces(s)
    <2>1. \/ FourGroups(D, c, x, y, z) /\ f = SubSeq(s, c, c)
          \/ ThreeGroups(D, x, y, z) /\ f = <<>>
        BY <1>1, ReadPlaces
    <2>2. \/ FourGroups(D, b, u, v, w) /\ e = SubSeq(s, b, b)
          \/ ThreeGroups(D, u, v, w) /\ e = <<>>
        BY <1>2, ReadPlaces
    <2> HIDE DEF D
    <2>3. CASE FourGroups(D, c, x, y, z) /\ FourGroups(D, b, u, v, w)
        <3>1. c = b /\ x = u /\ y = v /\ z = w
            BY <2>3, SameFourGroups
        <3> QED BY <2>1, <2>2, <2>3, <3>1, NotThreeAndFour, Zenon
    <2>4. CASE ThreeGroups(D, x, y, z) /\ ThreeGroups(D, u, v, w)
        <3>1. x = u /\ y = v /\ z = w
            BY <2>4, SameThreeGroups
        <3> QED BY <2>1, <2>2, <2>4, <3>1, NotThreeAndFour, Zenon
    <2> QED BY <2>1, <2>2, <2>3, <2>4, NotThreeAndFour, Zenon
<1> QED BY <1>1, <1>2, <1>3

LEMMA Decoded ==
    ASSUME NEW str \in Seq(Token)
    PROVE  /\ UrlDecode(str) \in Seq(Char)
           /\ Len(UrlDecode(str)) = Len(str)
           /\ \A i \in 1 .. Len(str) :
                UrlDecode(str)[i] = IF str[i] = "%20" THEN "SP" ELSE str[i]
           /\ DigitPlaces(UrlDecode(str)) = DigitPlaces(str)
<1>1. Len(str) \in Nat /\ \A i \in 1 .. Len(str) : str[i] \in Token
    OBVIOUS
<1>2. \A i \in 1 .. Len(str) : (IF str[i] = "%20" THEN "SP" ELSE str[i]) \in Char
    BY <1>1 DEF Char
<1>3. /\ UrlDecode(str) \in Seq(Char)
      /\ Len(UrlDecode(str)) = Len(str)
      /\ \A i \in 1 .. Len(str) :
           UrlDecode(str)[i] = IF str[i] = "%20" THEN "SP" ELSE str[i]
    BY <1>1, <1>2 DEF UrlDecode
<1>4. "%20" \notin Digit /\ "SP" \notin Digit
    BY DEF Digit
<1>5. ASSUME NEW k
      PROVE  k \in DigitPlaces(UrlDecode(str)) <=> k \in DigitPlaces(str)
    BY <1>3, <1>4 DEF DigitPlaces
<1> QED BY <1>3, <1>5

LEMMA DigitsInType ==
    ASSUME NEW str \in Seq(Token), NEW i \in 0 .. Len(str)
    PROVE  DigitsIn(str)[i] \in Seq(Digit)
<1> DEFINE T == {k \in Nat : k <= Len(str) => DigitsIn(str)[k] \in Seq(Digit)}
<1>1. 0 \in T
    <2>1. DigitsIn(str)[0] = <<>>
        BY DigitsInIs
    <2>2. <<>> \in Seq(Digit)
        OBVIOUS
    <2> QED BY <2>1, <2>2
<1>2. ASSUME NEW k \in Nat, k \in T PROVE k + 1 \in T
    <2> SUFFICES ASSUME k + 1 <= Len(str) PROVE DigitsIn(str)[k + 1] \in Seq(Digit)
        OBVIOUS
    <2>1. k + 1 \in 1 .. Len(str) /\ (k + 1) - 1 = k
        OBVIOUS
    <2>2. DigitsIn(str)[k + 1] = IF str[k + 1] \in Digit
                                 THEN Append(DigitsIn(str)[k], str[k + 1])
                                 ELSE DigitsIn(str)[k]
        BY <2>1, DigitsInIs
    <2>3. DigitsIn(str)[k] \in Seq(Digit)
        BY <1>2
    <2> QED BY <2>2, <2>3
<1>3. i \in Nat /\ i <= Len(str)
    OBVIOUS
<1>4. i \in T
    <2> HIDE DEF T
    <2> QED BY <1>1, <1>2, <1>3, Induction
<1> QED BY <1>3, <1>4

-----------------------------------------------------------------------------
(* The target is a slash and tokens *)

TypeOK == target \in Seq(Token) /\ Len(target) >= 1 /\ target[1] = "/"

LEMMA Grown ==
    ASSUME NEW str \in Seq(Token), Len(str) >= 1, str[1] = "/", NEW t \in Token
    PROVE  /\ Append(str, t) \in Seq(Token) /\ Len(Append(str, t)) >= 1
           /\ Append(str, t)[1] = "/"
BY AppendProperties

LEMMA Typed == Spec => []TypeOK
<1>1. Init => TypeOK
    BY DEF Init, TypeOK, Token, Mark
<1>2. ASSUME TypeOK, [Next]_target PROVE TypeOK'
    <2>1. CASE TypeDigit
        <3>1. Len(DigitsOf(target)) \in Nat
            BY <1>2, DigitsInType DEF TypeOK, DigitsOf
        <3>2. PICK d \in IF Len(DigitsOf(target)) = 0 THEN FirstDigit
                         ELSE {LaterDigit[Len(DigitsOf(target))]} : target' = Append(target, d)
            BY <2>1 DEF TypeDigit
        <3>3. Len(DigitsOf(target)) < 13
            BY <2>1, <3>1, PhoneNumberAssumption DEF TypeDigit
        <3>4. \A k \in 1 .. 12 : LaterDigit[k] \in Digit
            BY DEF LaterDigit, Digit
        <3>5. d \in Digit
            BY <3>1, <3>2, <3>3, <3>4, PhoneNumberAssumption
        <3> QED BY <1>2, <3>2, <3>5, Grown DEF TypeOK, Token
    <2>2. CASE TypeMark
        BY <1>2, <2>2, Grown DEF TypeMark, TypeOK, Token
    <2>3. CASE UNCHANGED target
        BY <1>2, <2>3 DEF TypeOK
    <2> QED BY <1>2, <2>1, <2>2, <2>3 DEF Next
<1> QED BY <1>1, <1>2, PTL DEF Spec

\* The pattern can match a target in several ways, but with one result: which of
\* them std::regex_match in isValidPhoneNumber finds first does not matter.
THEOREM ReadingsAgree == Spec => []OneReading
<1>1. TypeOK => OneReading
    BY Decoded, OneMatch DEF TypeOK, OneReading, Readings
<1> QED BY <1>1, Typed, PTL

-----------------------------------------------------------------------------
(* The prepared number, digit by digit *)

Then(h, e) == Append(h, e)

Appended(t, S, h, e) ==
    /\ t \in Seq(S) /\ Len(t) = Len(h) + 1
    /\ \A i \in 1 .. Len(h) : t[i] = h[i]
    /\ t[Len(h) + 1] = e

LEMMA ThenIs ==
    ASSUME NEW S, NEW h \in Seq(S), NEW e \in S, NEW t, t = Then(h, e)
    PROVE  Appended(t, S, h, e)
BY AppendProperties DEF Then, Appended

\* t is the part of s that starts behind m and has l elements.
Part(t, S, s, m, l) == t \in Seq(S) /\ Len(t) = l /\ \A i \in 1 .. l : t[i] = s[m + i]

LEMMA PartIs ==
    ASSUME NEW S, NEW s, NEW m \in Nat, NEW l \in Nat, l >= 1, Filled(s, m + 1, m + l, S)
    PROVE  Part(SubSeq(s, m + 1, m + l), S, s, m, l)
<1>1. PICK from \in Int, to \in Int : from = m + 1 /\ to = m + l
    OBVIOUS
<1>2. from <= to /\ to - from + 1 = l
    BY <1>1
<1>3. \A i \in from .. to : s[i] \in S
    BY <1>1 DEF Filled
<1>4. /\ SubSeq(s, from, to) \in Seq(S)
      /\ Len(SubSeq(s, from, to)) = IF from <= to THEN to - from + 1 ELSE 0
      /\ \A i \in 1 .. to - from + 1 : SubSeq(s, from, to)[i] = s[from + i - 1]
    BY <1>3, SubSeqProperties
<1>5. PICK t : t = SubSeq(s, m + 1, m + l)
    OBVIOUS
<1>6. t = SubSeq(s, from, to)
    BY <1>1, <1>5
<1>7. ASSUME NEW i \in 1 .. l PROVE t[i] = s[m + i]
    <2>1. from + i - 1 = m + i
        BY <1>1
    <2> QED BY <1>2, <1>4, <1>6, <2>1
<1>8. Part(t, S, s, m, l)
    BY <1>2, <1>4, <1>6, <1>7 DEF Part
<1> QED BY <1>5, <1>8, Zenon

LEMMA ThreeMore ==
    ASSUME NEW S, NEW f \in S, NEW a \in S, NEW b \in S, NEW c \in S,
           NEW g, g = Then(Then(Then(<<f>>, a), b), c)
    PROVE  g[1] = f /\ g[2] = a /\ g[3] = b /\ g[4] = c
<1>1. PICK h0 : h0 = <<f>>
    OBVIOUS
<1>2. h0 \in Seq(S)
    BY <1>1
<1>3. PICK h1 : h1 = Then(h0, a)
    OBVIOUS
<1>4. h1 \in Seq(S) /\ Len(h1) = 2 /\ h1[1] = f /\ h1[2] = a
    <2>1. Appended(h1, S, h0, a)
        BY <1>2, <1>3, ThenIs
    <2>2. Len(h0) = 1 /\ h0[1] = f
        BY <1>1
    <2> QED BY <2>1, <2>2 DEF Appended
<1>5. PICK h2 : h2 = Then(h1, b)
    OBVIOUS
<1>6. h2 \in Seq(S) /\ Len(h2) = 3 /\ h2[1] = f /\ h2[2] = a /\ h2[3] = b
    <2>1. Appended(h2, S, h1, b)
        BY <1>4, <1>5, ThenIs
    <2> QED BY <1>4, <2>1 DEF Appended
<1>7. PICK h3 : h3 = Then(h2, c)
    OBVIOUS
<1>8. /\ \A i \in 1 .. Len(h2) : h3[i] = h2[i]
      /\ h3[Len(h2) + 1] = c
    <2>1. Appended(h3, S, h2, c)
        BY <1>6, <1>7, ThenIs
    <2> QED BY <2>1 DEF Appended
<1>9. g = h3
    BY <1>1, <1>3, <1>5, <1>7, Zenon
<1> QED BY <1>6, <1>8, <1>9

Both(u, v) == u \o v

LEMMA GroupsAre ==
    ASSUME NEW s, NEW f, NEW x, NEW y, NEW z, NEW g, g = Groups(s, <<f>>, x, y, z)
    PROVE  /\ g[1] = f
           /\ TenDigits(g) = Both(Both(SubSeq(s, x + 1, x + 3), SubSeq(s, y + 1, y + 3)),
                                  SubSeq(s, z + 1, z + 4))
<1> DEFINE a == SubSeq(s, x + 1, x + 3)
           b == SubSeq(s, y + 1, y + 3)
           c == SubSeq(s, z + 1, z + 4)
<1>1. g = Then(Then(Then(<<f>>, a), b), c)
    BY Zenon DEF Groups, Captured, Then
<1> HIDE DEF a, b, c
<1>2. g[1] = f /\ g[2] = a /\ g[3] = b /\ g[4] = c
    <2> DEFINE S == {f, a, b, c}
    <2>1. f \in S /\ a \in S /\ b \in S /\ c \in S
        OBVIOUS
    <2> HIDE DEF S
    <2> QED BY <1>1, <2>1, ThreeMore
<1>3. TenDigits(g) = Both(Both(a, b), c)
    BY <1>2, Zenon DEF TenDigits, Both
<1> QED BY <1>2, <1>3 DEF a, b, c

Joined(t, S, u, v) ==
    /\ t \in Seq(S) /\ Len(t) = Len(u) + Len(v)
    /\ \A i \in 1 .. Len(u) + Len(v) : t[i] = IF i <= Len(u) THEN u[i] ELSE v[i - Len(u)]

LEMMA BothIs ==
    ASSUME NEW S, NEW u \in Seq(S), NEW v \in Seq(S), NEW t, t = Both(u, v)
    PROVE  Joined(t, S, u, v)
BY ConcatProperties DEF Both, Joined

\* k, the three digits of a, the three of b and the four of c are the digits of p.
InARow(p, k, a, b, c) ==
    /\ p \in Seq(Digit) /\ Len(p) = 11 /\ p[1] = k
    /\ p[2] = a[1] /\ p[3] = a[2] /\ p[4] = a[3]
    /\ p[5] = b[1] /\ p[6] = b[2] /\ p[7] = b[3]
    /\ p[8] = c[1] /\ p[9] = c[2] /\ p[10] = c[3] /\ p[11] = c[4]

LEMMA TogetherInARow ==
    ASSUME NEW k \in Digit, NEW a \in Seq(Digit), NEW b \in Seq(Digit), NEW c \in Seq(Digit),
           Len(a) = 3, Len(b) = 3, Len(c) = 4, NEW p, p = Both(<<k>>, Both(Both(a, b), c))
    PROVE  InARow(p, k, a, b, c)
<1>1. PICK k1 : k1 = <<k>>
    OBVIOUS
<1>2. k1 \in Seq(Digit) /\ Len(k1) = 1 /\ k1[1] = k
    BY <1>1
<1>3. PICK q : q = Both(a, b)
    OBVIOUS
<1>4. /\ q \in Seq(Digit) /\ Len(q) = 6
      /\ q[1] = a[1] /\ q[2] = a[2] /\ q[3] = a[3]
      /\ q[4] = b[1] /\ q[5] = b[2] /\ q[6] = b[3]
    <2>1. Joined(q, Digit, a, b)
        BY <1>3, BothIs
    <2> QED BY <2>1 DEF Joined
<1>5. PICK r : r = Both(q, c)
    OBVIOUS
<1>6. /\ r \in Seq(Digit) /\ Len(r) = 10
      /\ r[1] = q[1] /\ r[2] = q[2] /\ r[3] = q[3]
      /\ r[4] = q[4] /\ r[5] = q[5] /\ r[6] = q[6]
      /\ r[7] = c[1] /\ r[8] = c[2] /\ r[9] = c[3] /\ r[10] = c[4]
    <2>1. Joined(r, Digit, q, c)
        BY <1>4, <1>5, BothIs
    <2> QED BY <1>4, <2>1 DEF Joined
<1>7. PICK t : t = Both(k1, r)
    OBVIOUS
<1>8. /\ t \in Seq(Digit) /\ Len(t) = 11 /\ t[1] = k
      /\ t[2] = r[1] /\ t[3] = r[2] /\ t[4] = r[3] /\ t[5] = r[4]
      /\ t[6] = r[5] /\ t[7] = r[6] /\ t[8] = r[7] /\ t[9] = r[8]
      /\ t[10] = r[9] /\ t[11] = r[10]
    <2>1. Joined(t, Digit, k1, r)
        BY <1>2, <1>6, <1>7, BothIs
    <2> QED BY <1>2, <1>6, <2>1 DEF Joined
<1>9. p = t
    BY <1>1, <1>3, <1>5, <1>7, Zenon
<1> QED BY <1>4, <1>6, <1>8, <1>9 DEF InARow

\* p is k and the ten digits of s that start behind x, y and z.
NumberIs(p, k, s, x, y, z) ==
    /\ p \in Seq(Digit) /\ Len(p) = 11 /\ p[1] = k
    /\ p[2] = s[x + 1] /\ p[3] = s[x + 2] /\ p[4] = s[x + 3]
    /\ p[5] = s[y + 1] /\ p[6] = s[y + 2] /\ p[7] = s[y + 3]
    /\ p[8] = s[z + 1] /\ p[9] = s[z + 2] /\ p[10] = s[z + 3] /\ p[11] = s[z + 4]

LEMMA TenIs ==
    ASSUME NEW s \in Seq(Char), NEW x \in Nat, NEW y \in Nat, NEW z \in Nat,
           Number(s, x, y, z), NEW k \in Digit, NEW p,
           p = Both(<<k>>, Both(Both(SubSeq(s, x + 1, x + 3), SubSeq(s, y + 1, y + 3)),
                                SubSeq(s, z + 1, z + 4)))
    PROVE  NumberIs(p, k, s, x, y, z)
<1> DEFINE a == SubSeq(s, x + 1, x + 3)
           b == SubSeq(s, y + 1, y + 3)
           c == SubSeq(s, z + 1, z + 4)
<1>1. Filled(s, x + 1, x + 3, Digit) /\ Filled(s, y + 1, y + 3, Digit) /\ Filled(s, z + 1, z + 4, Digit)
    BY DEF Number, Span
<1>2. a \in Seq(Digit) /\ Len(a) = 3 /\ a[1] = s[x + 1] /\ a[2] = s[x + 2] /\ a[3] = s[x + 3]
    <2>1. Part(a, Digit, s, x, 3)
        BY <1>1, PartIs
    <2> HIDE DEF a
    <2> QED BY <2>1 DEF Part
<1>3. b \in Seq(Digit) /\ Len(b) = 3 /\ b[1] = s[y + 1] /\ b[2] = s[y + 2] /\ b[3] = s[y + 3]
    <2>1. Part(b, Digit, s, y, 3)
        BY <1>1, PartIs
    <2> HIDE DEF b
    <2> QED BY <2>1 DEF Part
<1>4. c \in Seq(Digit) /\ Len(c) = 4
      /\ c[1] = s[z + 1] /\ c[2] = s[z + 2] /\ c[3] = s[z + 3] /\ c[4] = s[z + 4]
    <2>1. Part(c, Digit, s, z, 4)
        BY <1>1, PartIs
    <2> HIDE DEF c
    <2> QED BY <2>1 DEF Part
<1> HIDE DEF a, b, c
<1>5. PICK t : t = Both(<<k>>, Both(Both(a, b), c))
    OBVIOUS
<1>6. InARow(t, k, a, b, c)
    <2>1. /\ a \in Seq(Digit) /\ b \in Seq(Digit) /\ c \in Seq(Digit)
          /\ Len(a) = 3 /\ Len(b) = 3 /\ Len(c) = 4
        BY <1>2, <1>3, <1>4
    <2> QED BY <1>5, <2>1, TogetherInARow
<1>7. p = t
    BY <1>5 DEF a, b, c
<1> QED BY <1>2, <1>3, <1>4, <1>6, <1>7 DEF InARow, NumberIs

\* The first digit of the prepared number.
PreparedCode(f) == IF f \in {<<>>, <<"8">>} THEN "7" ELSE f[1]

LEMMA OneToken ==
    ASSUME NEW s \in Seq(Char), NEW c \in 1 .. Len(s), NEW f, f = SubSeq(s, c, c)
    PROVE  f = <<s[c]>>
<1>1. s[c] \in Char
    BY ElementOfSeq
<1>2. f \in Seq(Char) /\ Len(f) = 1 /\ f[1] = s[c]
    <2>1. PICK b \in Nat : c = b + 1
        OBVIOUS
    <2>2. Filled(s, c, c, Char)
        BY <1>1 DEF Filled
    <2>3. Part(SubSeq(s, b + 1, b + 1), Char, s, b, 1)
        <3>1. Filled(s, b + 1, b + 1, Char)
            BY <2>1, <2>2
        <3> QED BY <3>1, PartIs
    <2>4. Part(f, Char, s, b, 1)
        BY <2>1, <2>3
    <2> QED BY <2>1, <2>4 DEF Part
<1>3. ASSUME NEW e \in Seq(Char), NEW d \in Char, Len(e) = 1, e[1] = d
      PROVE  e = <<d>>
    BY <1>3, SeqEqual
<1> QED BY <1>1, <1>2, <1>3

LEMMA CodeIs ==
    ASSUME NEW s \in Seq(Char), NEW f, NEW c, NEW x, NEW y, NEW z, Read(s, f, c, x, y, z)
    PROVE  \/ f = <<>> /\ PreparedCode(f) = "7"
           \/ /\ f = <<s[c]>> /\ c \in 1 .. Len(s) /\ s[c] \in Digit
              /\ PreparedCode(f) = IF s[c] = "8" THEN "7" ELSE s[c]
<1>1. \/ f = <<>>
      \/ f = SubSeq(s, c, c) /\ c \in 1 .. Len(s) /\ s[c] \in Digit
    BY DEF Read, CodeAt
<1>2. CASE f = <<>>
    BY <1>2 DEF PreparedCode
<1>3. CASE f = SubSeq(s, c, c) /\ c \in 1 .. Len(s) /\ s[c] \in Digit
    <2>1. f = <<s[c]>>
        BY <1>3, OneToken
    <2>2. \A d : <<d>> # <<>> /\ (<<d>> = <<"8">> <=> d = "8") /\ <<d>>[1] = d
        OBVIOUS
    <2> QED BY <1>3, <2>1, <2>2 DEF PreparedCode
<1> QED BY <1>1, <1>2, <1>3

LEMMA PreparedIs ==
    ASSUME NEW str \in Seq(Token), NEW s, s = UrlDecode(str),
           NEW f, NEW c, NEW x, NEW y, NEW z, Read(s, f, c, x, y, z)
    PROVE  IsValid(str) /\ NumberIs(Prepared(str), PreparedCode(f), s, x, y, z)
<1>1. s \in Seq(Char)
    BY Decoded
<1>2. PICK g : g = Groups(s, <<f>>, x, y, z)
    OBVIOUS
<1>3. g \in Readings(str)
    BY <1>1, <1>2, MatchesAre DEF Readings
<1>4. Prepared(str) = PreparePhoneNumber(g)
    <2>1. \A h \in Readings(str) : h = g
        BY <1>1, <1>3, OneMatch DEF Readings
    <2>2. (CHOOSE h \in Readings(str) : TRUE) = g
        BY <1>3, <2>1
    <2> QED BY <2>2 DEF Prepared
<1>5. x \in Nat /\ y \in Nat /\ z \in Nat
    BY <1>1 DEF Read, Number, Span
<1>6. /\ g[1] = f
      /\ TenDigits(g) = Both(Both(SubSeq(s, x + 1, x + 3), SubSeq(s, y + 1, y + 3)),
                             SubSeq(s, z + 1, z + 4))
    BY <1>2, GroupsAre
<1>7. PreparedCode(f) \in Digit
    BY <1>1, CodeIs DEF Digit
<1>8. PreparePhoneNumber(g) = Both(<<PreparedCode(f)>>, TenDigits(g))
    <2>1. CASE f = <<>>
        BY <1>6, <2>1, Zenon DEF PreparePhoneNumber, PreparedCode, Both
    <2>2. CASE f = <<"8">>
        BY <1>6, <2>2, Zenon DEF PreparePhoneNumber, PreparedCode, Both
    <2>3. CASE f = <<f[1]>> /\ f # <<>> /\ f # <<"8">>
        BY <1>6, <2>3, Zenon DEF PreparePhoneNumber, PreparedCode, Both
    <2>4. f = <<>> \/ f = <<f[1]>>
        BY <1>1, CodeIs
    <2> QED BY <2>1, <2>2, <2>3, <2>4
<1>9. NumberIs(Prepared(str), PreparedCode(f), s, x, y, z)
    <2>1. Number(s, x, y, z)
        BY DEF Read
    <2> QED BY <1>1, <1>4, <1>5, <1>6, <1>7, <1>8, <2>1, TenIs, Zenon
<1> QED BY <1>3, <1>9 DEF IsValid

-----------------------------------------------------------------------------
(* A prepared number that is dialled again *)

\* str is p behind a slash, and so is s, the decoded str.
Again(str, s, p) ==
    /\ str \in Seq(Token) /\ s \in Seq(Char) /\ Len(s) = 12 /\ s[1] = "/"
    /\ \A i \in 1 .. 11 : s[i + 1] = p[i]

LEMMA DialledAgain ==
    ASSUME NEW p \in Seq(Digit), Len(p) = 11, NEW again, again = Both(<<"/">>, p),
           NEW w, w = UrlDecode(again)
    PROVE  Again(again, w, p)
<1>1. /\ again \in Seq(Token) /\ Len(again) = 12 /\ again[1] = "/"
      /\ \A i \in 1 .. 11 : again[i + 1] = p[i]
    <2>1. PICK slash : slash = <<"/">>
        OBVIOUS
    <2>2. slash \in Seq(Token) /\ p \in Seq(Token)
        <3>1. "/" \in Token /\ Digit \subseteq Token
            BY DEF Token, Mark
        <3> QED BY <2>1, <3>1
    <2>3. PICK t : t = Both(slash, p)
        OBVIOUS
    <2>4. Joined(t, Token, slash, p)
        BY <2>2, <2>3, BothIs
    <2>5. again = t
        BY <2>1, <2>3, Zenon
    <2>6. Len(slash) = 1 /\ slash[1] = "/"
        BY <2>1
    <2> QED BY <2>4, <2>5, <2>6 DEF Joined
<1>2. /\ w \in Seq(Char) /\ Len(w) = Len(again)
      /\ \A i \in 1 .. Len(again) : w[i] = IF again[i] = "%20" THEN "SP" ELSE again[i]
    BY <1>1, Decoded
<1>3. "%20" \notin Digit
    BY DEF Digit
<1>4. w[1] = "/"
    BY <1>1, <1>2
<1>5. ASSUME NEW i \in 1 .. 11 PROVE w[i + 1] = p[i]
    <2>1. i + 1 \in 1 .. Len(again) /\ again[i + 1] = p[i]
        <3>1. i + 1 \in 1 .. 12 /\ Len(again) = 12
            BY <1>1
        <3>2. again[i + 1] = p[i]
            BY <1>1
        <3> QED BY <3>1, <3>2
    <2>2. p[i] \in Digit
        BY ElementOfSeq
    <2> QED BY <1>2, <1>3, <2>1, <2>2
<1> QED BY <1>1, <1>2, <1>4, <1>5 DEF Again

LEMMA PreparedAgain ==
    ASSUME NEW p \in Seq(Digit), Len(p) = 11, p[1] # "8", NEW again, again = Both(<<"/">>, p)
    PROVE  IsValid(again) /\ Prepared(again) = p
<1>1. PICK w : w = UrlDecode(again)
    OBVIOUS
<1>2. /\ again \in Seq(Token) /\ w \in Seq(Char)
      /\ Len(w) = 12 /\ w[1] = "/"
      /\ \A i \in 1 .. 11 : w[i + 1] = p[i]
    <2>1. Again(again, w, p)
        BY <1>1, DialledAgain, Zenon
    <2> QED BY <2>1 DEF Again
<1>3. /\ w[2] = p[1] /\ w[3] = p[2] /\ w[4] = p[3] /\ w[5] = p[4]
      /\ w[6] = p[5] /\ w[7] = p[6] /\ w[8] = p[7] /\ w[9] = p[8]
      /\ w[10] = p[9] /\ w[11] = p[10] /\ w[12] = p[11]
    BY <1>2
<1>4. PICK f : f = SubSeq(w, 2, 2)
    OBVIOUS
<1>5. Read(w, f, 2, 2, 5, 8)
    <2>1. \A i \in 2 .. 12 : w[i] \in Digit
        <3>1. \A i \in 1 .. 11 : p[i] \in Digit
            BY ElementOfSeq
        <3>2. ASSUME NEW i \in 2 .. 12 PROVE w[i] \in Digit
            <4>1. i - 1 \in 1 .. 11 /\ (i - 1) + 1 = i
                OBVIOUS
            <4> QED BY <1>2, <3>1, <4>1
        <3> QED BY <3>2
    <2>2. 2 \in CodeAt(w)
        BY <1>2, <2>1 DEF CodeAt
    <2>3. Span(w, {"-", "SP", "("}, 2, 2)
        BY <1>2 DEF Span, Filled
    <2>4. Number(w, 2, 5, 8)
        BY <1>2, <2>1 DEF Number, Span, Filled
    <2> QED BY <1>4, <2>2, <2>3, <2>4, Zenon DEF Read
<1>6. IsValid(again) /\ NumberIs(Prepared(again), PreparedCode(f), w, 2, 5, 8)
    BY <1>1, <1>2, <1>5, PreparedIs
<1>7. PreparedCode(f) = p[1]
    <2>1. f # <<>>
        <3>1. Len(f) = 1
            BY <1>2, <1>4, SubSeqProperties
        <3>2. Len(<<>>) = 0
            OBVIOUS
        <3>3. Len(f) # Len(<<>>)
            BY <3>1, <3>2
        <3> QED BY <3>3, Zenon
    <2>2. PreparedCode(f) = IF w[2] = "8" THEN "7" ELSE w[2]
        BY <1>2, <1>5, <2>1, CodeIs
    <2> QED BY <1>3, <2>2
<1>8. PICK q : q = Prepared(again)
    OBVIOUS
<1>9. q \in Seq(Digit) /\ Len(q) = 11
    BY <1>6, <1>8 DEF NumberIs
<1>10. /\ q[1] = p[1] /\ q[2] = p[2] /\ q[3] = p[3] /\ q[4] = p[4]
       /\ q[5] = p[5] /\ q[6] = p[6] /\ q[7] = p[7] /\ q[8] = p[8]
       /\ q[9] = p[9] /\ q[10] = p[10] /\ q[11] = p[11]
    BY <1>3, <1>6, <1>7, <1>8, SMTT(30) DEF NumberIs
<1>11. \A i \in 1 .. Len(q) : q[i] = p[i]
    BY <1>9, <1>10
<1>12. q = p
    BY <1>9, <1>11, SeqEqual
<1> QED BY <1>6, <1>8, <1>12

\* PreparePhoneNumber settles at once: a prepared number, dialled as it stands, is
\* accepted and prepared to itself.
THEOREM PreparedStays == Spec => []PreparedIsStable
<1>1. ASSUME TypeOK, IsValid(target)
      PROVE  /\ IsValid(<<"/">> \o Prepared(target))
             /\ Prepared(<<"/">> \o Prepared(target)) = Prepared(target)
    <2>1. PICK s : s = UrlDecode(target)
        OBVIOUS
    <2>2. s \in Seq(Char)
        BY <1>1, <2>1, Decoded DEF TypeOK
    <2>3. PICK g \in RegexMatches(s) : TRUE
        BY <1>1, <2>1 DEF IsValid, Readings
    <2>4. PICK f, c, x, y, z : Read(s, f, c, x, y, z)
        BY <2>2, <2>3, MatchesAre
    <2>5. PICK p : p = Prepared(target)
        OBVIOUS
    <2>6. NumberIs(p, PreparedCode(f), s, x, y, z)
        BY <1>1, <2>1, <2>4, <2>5, PreparedIs DEF TypeOK
    <2>7. PreparedCode(f) # "8"
        BY <2>2, <2>4, CodeIs
    <2>8. p \in Seq(Digit) /\ Len(p) = 11 /\ p[1] # "8"
        BY <2>6, <2>7 DEF NumberIs
    <2>9. IsValid(Both(<<"/">>, p)) /\ Prepared(Both(<<"/">>, p)) = p
        BY <2>8, PreparedAgain
    <2> QED BY <2>5, <2>9 DEF Both
<1>2. TypeOK => PreparedIsStable
    BY <1>1, Zenon DEF PreparedIsStable
<1> QED BY <1>2, Typed, PTL

-----------------------------------------------------------------------------
(* The digits of a target, counted up to each place *)

At(str, i) == DigitsIn(str)[i]
Count(str, i) == Len(At(str, i))

LEMMA AtIs ==
    ASSUME NEW str \in Seq(Token)
    PROVE  /\ Count(str, 0) = 0
           /\ \A i \in 0 .. Len(str) : At(str, i) \in Seq(Digit) /\ Count(str, i) \in Nat
           /\ \A i \in 0 .. Len(str) - 1 :
                At(str, i + 1) = IF str[i + 1] \in Digit THEN Then(At(str, i), str[i + 1])
                                 ELSE At(str, i)
<1>1. Count(str, 0) = 0
    BY DigitsInIs DEF Count, At
<1>2. ASSUME NEW i \in 0 .. Len(str)
      PROVE  At(str, i) \in Seq(Digit) /\ Count(str, i) \in Nat
    BY DigitsInType DEF Count, At
<1>3. ASSUME NEW i \in 0 .. Len(str) - 1
      PROVE  At(str, i + 1) = IF str[i + 1] \in Digit THEN Then(At(str, i), str[i + 1])
                              ELSE At(str, i)
    <2>1. i + 1 \in 1 .. Len(str) /\ (i + 1) - 1 = i
        OBVIOUS
    <2> QED BY <2>1, DigitsInIs DEF At, Then
<1> QED BY <1>1, <1>2, <1>3

LEMMA OneMore ==
    ASSUME NEW str \in Seq(Token), NEW i \in 0 .. Len(str) - 1
    PROVE  /\ Count(str, i + 1) = Count(str, i) + (IF str[i + 1] \in Digit THEN 1 ELSE 0)
           /\ \A k \in 1 .. Count(str, i) : At(str, i + 1)[k] = At(str, i)[k]
           /\ str[i + 1] \in Digit => At(str, i + 1)[Count(str, i) + 1] = str[i + 1]
<1>1. At(str, i) \in Seq(Digit) /\ Count(str, i) \in Nat
    BY AtIs
<1>2. CASE str[i + 1] \in Digit
    <2>1. PICK h : h = At(str, i)
        OBVIOUS
    <2>2. PICK t : t = Then(h, str[i + 1])
        OBVIOUS
    <2>3. h \in Seq(Digit)
        BY <1>1, <2>1
    <2>4. Appended(t, Digit, h, str[i + 1])
        BY <1>2, <2>2, <2>3, ThenIs
    <2>5. At(str, i + 1) = t
        BY <1>2, <2>1, <2>2, AtIs
    <2> QED BY <1>2, <2>1, <2>4, <2>5, Zenon DEF Count, Appended
<1>3. CASE str[i + 1] \notin Digit
    BY <1>1, <1>3, AtIs DEF Count
<1> QED BY <1>2, <1>3

\* A digit keeps its place among the digits.
LEMMA Kept ==
    ASSUME NEW str \in Seq(Token), NEW b \in 0 .. Len(str), NEW e \in b .. Len(str)
    PROVE  /\ Count(str, b) <= Count(str, e)
           /\ \A k \in 1 .. Count(str, b) : At(str, e)[k] = At(str, b)[k]
<1> DEFINE T == {m \in Nat : b + m <= Len(str) =>
                   /\ Count(str, b) <= Count(str, b + m)
                   /\ \A k \in 1 .. Count(str, b) : At(str, b + m)[k] = At(str, b)[k]}
<1>1. 0 \in T
    <2>1. b + 0 = b /\ Count(str, b) \in Nat
        BY AtIs
    <2> QED BY <2>1
<1>2. ASSUME NEW m \in Nat, m \in T PROVE m + 1 \in T
    <2> SUFFICES ASSUME b + (m + 1) <= Len(str)
                 PROVE  /\ Count(str, b) <= Count(str, b + (m + 1))
                        /\ \A k \in 1 .. Count(str, b) : At(str, b + (m + 1))[k] = At(str, b)[k]
        OBVIOUS
    <2>1. b + m \in 0 .. Len(str) - 1 /\ (b + m) + 1 = b + (m + 1) /\ b + m \in 0 .. Len(str)
        OBVIOUS
    <2>2. Count(str, b) \in Nat /\ Count(str, b + m) \in Nat
        BY <2>1, AtIs
    <2>3. /\ Count(str, b + (m + 1)) =
               Count(str, b + m) + (IF str[b + (m + 1)] \in Digit THEN 1 ELSE 0)
          /\ \A k \in 1 .. Count(str, b + m) : At(str, b + (m + 1))[k] = At(str, b + m)[k]
        BY <2>1, OneMore
    <2>4. /\ Count(str, b) <= Count(str, b + m)
          /\ \A k \in 1 .. Count(str, b) : At(str, b + m)[k] = At(str, b)[k]
        BY <1>2, <2>1
    <2> QED BY <2>2, <2>3, <2>4
<1>3. e - b \in Nat /\ b + (e - b) = e /\ e <= Len(str)
    OBVIOUS
<1>4. e - b \in T
    <2> HIDE DEF T
    <2> QED BY <1>1, <1>2, <1>3, Induction
<1> QED BY <1>3, <1>4

LEMMA DigitIsAt ==
    ASSUME NEW str \in Seq(Token), NEW i \in 1 .. Len(str), str[i] \in Digit
    PROVE  /\ Count(str, i) = Count(str, i - 1) + 1
           /\ DigitsOf(str)[Count(str, i)] = str[i]
<1>1. i - 1 \in 0 .. Len(str) - 1 /\ (i - 1) + 1 = i
    OBVIOUS
<1>2. /\ Count(str, i) = Count(str, i - 1) + 1
      /\ At(str, i)[Count(str, i - 1) + 1] = str[i]
    BY <1>1, OneMore
<1>3. Count(str, i - 1) \in Nat /\ i \in 0 .. Len(str) /\ Len(str) \in i .. Len(str)
    BY <1>1, AtIs
<1>4. At(str, Len(str))[Count(str, i)] = At(str, i)[Count(str, i)]
    BY <1>2, <1>3, Kept
<1>5. DigitsOf(str) = At(str, Len(str))
    BY DEF DigitsOf, At
<1> QED BY <1>2, <1>4, <1>5

LEMMA NoDigits ==
    ASSUME NEW str \in Seq(Token), NEW b \in 0 .. Len(str), NEW e \in b .. Len(str),
           \A k \in b + 1 .. e : str[k] \notin Digit
    PROVE  \A i \in b .. e : Count(str, i) = Count(str, b)
<1> DEFINE T == {m \in Nat : b + m <= e => Count(str, b + m) = Count(str, b)}
<1>1. 0 \in T
    OBVIOUS
<1>2. ASSUME NEW m \in Nat, m \in T PROVE m + 1 \in T
    <2> SUFFICES ASSUME b + (m + 1) <= e PROVE Count(str, b + (m + 1)) = Count(str, b)
        OBVIOUS
    <2>1. /\ b + m \in 0 .. Len(str) - 1 /\ (b + m) + 1 = b + (m + 1)
          /\ b + (m + 1) \in b + 1 .. e
        OBVIOUS
    <2>2. Count(str, b + (m + 1)) = Count(str, b + m) + 0
        BY <2>1, OneMore
    <2>3. Count(str, b + m) \in Nat
        BY <2>1, AtIs
    <2> QED BY <1>2, <2>2, <2>3
<1> SUFFICES ASSUME NEW i \in b .. e PROVE Count(str, i) = Count(str, b)
    OBVIOUS
<1>3. i - b \in Nat /\ b + (i - b) = i /\ i <= e
    OBVIOUS
<1>4. i - b \in T
    <2> HIDE DEF T
    <2> QED BY <1>1, <1>2, <1>3, Induction
<1> QED BY <1>3, <1>4

LEMMA OnlyDigits ==
    ASSUME NEW str \in Seq(Token), NEW b \in 0 .. Len(str), NEW e \in b .. Len(str),
           \A k \in b + 1 .. e : str[k] \in Digit
    PROVE  \A i \in b .. e : Count(str, i) = Count(str, b) + (i - b)
<1> DEFINE T == {m \in Nat : b + m <= e => Count(str, b + m) = Count(str, b) + m}
<1>1. 0 \in T
    <2>1. b + 0 = b /\ Count(str, b) \in Nat
        BY AtIs
    <2> QED BY <2>1
<1>2. ASSUME NEW m \in Nat, m \in T PROVE m + 1 \in T
    <2> SUFFICES ASSUME b + (m + 1) <= e PROVE Count(str, b + (m + 1)) = Count(str, b) + (m + 1)
        OBVIOUS
    <2>1. /\ b + m \in 0 .. Len(str) - 1 /\ (b + m) + 1 = b + (m + 1)
          /\ b + (m + 1) \in b + 1 .. e
        OBVIOUS
    <2>2. Count(str, b + (m + 1)) = Count(str, b + m) + 1
        BY <2>1, OneMore
    <2>3. Count(str, b) \in Nat
        BY AtIs
    <2> QED BY <1>2, <2>2, <2>3
<1> SUFFICES ASSUME NEW i \in b .. e PROVE Count(str, i) = Count(str, b) + (i - b)
    OBVIOUS
<1>3. i - b \in Nat /\ b + (i - b) = i /\ i <= e
    OBVIOUS
<1>4. i - b \in T
    <2> HIDE DEF T
    <2> QED BY <1>1, <1>2, <1>3, Induction
<1> QED BY <1>3, <1>4

\* How many digits stand before each place, when n stand before the groups.
Counted(str, n, c, x, y, z) ==
    /\ \A i \in c .. x : Count(str, i) = n
    /\ \A i \in x .. x + 3 : Count(str, i) = n + (i - x)
    /\ \A i \in x + 3 .. y : Count(str, i) = n + 3
    /\ \A i \in y .. y + 3 : Count(str, i) = n + 3 + (i - y)
    /\ \A i \in y + 3 .. z : Count(str, i) = n + 6
    /\ \A i \in z .. z + 4 : Count(str, i) = n + 6 + (i - z)
    /\ \A i \in z + 4 .. Len(str) : Count(str, i) = n + 10

LEMMA CountIs ==
    ASSUME NEW str \in Seq(Token), NEW c \in Nat, NEW x, NEW y, NEW z,
           GroupsAt(str, c, x, y, z), NEW n \in Nat, Count(str, c) = n
    PROVE  Counted(str, n, c, x, y, z)
<1>1. /\ x \in Nat /\ y \in Nat /\ z \in Nat /\ Len(str) \in Nat
      /\ c <= x /\ x + 3 <= y /\ y + 3 <= z /\ z + 4 <= Len(str)
    BY DEF GroupsAt
<1>2. /\ \A k \in c + 1 .. x : str[k] \notin Digit
      /\ \A k \in (x + 3) + 1 .. y : str[k] \notin Digit
      /\ \A k \in (y + 3) + 1 .. z : str[k] \notin Digit
      /\ \A k \in (z + 4) + 1 .. Len(str) : str[k] \notin Digit
    BY <1>1 DEF GroupsAt
<1>3. /\ \A k \in x + 1 .. x + 3 : str[k] \in Digit
      /\ \A k \in y + 1 .. y + 3 : str[k] \in Digit
      /\ \A k \in z + 1 .. z + 4 : str[k] \in Digit
    BY <1>1 DEF GroupsAt
<1>4. /\ c \in 0 .. Len(str) /\ x \in c .. Len(str) /\ x \in 0 .. Len(str)
      /\ x + 3 \in x .. Len(str) /\ x + 3 \in 0 .. Len(str)
      /\ y \in x + 3 .. Len(str) /\ y \in 0 .. Len(str)
      /\ y + 3 \in y .. Len(str) /\ y + 3 \in 0 .. Len(str)
      /\ z \in y + 3 .. Len(str) /\ z \in 0 .. Len(str)
      /\ z + 4 \in z .. Len(str) /\ z + 4 \in 0 .. Len(str)
      /\ Len(str) \in z + 4 .. Len(str)
    BY <1>1
<1>5. \A i \in c .. x : Count(str, i) = n
    BY <1>2, <1>4, NoDigits
<1>6. \A i \in x .. x + 3 : Count(str, i) = n + (i - x)
    <2>1. Count(str, x) = n
        BY <1>1, <1>5
    <2> QED BY <1>3, <1>4, <2>1, OnlyDigits
<1>7. \A i \in x + 3 .. y : Count(str, i) = n + 3
    <2>1. Count(str, x + 3) = n + 3
        BY <1>1, <1>6
    <2> QED BY <1>2, <1>4, <2>1, NoDigits
<1>8. \A i \in y .. y + 3 : Count(str, i) = n + 3 + (i - y)
    <2>1. Count(str, y) = n + 3
        BY <1>1, <1>7
    <2> QED BY <1>3, <1>4, <2>1, OnlyDigits
<1>9. \A i \in y + 3 .. z : Count(str, i) = n + 6
    <2>1. Count(str, y + 3) = n + 6
        BY <1>1, <1>8
    <2> QED BY <1>2, <1>4, <2>1, NoDigits
<1>10. \A i \in z .. z + 4 : Count(str, i) = n + 6 + (i - z)
    <2>1. Count(str, z) = n + 6
        BY <1>1, <1>9
    <2> QED BY <1>3, <1>4, <2>1, OnlyDigits
<1>11. \A i \in z + 4 .. Len(str) : Count(str, i) = n + 10
    <2>1. Count(str, z + 4) = n + 10
        BY <1>1, <1>10
    <2> QED BY <1>2, <1>4, <2>1, NoDigits
<1> QED BY <1>5, <1>6, <1>7, <1>8, <1>9, <1>10, <1>11 DEF Counted

LEMMA ReadCount ==
    ASSUME NEW str \in Seq(Token), NEW s, s = UrlDecode(str),
           NEW f, NEW c, NEW x, NEW y, NEW z, Read(s, f, c, x, y, z)
    PROVE  /\ c \in 1 .. Len(str) /\ GroupsAt(str, c, x, y, z)
           /\ \/ /\ c \in Slash(s) /\ f = <<>>
                 /\ Counted(str, 0, c, x, y, z) /\ \A i \in 0 .. c : Count(str, i) = 0
              \/ /\ c \in CodeAt(s) /\ f = <<s[c]>>
                 /\ Counted(str, 1, c, x, y, z) /\ \A i \in 0 .. c - 1 : Count(str, i) = 0
<1>1. /\ s \in Seq(Char) /\ Len(s) = Len(str) /\ Len(str) \in Nat
      /\ \A i \in 1 .. Len(str) : s[i] = IF str[i] = "%20" THEN "SP" ELSE str[i]
    BY Decoded
<1>2. \A t \in {"/", "SP", "+", "%20"} : t \notin Digit
    BY DEF Digit
<1>3. \A i \in 1 .. Len(str) : str[i] \in Digit <=> s[i] \in Digit
    BY <1>1, <1>2
<1>4. c \in 1 .. Len(str)
    BY <1>1 DEF Read, CodeAt, Slash
<1>5. GroupsAt(str, c, x, y, z)
    <2>1. GroupsAt(s, c, x, y, z)
        BY <1>1, <1>4, NumberPlaces DEF Read
    <2> QED BY <1>1, <1>3, <1>4, <2>1 DEF GroupsAt
<1>6. Count(str, 0) = 0 /\ 0 \in 0 .. Len(str) /\ c \in 0 .. Len(str) /\ c - 1 \in 0 .. Len(str)
    BY <1>1, <1>4, AtIs
<1>7. CASE c \in Slash(s) /\ f = <<>>
    <2>1. \A i \in 0 + 1 .. c : str[i] \notin Digit
        BY <1>1, <1>2, <1>3, <1>7 DEF Slash, Filled
    <2>2. \A i \in 0 .. c : Count(str, i) = 0
        BY <1>6, <2>1, NoDigits
    <2>3. Counted(str, 0, c, x, y, z)
        BY <1>4, <1>5, <2>2, CountIs
    <2> QED BY <1>4, <1>5, <1>7, <2>2, <2>3
<1>8. CASE c \in CodeAt(s) /\ f = SubSeq(s, c, c)
    <2>1. \A i \in 0 + 1 .. c - 1 : str[i] \notin Digit
        BY <1>1, <1>2, <1>3, <1>8 DEF CodeAt
    <2>2. \A i \in 0 .. c - 1 : Count(str, i) = 0
        BY <1>6, <2>1, NoDigits
    <2>3. str[c] \in Digit
        BY <1>3, <1>4, <1>8 DEF CodeAt
    <2>4. Count(str, c) = 1
        BY <1>4, <2>2, <2>3, DigitIsAt
    <2>5. Counted(str, 1, c, x, y, z)
        BY <1>4, <1>5, <2>4, CountIs
    <2>6. f = <<s[c]>>
        BY <1>1, <1>4, <1>8, OneToken
    <2> QED BY <1>4, <1>5, <1>8, <2>2, <2>5, <2>6
<1> QED BY <1>7, <1>8 DEF Read

-----------------------------------------------------------------------------
(* One form for each number *)

\* d holds n digits and then those of str that start behind x, y and z.
TenAt(d, n, str, x, y, z) ==
    /\ d \in Seq(Digit) /\ Len(d) = n + 10
    /\ \A k \in 1 .. 3 : d[n + k] = str[x + k] /\ str[x + k] \in Digit
    /\ \A k \in 1 .. 3 : d[n + 3 + k] = str[y + k] /\ str[y + k] \in Digit
    /\ \A k \in 1 .. 4 : d[n + 6 + k] = str[z + k] /\ str[z + k] \in Digit

LEMMA DigitsFound ==
    ASSUME NEW str \in Seq(Token), NEW c \in 1 .. Len(str), NEW x, NEW y, NEW z, NEW n \in Nat,
           GroupsAt(str, c, x, y, z), Counted(str, n, c, x, y, z)
    PROVE  TenAt(DigitsOf(str), n, str, x, y, z)
<1>1. /\ x \in Nat /\ y \in Nat /\ z \in Nat /\ Len(str) \in Nat
      /\ c <= x /\ x + 3 <= y /\ y + 3 <= z /\ z + 4 <= Len(str)
    BY DEF GroupsAt
<1>2. DigitsOf(str) \in Seq(Digit) /\ Len(DigitsOf(str)) = n + 10
    <2>1. DigitsOf(str) = At(str, Len(str))
        BY DEF DigitsOf, At
    <2>2. Len(str) \in 0 .. Len(str) /\ Len(str) \in z + 4 .. Len(str)
        BY <1>1
    <2>3. At(str, Len(str)) \in Seq(Digit)
        BY <2>2, AtIs
    <2>4. Count(str, Len(str)) = n + 10
        BY <2>2 DEF Counted
    <2> QED BY <2>1, <2>3, <2>4, Zenon DEF Count
<1>3. ASSUME NEW k \in 1 .. 3
      PROVE  DigitsOf(str)[n + k] = str[x + k] /\ str[x + k] \in Digit
    <2>1. x + k \in 1 .. Len(str) /\ x + k \in x + 1 .. x + 3 /\ x + k \in c + 1 .. Len(str)
        BY <1>1
    <2>2. str[x + k] \in Digit
        BY <2>1 DEF GroupsAt
    <2>3. Count(str, x + k) = n + k
        BY <1>1, <2>1 DEF Counted
    <2> QED BY <2>1, <2>2, <2>3, DigitIsAt
<1>4. ASSUME NEW k \in 1 .. 3
      PROVE  DigitsOf(str)[n + 3 + k] = str[y + k] /\ str[y + k] \in Digit
    <2>1. y + k \in 1 .. Len(str) /\ y + k \in y + 1 .. y + 3 /\ y + k \in c + 1 .. Len(str)
        BY <1>1
    <2>2. str[y + k] \in Digit
        BY <2>1 DEF GroupsAt
    <2>3. Count(str, y + k) = n + 3 + k
        BY <1>1, <2>1 DEF Counted
    <2> QED BY <2>1, <2>2, <2>3, DigitIsAt
<1>5. ASSUME NEW k \in 1 .. 4
      PROVE  DigitsOf(str)[n + 6 + k] = str[z + k] /\ str[z + k] \in Digit
    <2>1. z + k \in 1 .. Len(str) /\ z + k \in z + 1 .. z + 4 /\ z + k \in c + 1 .. Len(str)
        BY <1>1
    <2>2. str[z + k] \in Digit
        BY <2>1 DEF GroupsAt
    <2>3. Count(str, z + k) = n + 6 + k
        BY <1>1, <2>1 DEF Counted
    <2> QED BY <2>1, <2>2, <2>3, DigitIsAt
<1> QED BY <1>2, <1>3, <1>4, <1>5 DEF TenAt

LEMMA CodeThenTen ==
    ASSUME NEW k \in Digit, NEW d \in Seq(Digit), NEW n \in Nat, Len(d) = n + 10,
           NEW p, p \in Seq(Digit), Len(p) = 11, p[1] = k,
           \A i \in 1 .. 10 : p[i + 1] = d[n + i]
    PROVE  p = Both(<<k>>, SubSeq(d, n + 1, n + 10))
<1>1. PICK h : h = <<k>>
    OBVIOUS
<1>2. PICK t : t = SubSeq(d, n + 1, n + 10)
    OBVIOUS
<1>3. PICK q : q = Both(h, t)
    OBVIOUS
<1>4. h \in Seq(Digit)
    BY <1>1
<1>5. /\ t \in Seq(Digit) /\ Len(t) = 10
      /\ \A i \in 1 .. 10 : t[i] = d[n + i]
    <2>1. Filled(d, n + 1, n + 10, Digit)
        BY ElementOfSeq DEF Filled
    <2>2. Part(SubSeq(d, n + 1, n + 10), Digit, d, n, 10)
        BY <2>1, PartIs
    <2> QED BY <1>2, <2>2, Zenon DEF Part
<1>6. Joined(q, Digit, h, t)
    BY <1>3, <1>4, <1>5, BothIs
<1>7. Len(h) = 1 /\ h[1] = k
    BY <1>1
<1>8. /\ q \in Seq(Digit) /\ Len(q) = 11 /\ q[1] = k
      /\ \A i \in 2 .. 11 : q[i] = t[i - 1]
    BY <1>5, <1>6, <1>7 DEF Joined
<1>9. ASSUME NEW i \in 1 .. 11 PROVE p[i] = q[i]
    <2>1. CASE i = 1
        BY <1>8, <2>1
    <2>2. CASE i # 1
        <3>1. i - 1 \in 1 .. 10 /\ (i - 1) + 1 = i
            BY <2>2
        <3>2. p[(i - 1) + 1] = d[n + (i - 1)]
            BY <3>1
        <3>3. t[i - 1] = d[n + (i - 1)]
            BY <1>5, <3>1
        <3>4. q[i] = t[i - 1]
            <4>1. i \in 2 .. 11
                BY <2>2
            <4> QED BY <1>8, <4>1
        <3> QED BY <3>1, <3>2, <3>3, <3>4
    <2> QED BY <2>1, <2>2
<1>10. p = q
    BY <1>8, <1>9, SeqEqual
<1> QED BY <1>1, <1>2, <1>3, <1>10, Zenon

LEMMA FormIs ==
    ASSUME NEW str \in Seq(Token), IsValid(str),
           NEW digits, digits = DigitsOf(str),
           NEW code, code = IF Len(digits) = 11 THEN Head(digits) ELSE "7"
    PROVE  Prepared(str) = <<IF code = "8" THEN "7" ELSE code>>
                             \o SubSeq(digits, Len(digits) - 9, Len(digits))
<1>1. PICK s : s = UrlDecode(str)
    OBVIOUS
<1>2. /\ s \in Seq(Char) /\ Len(s) = Len(str)
      /\ \A i \in 1 .. Len(str) : s[i] = IF str[i] = "%20" THEN "SP" ELSE str[i]
    BY <1>1, Decoded
<1>3. PICK g \in RegexMatches(s) : TRUE
    BY <1>1 DEF IsValid, Readings
<1>4. PICK f, c, x, y, z : Read(s, f, c, x, y, z)
    BY <1>2, <1>3, MatchesAre
<1>5. PICK p : p = Prepared(str)
    OBVIOUS
<1>6. NumberIs(p, PreparedCode(f), s, x, y, z)
    BY <1>1, <1>4, <1>5, PreparedIs
<1>7. /\ c \in 1 .. Len(str) /\ GroupsAt(str, c, x, y, z)
      /\ \/ /\ c \in Slash(s) /\ f = <<>>
            /\ Counted(str, 0, c, x, y, z) /\ \A i \in 0 .. c : Count(str, i) = 0
         \/ /\ c \in CodeAt(s) /\ f = <<s[c]>>
            /\ Counted(str, 1, c, x, y, z) /\ \A i \in 0 .. c - 1 : Count(str, i) = 0
    BY <1>1, <1>4, ReadCount
<1>8. ASSUME NEW n \in Nat, Counted(str, n, c, x, y, z), NEW k, k = PreparedCode(f)
      PROVE  Len(digits) = n + 10 /\ p = Both(<<k>>, SubSeq(digits, n + 1, n + 10))
    <2>1. /\ digits \in Seq(Digit) /\ Len(digits) = n + 10
          /\ \A i \in 1 .. 3 : digits[n + i] = str[x + i] /\ str[x + i] \in Digit
          /\ \A i \in 1 .. 3 : digits[n + 3 + i] = str[y + i] /\ str[y + i] \in Digit
          /\ \A i \in 1 .. 4 : digits[n + 6 + i] = str[z + i] /\ str[z + i] \in Digit
        <3>1. TenAt(digits, n, str, x, y, z)
            BY <1>7, <1>8, DigitsFound
        <3> QED BY <3>1 DEF TenAt
    <2>2. "%20" \notin Digit
        BY DEF Digit
    <2>3. /\ x \in Nat /\ y \in Nat /\ z \in Nat /\ Len(str) \in Nat
          /\ c <= x /\ x + 3 <= y /\ y + 3 <= z /\ z + 4 <= Len(str)
        BY <1>7 DEF GroupsAt
    <2>4. /\ \A i \in 1 .. 3 : s[x + i] = digits[n + i]
          /\ \A i \in 1 .. 3 : s[y + i] = digits[n + 3 + i]
          /\ \A i \in 1 .. 4 : s[z + i] = digits[n + 6 + i]
        <3>1. \A i \in 1 .. Len(str) : str[i] \in Digit => s[i] = str[i]
            BY <1>2, <2>2
        <3>2. /\ \A i \in 1 .. 3 : x + i \in 1 .. Len(str) /\ y + i \in 1 .. Len(str)
              /\ \A i \in 1 .. 4 : z + i \in 1 .. Len(str)
            BY <1>7, <2>3
        <3> QED BY <2>1, <3>1, <3>2
    <2>5. /\ p[2] = digits[n + 1] /\ p[3] = digits[n + 2] /\ p[4] = digits[n + 3]
          /\ p[5] = digits[n + 4] /\ p[6] = digits[n + 5] /\ p[7] = digits[n + 6]
          /\ p[8] = digits[n + 7] /\ p[9] = digits[n + 8] /\ p[10] = digits[n + 9]
          /\ p[11] = digits[n + 10]
        <3>1. /\ s[x + 1] = digits[n + 1] /\ s[x + 2] = digits[n + 2] /\ s[x + 3] = digits[n + 3]
            BY <2>4
        <3>2. /\ s[y + 1] = digits[n + 4] /\ s[y + 2] = digits[n + 5] /\ s[y + 3] = digits[n + 6]
            BY <2>4
        <3>3. /\ s[z + 1] = digits[n + 7] /\ s[z + 2] = digits[n + 8]
              /\ s[z + 3] = digits[n + 9] /\ s[z + 4] = digits[n + 10]
            BY <2>4
        <3> QED BY <1>6, <3>1, <3>2, <3>3 DEF NumberIs
    <2>6. \A i \in 1 .. 10 : p[i + 1] = digits[n + i]
        <3> SUFFICES ASSUME NEW i \in 1 .. 10 PROVE p[i + 1] = digits[n + i]
            OBVIOUS
        <3>1. i \in 1 .. 5 \/ i \in 6 .. 10
            OBVIOUS
        <3>2. CASE i \in 1 .. 5
            <4>1. i = 1 \/ i = 2 \/ i = 3 \/ i = 4 \/ i = 5
                BY <3>2
            <4> QED BY <2>5, <4>1, SMTT(30)
        <3>3. CASE i \in 6 .. 10
            <4>1. i = 6 \/ i = 7 \/ i = 8 \/ i = 9 \/ i = 10
                BY <3>3
            <4> QED BY <2>5, <4>1, SMTT(30)
        <3> QED BY <3>1, <3>2, <3>3
    <2>7. p \in Seq(Digit) /\ Len(p) = 11 /\ p[1] = k /\ k \in Digit
        BY <1>6, <1>8, ElementOfSeq DEF NumberIs
    <2> QED BY <2>1, <2>6, <2>7, CodeThenTen
<1>9. CASE Counted(str, 0, c, x, y, z) /\ f = <<>>
    <2>1. PreparedCode(f) = "7"
        BY <1>9 DEF PreparedCode
    <2>2. Len(digits) = 0 + 10 /\ p = Both(<<"7">>, SubSeq(digits, 0 + 1, 0 + 10))
        BY <1>8, <1>9, <2>1
    <2>3. (IF code = "8" THEN "7" ELSE code) = "7" /\ Len(digits) - 9 = 0 + 1
        BY <2>2
    <2> QED BY <1>5, <2>2, <2>3 DEF Both
<1>10. CASE /\ Counted(str, 1, c, x, y, z) /\ f = <<s[c]>> /\ c \in CodeAt(s)
            /\ \A i \in 0 .. c - 1 : Count(str, i) = 0
    <2>1. PICK k : k = PreparedCode(f)
        OBVIOUS
    <2>2. Len(digits) = 1 + 10 /\ p = Both(<<k>>, SubSeq(digits, 1 + 1, 1 + 10))
        BY <1>8, <1>10, <2>1
    <2>3. k = IF s[c] = "8" THEN "7" ELSE s[c]
        <3>1. <<s[c]>> # <<>>
            OBVIOUS
        <3> QED BY <1>2, <1>4, <1>10, <2>1, <3>1, CodeIs
    <2>4. s[c] = str[c] /\ str[c] \in Digit
        <3>1. "%20" \notin Digit /\ "SP" \notin Digit
            BY DEF Digit
        <3> QED BY <1>2, <1>7, <1>10, <3>1 DEF CodeAt
    <2>5. digits[1] = str[c]
        <3>1. Count(str, c - 1) = 0
            BY <1>7, <1>10
        <3> QED BY <1>7, <2>4, <3>1, DigitIsAt
    <2>6. code = s[c] /\ Len(digits) - 9 = 1 + 1
        BY <2>2, <2>4, <2>5
    <2> QED BY <1>5, <2>2, <2>3, <2>6 DEF Both
<1> QED BY <1>7, <1>9, <1>10

\* However a number is typed, with or without marks, with +7, 8 or no code, isValidPhoneNumber
\* makes the same digits of it: the queue, which compares them, knows a caller who is waiting.
THEOREM OneForm == Spec => []OneFormPerNumber
<1>1. TypeOK => OneFormPerNumber
    BY FormIs DEF TypeOK, OneFormPerNumber
<1> QED BY <1>1, Typed, PTL

-----------------------------------------------------------------------------
(* The rules for a caller *)

LEMMA MarksAre ==
    /\ MayStand(11) = {"%20", "+"} /\ MayStand(10) = {"%20", "-", "("}
    /\ MayStand(7) = {"%20", "-", ")"} /\ MayStand(4) = {"%20", "-"} /\ MayStand(0) = {"%20"}
    /\ \A k \in {1, 2, 3, 5, 6, 8, 9} : MayStand(k) = {}
<1>1. MayStand(11) = {"%20", "+"}
    BY DEF MayStand
<1>2. MayStand(10) = {"%20", "-", "("}
    BY DEF MayStand
<1>3. MayStand(7) = {"%20", "-", ")"}
    BY DEF MayStand
<1>4. MayStand(4) = {"%20", "-"}
    BY DEF MayStand
<1>5. MayStand(0) = {"%20"}
    BY DEF MayStand
<1>6. \A k \in {1, 2, 3, 5, 6, 8, 9} : MayStand(k) = {}
    BY DEF MayStand
<1> QED BY <1>1, <1>2, <1>3, <1>4, <1>5, <1>6

\* The rules for a caller who types n digits.
Rules(str, n) ==
    \A i \in 2 .. Len(str) :
      \/ str[i] \in Digit
      \/ str[i] \in MayStand(n - Count(str, i)) /\ (str[i] = "+" => str[i + 1] \in Digit)

LEMMA DialledIs ==
    ASSUME NEW str \in Seq(Token)
    PROVE  /\ Len(DigitsOf(str)) = Count(str, Len(str))
           /\ WellDialled(str) <=> /\ Count(str, Len(str)) \in {10, 11}
                                   /\ Rules(str, Count(str, Len(str)))
BY DEF WellDialled, Rules, Count, At, DigitsOf

LEMMA GapsOf ==
    ASSUME NEW s \in Seq(Char), NEW f, NEW c, NEW x, NEW y, NEW z, Read(s, f, c, x, y, z)
    PROVE  /\ \A k \in c + 1 .. x : s[k] \in {"-", "SP", "("}
           /\ \A k \in x + 4 .. y : s[k] \in {"-", "SP", ")"}
           /\ \A k \in y + 4 .. z : s[k] \in {"-", "SP"}
           /\ \A k \in z + 5 .. Len(s) : s[k] \in {"SP"}
<1>1. x \in Nat /\ y \in Nat /\ z \in Nat
    BY DEF Read, Number, Span
<1>2. (x + 3) + 1 = x + 4 /\ (y + 3) + 1 = y + 4 /\ (z + 4) + 1 = z + 5
    BY <1>1
<1> QED BY <1>2 DEF Read, Number, Span, Filled

LEMMA AcceptedIsDialled ==
    ASSUME NEW str \in Seq(Token), IsValid(str)
    PROVE  WellDialled(str)
<1>1. PICK s : s = UrlDecode(str)
    OBVIOUS
<1>2. /\ s \in Seq(Char) /\ Len(s) = Len(str) /\ Len(str) \in Nat
      /\ \A i \in 1 .. Len(str) : s[i] = IF str[i] = "%20" THEN "SP" ELSE str[i]
    BY <1>1, Decoded
<1>3. PICK g \in RegexMatches(s) : TRUE
    BY <1>1 DEF IsValid, Readings
<1>4. PICK f, c, x, y, z : Read(s, f, c, x, y, z)
    BY <1>2, <1>3, MatchesAre
<1>5. /\ c \in 1 .. Len(str) /\ GroupsAt(str, c, x, y, z)
      /\ \/ /\ c \in Slash(s) /\ f = <<>>
            /\ Counted(str, 0, c, x, y, z) /\ \A i \in 0 .. c : Count(str, i) = 0
         \/ /\ c \in CodeAt(s) /\ f = <<s[c]>>
            /\ Counted(str, 1, c, x, y, z) /\ \A i \in 0 .. c - 1 : Count(str, i) = 0
    BY <1>1, <1>4, ReadCount
<1>6. /\ x \in Nat /\ y \in Nat /\ z \in Nat
      /\ c <= x /\ x + 3 <= y /\ y + 3 <= z /\ z + 4 <= Len(str)
    BY <1>5 DEF GroupsAt
<1>7. /\ \A k \in c + 1 .. x : s[k] \in {"-", "SP", "("}
      /\ \A k \in x + 4 .. y : s[k] \in {"-", "SP", ")"}
      /\ \A k \in y + 4 .. z : s[k] \in {"-", "SP"}
      /\ \A k \in z + 5 .. Len(s) : s[k] \in {"SP"}
    BY <1>2, <1>4, GapsOf
<1>8. ASSUME NEW i \in 1 .. Len(str), str[i] \notin Digit
      PROVE  /\ s[i] \in {"-", "SP", "("} => str[i] \in MayStand(10) /\ str[i] # "+"
             /\ s[i] \in {"-", "SP", ")"} => str[i] \in MayStand(7) /\ str[i] # "+"
             /\ s[i] \in {"-", "SP"} => str[i] \in MayStand(4) /\ str[i] # "+"
             /\ s[i] \in {"SP"} => str[i] \in MayStand(0) /\ str[i] # "+"
             /\ s[i] \in {"SP", "+"} => str[i] \in MayStand(11)
             /\ s[i] = "SP" => str[i] = "%20"
             /\ str[i] = "+" => s[i] = "+"
    <2>1. str[i] \in Token /\ "SP" \notin Token
        BY ElementOfSeq DEF Token, Mark, Digit
    <2>2. s[i] = IF str[i] = "%20" THEN "SP" ELSE str[i]
        BY <1>2
    <2> QED BY <2>1, <2>2, MarksAre
<1>9. ASSUME NEW n \in {0, 1}, Counted(str, n, c, x, y, z), NEW m, m = n + 10,
             NEW i \in c + 1 .. Len(str), str[i] \notin Digit
      PROVE  str[i] \in MayStand(m - Count(str, i)) /\ str[i] # "+"
    <2>1. \/ i \in c + 1 .. x \/ i \in x + 4 .. y \/ i \in y + 4 .. z
          \/ i \in z + 5 .. Len(str)
        BY <1>5, <1>6, <1>9 DEF GroupsAt
    <2>2. i \in 1 .. Len(str)
        BY <1>5
    <2>3. CASE i \in c + 1 .. x
        <3>1. Count(str, i) = n
            BY <1>5, <1>9, <2>3 DEF Counted
        <3>2. m - Count(str, i) = 10
            BY <1>9, <3>1
        <3> QED BY <1>7, <1>8, <1>9, <2>2, <2>3, <3>2
    <2>4. CASE i \in x + 4 .. y
        <3>1. Count(str, i) = n + 3
            BY <1>6, <1>9, <2>4 DEF Counted
        <3>2. m - Count(str, i) = 7
            BY <1>9, <3>1
        <3> QED BY <1>7, <1>8, <1>9, <2>2, <2>4, <3>2
    <2>5. CASE i \in y + 4 .. z
        <3>1. Count(str, i) = n + 6
            BY <1>6, <1>9, <2>5 DEF Counted
        <3>2. m - Count(str, i) = 4
            BY <1>9, <3>1
        <3> QED BY <1>7, <1>8, <1>9, <2>2, <2>5, <3>2
    <2>6. CASE i \in z + 5 .. Len(str)
        <3>1. Count(str, i) = n + 10
            BY <1>6, <1>9, <2>6 DEF Counted
        <3>2. m - Count(str, i) = 0
            BY <1>9, <3>1
        <3> QED BY <1>2, <1>7, <1>8, <1>9, <2>2, <2>6, <3>2
    <2> QED BY <2>1, <2>3, <2>4, <2>5, <2>6
<1>10. ASSUME NEW n \in {0, 1}, Counted(str, n, c, x, y, z)
       PROVE  Count(str, Len(str)) = n + 10
    BY <1>2, <1>6, <1>10 DEF Counted
<1>11. CASE /\ c \in Slash(s) /\ Counted(str, 0, c, x, y, z)
            /\ \A i \in 0 .. c : Count(str, i) = 0
    <2>1. Count(str, Len(str)) = 10
        BY <1>10, <1>11
    <2>2. ASSUME NEW i \in 2 .. Len(str), str[i] \notin Digit
          PROVE  str[i] \in MayStand(10 - Count(str, i)) /\ str[i] # "+"
        <3>1. CASE i \in c + 1 .. Len(str)
            BY <1>9, <1>11, <2>2, <3>1
        <3>2. CASE i <= c
            <4>1. s[i] = "SP" /\ Count(str, i) = 0
                BY <1>2, <1>11, <3>2 DEF Slash, Filled
            <4>2. 10 - Count(str, i) = 10 /\ i \in 1 .. Len(str)
                BY <4>1
            <4> QED BY <1>8, <2>2, <4>1, <4>2
        <3> QED BY <1>5, <3>1, <3>2
    <2>3. Rules(str, 10)
        BY <2>2 DEF Rules
    <2> QED BY <2>1, <2>3, DialledIs
<1>12. CASE /\ c \in CodeAt(s) /\ Counted(str, 1, c, x, y, z)
            /\ \A i \in 0 .. c - 1 : Count(str, i) = 0
    <2>1. Count(str, Len(str)) = 11
        BY <1>10, <1>12
    <2>2. ASSUME NEW i \in 2 .. Len(str), str[i] \notin Digit
          PROVE  /\ str[i] \in MayStand(11 - Count(str, i))
                 /\ str[i] = "+" => str[i + 1] \in Digit
        <3>1. CASE i \in c + 1 .. Len(str)
            BY <1>9, <1>12, <2>2, <3>1
        <3>2. str[c] \in Digit
            <4>1. "%20" \notin Digit /\ "SP" \notin Digit
                BY DEF Digit
            <4> QED BY <1>2, <1>5, <1>12, <4>1 DEF CodeAt
        <3>3. CASE i < c
            <4>1. (s[i] = "SP" \/ (s[i] = "+" /\ i = c - 1)) /\ Count(str, i) = 0
                BY <1>2, <1>12, <3>3 DEF CodeAt
            <4>2. 11 - Count(str, i) = 11 /\ i \in 1 .. Len(str)
                BY <4>1
            <4>3. str[i] \in MayStand(11 - Count(str, i))
                BY <1>8, <2>2, <4>1, <4>2
            <4>4. ASSUME str[i] = "+" PROVE str[i + 1] \in Digit
                <5>1. s[i] = "+"
                    BY <1>8, <2>2, <4>2, <4>4
                <5>2. i + 1 = c
                    BY <1>5, <4>1, <5>1
                <5> QED BY <3>2, <5>2
            <4> QED BY <4>3, <4>4
        <3> QED BY <1>5, <2>2, <3>1, <3>2, <3>3
    <2>3. Rules(str, 11)
        BY <2>2 DEF Rules
    <2> QED BY <2>1, <2>3, DialledIs
<1> QED BY <1>5, <1>11, <1>12

\* j is the place of the m-th digit.
Place(str, m, j) == j \in 1 .. Len(str) /\ str[j] \in Digit /\ Count(str, j) = m

LEMMA EveryDigitHasAPlace ==
    ASSUME NEW str \in Seq(Token), NEW n, n = Count(str, Len(str)),
           NEW m \in Nat, 1 <= m, m <= n
    PROVE  \E j \in Nat : Place(str, m, j)
<1> DEFINE T == {i \in Nat : i <= Len(str) /\ m <= Count(str, i)}
<1>1. Len(str) \in T
    OBVIOUS
<1>2. PICK j \in T : \A i \in T : j <= i
    <2>1. T \subseteq Nat /\ T # {}
        BY <1>1
    <2> HIDE DEF T
    <2> QED BY <2>1, LeastNumber
<1>3. j # 0 /\ m \in Nat /\ m >= 1
    <2>1. Count(str, 0) = 0 /\ Len(str) \in 0 .. Len(str)
        BY AtIs
    <2>2. Count(str, Len(str)) \in Nat
        BY <2>1, AtIs
    <2> QED BY <1>2, <2>1, <2>2
<1>4. j - 1 \in 0 .. Len(str) - 1 /\ (j - 1) + 1 = j /\ j - 1 \in 0 .. Len(str)
    BY <1>2, <1>3
<1>5. Count(str, j - 1) \in Nat
    BY <1>4, AtIs
<1>6. ~(m <= Count(str, j - 1))
    BY <1>2, <1>4
<1>7. Count(str, j) = Count(str, j - 1) + (IF str[j] \in Digit THEN 1 ELSE 0)
    BY <1>4, OneMore
<1>8. m <= Count(str, j)
    BY <1>2
<1> QED BY <1>2, <1>3, <1>5, <1>6, <1>7, <1>8 DEF Place

\* After j the next digit is at k; up to j there are m digits.
NextDigit(str, m, j, k) ==
    /\ j < k /\ k \in Nat
    /\ \A i \in j .. k - 1 : Count(str, i) = m
    /\ \A i \in j + 1 .. k - 1 : str[i] \notin Digit

LEMMA Between ==
    ASSUME NEW str \in Seq(Token), NEW m \in Nat, NEW j \in 0 .. Len(str), Count(str, j) = m,
           NEW n, n = m + 1, NEW k, Place(str, n, k)
    PROVE  NextDigit(str, m, j, k)
<1>1. k \in 1 .. Len(str) /\ str[k] \in Digit /\ Count(str, k) = m + 1
    BY DEF Place
<1>2. j < k
    <2> SUFFICES ASSUME k <= j PROVE FALSE
        BY <1>1
    <2>1. k \in 0 .. Len(str) /\ j \in k .. Len(str)
        BY <1>1
    <2>2. Count(str, k) <= Count(str, j)
        BY <2>1, Kept
    <2> QED BY <1>1, <2>2
<1>3. k - 1 \in 0 .. Len(str) /\ Count(str, k - 1) = m
    <2>1. k - 1 \in 0 .. Len(str)
        BY <1>1
    <2>2. Count(str, k - 1) \in Nat
        BY <2>1, AtIs
    <2>3. Count(str, k) = Count(str, k - 1) + 1
        BY <1>1, DigitIsAt
    <2> QED BY <1>1, <2>1, <2>2, <2>3
<1>4. ASSUME NEW i \in j .. k - 1 PROVE Count(str, i) = m
    <2>1. i \in 0 .. Len(str) /\ i \in j .. Len(str) /\ k - 1 \in i .. Len(str)
        BY <1>3
    <2>2. Count(str, i) \in Nat
        BY <2>1, AtIs
    <2>3. Count(str, j) <= Count(str, i) /\ Count(str, i) <= Count(str, k - 1)
        BY <2>1, Kept
    <2> QED BY <1>3, <2>2, <2>3
<1>5. ASSUME NEW i \in j + 1 .. k - 1, str[i] \in Digit PROVE FALSE
    <2>1. i \in 1 .. Len(str) /\ i \in j .. k - 1 /\ i - 1 \in j .. k - 1
        BY <1>3
    <2>2. Count(str, i) = m /\ Count(str, i - 1) = m
        BY <1>4, <2>1
    <2>3. Count(str, i) = Count(str, i - 1) + 1
        BY <1>5, <2>1, DigitIsAt
    <2> QED BY <2>2, <2>3
<1> QED BY <1>1, <1>2, <1>4, <1>5 DEF NextDigit

LEMMA BehindTheLast ==
    ASSUME NEW str \in Seq(Token), NEW n, Count(str, Len(str)) = n, NEW j, Place(str, n, j)
    PROVE  \A i \in j + 1 .. Len(str) : str[i] \notin Digit /\ Count(str, i) = n
<1>1. j \in 1 .. Len(str) /\ Count(str, j) = n
    BY DEF Place
<1>2. ASSUME NEW i \in j .. Len(str) PROVE Count(str, i) = n
    <2>1. /\ i \in 0 .. Len(str) /\ j \in 0 .. Len(str)
          /\ Len(str) \in 0 .. Len(str) /\ Len(str) \in i .. Len(str)
        BY <1>1
    <2>2. Count(str, i) \in Nat /\ Count(str, j) \in Nat
        BY <2>1, AtIs
    <2>3. Count(str, j) <= Count(str, i) /\ Count(str, i) <= Count(str, Len(str))
        BY <2>1, Kept
    <2> QED BY <1>1, <2>2, <2>3
<1>3. ASSUME NEW i \in j + 1 .. Len(str), str[i] \in Digit PROVE FALSE
    <2>1. i \in 1 .. Len(str) /\ i \in j .. Len(str) /\ i - 1 \in j .. Len(str) /\ i - 1 \in 0 .. Len(str)
        BY <1>1
    <2>2. Count(str, i) = Count(str, i - 1) + 1
        BY <1>3, <2>1, DigitIsAt
    <2>3. Count(str, i) = n /\ Count(str, i - 1) = n /\ Count(str, i - 1) \in Nat
        BY <1>2, <2>1, AtIs
    <2> QED BY <2>2, <2>3
<1> QED BY <1>1, <1>2, <1>3

\* Where no mark may stand the next digit follows at once.
LEMMA NextPlace ==
    ASSUME NEW str \in Seq(Token), NEW n, Count(str, Len(str)) = n, Rules(str, n),
           NEW m \in Nat, m < n, MayStand(n - m) = {}, NEW j, Place(str, m, j),
           NEW next, next = m + 1
    PROVE  Place(str, next, j + 1)
<1>1. j \in 1 .. Len(str) /\ j \in 0 .. Len(str) /\ Count(str, j) = m
    BY DEF Place
<1>2. n \in Nat
    <2>1. Len(str) \in 0 .. Len(str)
        OBVIOUS
    <2> QED BY <2>1, AtIs
<1>3. next \in Nat /\ 1 <= next /\ next <= n
    BY <1>2
<1>4. PICK k \in Nat : Place(str, next, k)
    BY <1>3, EveryDigitHasAPlace
<1>5. /\ j < k
      /\ \A i \in j .. k - 1 : Count(str, i) = m
      /\ \A i \in j + 1 .. k - 1 : str[i] \notin Digit
    <2>1. NextDigit(str, m, j, k)
        BY <1>1, <1>4, Between
    <2> QED BY <2>1 DEF NextDigit
<1>6. k = j + 1
    <2> SUFFICES ASSUME k # j + 1 PROVE FALSE
        OBVIOUS
    <2>1. j + 1 \in j + 1 .. k - 1 /\ j + 1 \in j .. k - 1 /\ j + 1 \in 2 .. Len(str)
        BY <1>1, <1>4, <1>5 DEF Place
    <2>2. str[j + 1] \notin Digit /\ Count(str, j + 1) = m
        BY <1>5, <2>1
    <2>3. str[j + 1] \in MayStand(n - m)
        BY <2>1, <2>2 DEF Rules
    <2> QED BY <2>3
<1> QED BY <1>4, <1>6

LEMMA DecodedMarks ==
    ASSUME NEW str \in Seq(Token), NEW s, s = UrlDecode(str), NEW i \in 1 .. Len(str)
    PROVE  /\ str[i] \in Digit => s[i] \in Digit
           /\ str[i] \in MayStand(10) => s[i] \in {"-", "SP", "("}
           /\ str[i] \in MayStand(7) => s[i] \in {"-", "SP", ")"}
           /\ str[i] \in MayStand(4) => s[i] \in {"-", "SP"}
           /\ str[i] \in MayStand(0) => s[i] \in {"SP"}
           /\ str[i] \in MayStand(11) => s[i] = "SP" \/ (s[i] = "+" /\ str[i] = "+")
<1>1. s[i] = IF str[i] = "%20" THEN "SP" ELSE str[i]
    BY Decoded
<1>2. "%20" \notin Digit
    BY DEF Digit
<1> QED BY <1>1, <1>2, MarksAre

\* The number of s stands behind the first digits, the m-th of which begins it.
NumberFrom(str, s, m) ==
    \E x, y, z \in Nat : Place(str, m, x + 1) /\ Number(s, x, y, z)

LEMMA NumberFound ==
    ASSUME NEW str \in Seq(Token), NEW s, s = UrlDecode(str),
           NEW n, Count(str, Len(str)) = n, Rules(str, n), NEW first \in {1, 2}, n = first + 9
    PROVE  NumberFrom(str, s, first)
<1>0. PICK m \in {0, 1} : first = m + 1 /\ n = m + 10
    OBVIOUS
<1> USE <1>0
<1>1. Len(s) = Len(str) /\ Len(str) \in Nat
    BY Decoded
<1>2. \A k \in 1 .. 10 : \E j \in Nat : Place(str, m + k, j)
    <2> SUFFICES ASSUME NEW k \in 1 .. 10 PROVE \E j \in Nat : Place(str, m + k, j)
        OBVIOUS
    <2>1. m + k \in Nat /\ 1 <= m + k /\ m + k <= n
        OBVIOUS
    <2> QED BY <2>1, EveryDigitHasAPlace
<1>3. ASSUME NEW k \in {1, 2, 4, 5, 7, 8, 9}, NEW p, p = m + k, NEW j, Place(str, p, j),
             NEW next, next = p + 1
      PROVE  Place(str, next, j + 1)
    <2>1. n - p \in {1, 2, 3, 5, 6, 8, 9} /\ p \in Nat /\ p < n
        BY <1>3
    <2>2. MayStand(n - p) = {}
        BY <2>1, MarksAre
    <2> QED BY <1>3, <2>1, <2>2, NextPlace
<1>4. PICK a \in Nat : Place(str, m + 1, a)
    BY <1>2
<1>5. Place(str, m + 2, a + 1) /\ Place(str, m + 3, a + 2)
    <2>1. Place(str, m + 2, a + 1)
        BY <1>3, <1>4
    <2> QED BY <1>3, <2>1
<1>6. PICK b \in Nat : Place(str, m + 4, b)
    BY <1>2
<1>7. Place(str, m + 5, b + 1) /\ Place(str, m + 6, b + 2)
    <2>1. Place(str, m + 5, b + 1)
        BY <1>3, <1>6
    <2> QED BY <1>3, <2>1
<1>8. PICK d \in Nat : Place(str, m + 7, d)
    BY <1>2
<1>9. Place(str, m + 8, d + 1) /\ Place(str, m + 9, d + 2) /\ Place(str, m + 10, d + 3)
    <2>1. Place(str, m + 8, d + 1)
        BY <1>3, <1>8
    <2>2. Place(str, m + 9, d + 2)
        BY <1>3, <2>1
    <2>3. Place(str, m + 10, d + 3)
        BY <1>3, <2>2
    <2> QED BY <2>1, <2>2, <2>3
<1>10. /\ a \in 1 .. Len(str) /\ a + 1 \in 1 .. Len(str) /\ a + 2 \in 1 .. Len(str)
       /\ b \in 1 .. Len(str) /\ b + 1 \in 1 .. Len(str) /\ b + 2 \in 1 .. Len(str)
       /\ d \in 1 .. Len(str) /\ d + 1 \in 1 .. Len(str) /\ d + 2 \in 1 .. Len(str)
       /\ d + 3 \in 1 .. Len(str)
    BY <1>4, <1>5, <1>6, <1>7, <1>8, <1>9 DEF Place
<1>11. /\ str[a] \in Digit /\ str[a + 1] \in Digit /\ str[a + 2] \in Digit
       /\ str[b] \in Digit /\ str[b + 1] \in Digit /\ str[b + 2] \in Digit
       /\ str[d] \in Digit /\ str[d + 1] \in Digit /\ str[d + 2] \in Digit
       /\ str[d + 3] \in Digit
    BY <1>4, <1>5, <1>6, <1>7, <1>8, <1>9 DEF Place
<1>12. /\ s[a] \in Digit /\ s[a + 1] \in Digit /\ s[a + 2] \in Digit
       /\ s[b] \in Digit /\ s[b + 1] \in Digit /\ s[b + 2] \in Digit
       /\ s[d] \in Digit /\ s[d + 1] \in Digit /\ s[d + 2] \in Digit
       /\ s[d + 3] \in Digit
    BY <1>10, <1>11, DecodedMarks
<1>13. a + 2 < b /\ \A i \in a + 3 .. b - 1 : s[i] \in {"-", "SP", ")"}
    <2>1. Count(str, a + 2) = m + 3 /\ Place(str, m + 4, b) /\ m + 3 \in Nat
        BY <1>5, <1>6 DEF Place
    <2>2. a + 2 \in 0 .. Len(str)
        BY <1>10
    <2>3. /\ a + 2 < b
          /\ \A i \in a + 2 .. b - 1 : Count(str, i) = m + 3
          /\ \A i \in a + 2 + 1 .. b - 1 : str[i] \notin Digit
        <3>1. NextDigit(str, m + 3, a + 2, b)
            BY <2>1, <2>2, Between
        <3> QED BY <3>1 DEF NextDigit
    <2>4. ASSUME NEW i \in a + 3 .. b - 1 PROVE s[i] \in {"-", "SP", ")"}
        <3>1. i \in 2 .. Len(str) /\ i \in 1 .. Len(str)
            BY <1>10
        <3>2. str[i] \notin Digit /\ n - Count(str, i) = 7
            BY <2>3
        <3>3. str[i] \in MayStand(7)
            BY <3>1, <3>2 DEF Rules
        <3> QED BY <3>1, <3>3, DecodedMarks
    <2> QED BY <2>3, <2>4
<1>14. b + 2 < d /\ \A i \in b + 3 .. d - 1 : s[i] \in {"-", "SP"}
    <2>1. Count(str, b + 2) = m + 6 /\ Place(str, m + 7, d) /\ m + 6 \in Nat
        BY <1>7, <1>8 DEF Place
    <2>2. b + 2 \in 0 .. Len(str)
        BY <1>10
    <2>3. /\ b + 2 < d
          /\ \A i \in b + 2 .. d - 1 : Count(str, i) = m + 6
          /\ \A i \in b + 2 + 1 .. d - 1 : str[i] \notin Digit
        <3>1. NextDigit(str, m + 6, b + 2, d)
            BY <2>1, <2>2, Between
        <3> QED BY <3>1 DEF NextDigit
    <2>4. ASSUME NEW i \in b + 3 .. d - 1 PROVE s[i] \in {"-", "SP"}
        <3>1. i \in 2 .. Len(str) /\ i \in 1 .. Len(str)
            BY <1>10
        <3>2. str[i] \notin Digit /\ n - Count(str, i) = 4
            BY <2>3
        <3>3. str[i] \in MayStand(4)
            BY <3>1, <3>2 DEF Rules
        <3> QED BY <3>1, <3>3, DecodedMarks
    <2> QED BY <2>3, <2>4
<1>15. \A i \in d + 4 .. Len(str) : s[i] \in {"SP"}
    <2>1. Place(str, n, d + 3)
        BY <1>9
    <2>2. \A i \in d + 3 + 1 .. Len(str) : str[i] \notin Digit /\ Count(str, i) = n
        BY <2>1, BehindTheLast
    <2>3. ASSUME NEW i \in d + 4 .. Len(str) PROVE s[i] \in {"SP"}
        <3>1. i \in 2 .. Len(str) /\ i \in 1 .. Len(str)
            BY <1>10
        <3>2. str[i] \notin Digit /\ n - Count(str, i) = 0
            BY <2>2
        <3>3. str[i] \in MayStand(0)
            BY <3>1, <3>2 DEF Rules
        <3> QED BY <3>1, <3>3, DecodedMarks
    <2> QED BY <2>3
<1> DEFINE x == a - 1
           y == b - 1
           z == d - 1
<1>16. Number(s, x, y, z)
    <2>1. Span(s, Digit, x, x + 3)
        <3>1. \A k \in x + 1 .. x + 3 : k = a \/ k = a + 1 \/ k = a + 2
            BY <1>10
        <3>2. x \in 0 .. x + 3 /\ x + 3 \in 0 .. Len(s)
            BY <1>1, <1>10
        <3> HIDE DEF x
        <3> QED BY <1>12, <3>1, <3>2 DEF Span, Filled
    <2>2. Span(s, {"-", "SP", ")"}, x + 3, y)
        BY <1>1, <1>10, <1>13 DEF Span, Filled
    <2>3. Span(s, Digit, y, y + 3)
        <3>1. \A k \in y + 1 .. y + 3 : k = b \/ k = b + 1 \/ k = b + 2
            BY <1>10
        <3>2. y \in 0 .. y + 3 /\ y + 3 \in 0 .. Len(s)
            BY <1>1, <1>10
        <3> HIDE DEF y
        <3> QED BY <1>12, <3>1, <3>2 DEF Span, Filled
    <2>4. Span(s, {"-", "SP"}, y + 3, z)
        BY <1>1, <1>10, <1>14 DEF Span, Filled
    <2>5. Span(s, Digit, z, z + 4)
        <3>1. \A k \in z + 1 .. z + 4 : k = d \/ k = d + 1 \/ k = d + 2 \/ k = d + 3
            BY <1>10
        <3>2. z \in 0 .. z + 4 /\ z + 4 \in 0 .. Len(s)
            BY <1>1, <1>10
        <3> HIDE DEF z
        <3> QED BY <1>12, <3>1, <3>2 DEF Span, Filled
    <2>6. Span(s, {"SP"}, z + 4, Len(s))
        BY <1>1, <1>10, <1>15 DEF Span, Filled
    <2> HIDE DEF x, y, z
    <2> QED BY <2>1, <2>2, <2>3, <2>4, <2>5, <2>6 DEF Number
<1>17. x \in Nat /\ y \in Nat /\ z \in Nat /\ x + 1 = a
    BY <1>10
<1> HIDE DEF x, y, z
<1> QED BY <1>4, <1>16, <1>17 DEF NumberFrom

LEMMA DialledIsAccepted ==
    ASSUME NEW str \in Seq(Token), Len(str) >= 1, str[1] = "/", WellDialled(str)
    PROVE  IsValid(str)
<1>1. PICK s : s = UrlDecode(str)
    OBVIOUS
<1>2. /\ s \in Seq(Char) /\ Len(s) = Len(str) /\ Len(str) \in Nat /\ s[1] = "/"
    BY <1>1, Decoded
<1>3. PICK n : n = Count(str, Len(str))
    OBVIOUS
<1>4. n \in {10, 11} /\ Rules(str, n)
    BY <1>3, DialledIs
<1>5. Count(str, 0) = 0 /\ 0 \in 0 .. Len(str)
    BY AtIs
<1>6. ASSUME NEW f, NEW c, NEW x, NEW y, NEW z, Read(s, f, c, x, y, z)
      PROVE  IsValid(str)
    BY <1>1, <1>6, PreparedIs
<1>7. CASE n = 10
    <2>1. NumberFrom(str, s, 1)
        <3>1. 1 \in {1, 2} /\ n = 1 + 9
            BY <1>7
        <3> QED BY <1>1, <1>3, <1>4, <3>1, NumberFound
    <2>2. PICK x \in Nat, y \in Nat, z \in Nat : Place(str, 1, x + 1) /\ Number(s, x, y, z)
        BY <2>1 DEF NumberFrom
    <2>3. x + 1 \in 1 .. Len(str)
        BY <2>2 DEF Place
    <2>4. /\ \A i \in 0 .. (x + 1) - 1 : Count(str, i) = 0
          /\ \A i \in 0 + 1 .. (x + 1) - 1 : str[i] \notin Digit
        <3>1. NextDigit(str, 0, 0, x + 1)
            BY <1>5, <2>2, Between
        <3> QED BY <3>1 DEF NextDigit
    <2>5. ASSUME NEW i \in 2 .. x PROVE s[i] \in {"-", "SP", "("}
        <3>1. i \in 2 .. Len(str) /\ i \in 1 .. Len(str)
            BY <2>3
        <3>2. str[i] \notin Digit /\ n - Count(str, i) = 10
            BY <1>7, <2>4
        <3>3. str[i] \in MayStand(10)
            BY <1>4, <3>1, <3>2 DEF Rules
        <3> QED BY <1>1, <3>1, <3>3, DecodedMarks
    <2>6. x >= 1
        <3>1. str[x + 1] \in Digit /\ "/" \notin Digit
            BY <2>2 DEF Place, Digit
        <3> QED BY <3>1
    <2>7. 1 \in Slash(s)
        BY <1>2 DEF Slash, Filled
    <2>8. Span(s, {"-", "SP", "("}, 1, x)
        BY <1>2, <2>3, <2>5, <2>6 DEF Span, Filled
    <2>9. Read(s, <<>>, 1, x, y, z)
        BY <2>2, <2>7, <2>8 DEF Read
    <2> QED BY <1>6, <2>9
<1>8. CASE n = 11
    <2>1. NumberFrom(str, s, 2)
        <3>1. 2 \in {1, 2} /\ n = 2 + 9
            BY <1>8
        <3> QED BY <1>1, <1>3, <1>4, <3>1, NumberFound
    <2>2. PICK x \in Nat, y \in Nat, z \in Nat : Place(str, 2, x + 1) /\ Number(s, x, y, z)
        BY <2>1 DEF NumberFrom
    <2>3. PICK c \in Nat : Place(str, 1, c)
        <3>1. 1 \in Nat /\ 1 <= 1 /\ 1 <= n
            BY <1>8
        <3> QED BY <1>3, <3>1, EveryDigitHasAPlace
    <2>4. c \in 1 .. Len(str) /\ str[c] \in Digit /\ Count(str, c) = 1 /\ x + 1 \in 1 .. Len(str)
        BY <2>2, <2>3 DEF Place
    <2>5. /\ \A i \in 0 .. c - 1 : Count(str, i) = 0
          /\ \A i \in 0 + 1 .. c - 1 : str[i] \notin Digit
        <3>1. NextDigit(str, 0, 0, c)
            BY <1>5, <2>3, Between
        <3> QED BY <3>1 DEF NextDigit
    <2>6. /\ c < x + 1
          /\ \A i \in c .. (x + 1) - 1 : Count(str, i) = 1
          /\ \A i \in c + 1 .. (x + 1) - 1 : str[i] \notin Digit
        <3>1. c \in 0 .. Len(str)
            BY <2>4
        <3>2. NextDigit(str, 1, c, x + 1)
            BY <2>2, <2>4, <3>1, Between
        <3> QED BY <3>2 DEF NextDigit
    <2>7. ASSUME NEW i \in 2 .. c - 1
          PROVE  s[i] = "SP" \/ (s[i] = "+" /\ i = c - 1)
        <3>1. i \in 2 .. Len(str) /\ i \in 1 .. Len(str)
            BY <2>4
        <3>2. str[i] \notin Digit /\ n - Count(str, i) = 11
            BY <1>8, <2>5
        <3>3. str[i] \in MayStand(11) /\ (str[i] = "+" => str[i + 1] \in Digit)
            BY <1>4, <3>1, <3>2 DEF Rules
        <3>4. s[i] = "SP" \/ (s[i] = "+" /\ str[i] = "+")
            BY <1>1, <3>1, <3>3, DecodedMarks
        <3>5. str[i] = "+" => i = c - 1
            BY <2>5, <3>3
        <3> QED BY <3>4, <3>5
    <2>8. ASSUME NEW i \in c + 1 .. x PROVE s[i] \in {"-", "SP", "("}
        <3>1. i \in 2 .. Len(str) /\ i \in 1 .. Len(str)
            BY <2>4
        <3>2. str[i] \notin Digit /\ n - Count(str, i) = 10
            BY <1>8, <2>6
        <3>3. str[i] \in MayStand(10)
            BY <1>4, <3>1, <3>2 DEF Rules
        <3> QED BY <1>1, <3>1, <3>3, DecodedMarks
    <2>9. c >= 2
        <3>1. "/" \notin Digit
            BY DEF Digit
        <3> QED BY <2>4, <3>1
    <2>10. s[c] \in Digit
        BY <1>1, <2>4, DecodedMarks
    <2>11. c \in CodeAt(s)
        BY <1>2, <2>4, <2>7, <2>9, <2>10 DEF CodeAt
    <2>12. Span(s, {"-", "SP", "("}, c, x)
        BY <1>2, <2>4, <2>6, <2>8 DEF Span, Filled
    <2>13. Read(s, SubSeq(s, c, c), c, x, y, z)
        BY <2>2, <2>11, <2>12, Zenon DEF Read
    <2> QED BY <1>6, <2>13
<1> QED BY <1>4, <1>7, <1>8

\* isValidPhoneNumber accepts a target exactly when it is a number dialled by the rules: ten
\* digits after an optional code, with the marks of each gap and no others.
THEOREM AcceptsByTheRules == Spec => []AcceptsWellDialled
<1>1. TypeOK => AcceptsWellDialled
    BY AcceptedIsDialled, DialledIsAccepted DEF TypeOK, AcceptsWellDialled
<1> QED BY <1>1, Typed, PTL
=============================================================================
