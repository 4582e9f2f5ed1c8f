-------------------------- MODULE ServerInitProofs --------------------------
(***************************************************************************)
(* Server::init, for every configuration file: what NginxConfigParser has  *)
(* built prints back the tokens it was given, handle_statements takes the  *)
(* statements that count in the order of the file, and init makes exactly  *)
(* the handlers they name, none twice, and lists them all.                 *)
(***************************************************************************)
EXTENDS ServerInit, FoldLemmas, TLAPS

\* All are strings, which the provers know of no literal.
Letters == STRING \cup {";", "{", "}"}
Words == Seq(Letters) \ {<<>>}
Texts == Seq(Words)
Statements == [block : Nat, tokens : Texts \ {<<>>}, child : Nat]

(***************************************************************************)
(* What a sequence of statements prints, as a function of what the blocks  *)
(* are to hold after them: what is still to come of an open block has its  *)
(* place.                                                                  *)
(***************************************************************************)
Bases == [Nat -> Texts]

Into(base, s) == [base EXCEPT ![s.block] = Written(s, base) \o @]

Before(x) == [base \in Bases |-> x[1][Into(base, x[2])]]

Filled(statements) ==
  Folded([x \in [Bases -> Bases] \X Statements |-> Before(x)],
         [base \in Bases |-> base], statements)

\* What the blocks of a stack hold, each closed inside the one before.
Closed(base, x) ==
  base[x[2]] \o IF x[2] = TopBlock THEN <<>> ELSE << <<"}">> >> \o x[1]

Open(stack, base) == Folded([x \in Texts \X Nat |-> Closed(base, x)], <<>>, stack)

-----------------------------------------------------------------------------
LEMMA SeqAlgebra ==
  ASSUME NEW C
  PROVE  /\ <<>> \in Seq(C)
         /\ \A c \in C : <<c>> \in Seq(C)
         /\ \A a \in Seq(C), c \in C : Append(a, c) = a \o <<c>>
         /\ \A a \in Seq(C) : <<>> \o a = a /\ a \o <<>> = a
         /\ \A a, b \in Seq(C) : a \o b \in Seq(C)
         /\ \A a, b, c \in Seq(C) : (a \o b) \o c = a \o (b \o c)
<1>1. \A a, b, c \in Seq(C) : (a \o b) \o c = a \o (b \o c)
  BY ConcatAssociative
<1>2. \A a, b \in Seq(C) : a \o b \in Seq(C)
  OBVIOUS
<1>3. \A a \in Seq(C) : <<>> \o a = a /\ a \o <<>> = a
  BY ConcatEmptySeq
<1>4. \A a \in Seq(C), c \in C : Append(a, c) = a \o <<c>>
  BY AppendIsConcat
<1> QED
  BY <1>1, <1>2, <1>3, <1>4

LEMMA TextAlgebra ==
  /\ <<>> \in Texts
  /\ \A w \in Words : <<w>> \in Texts
  /\ \A a \in Texts, w \in Words : Append(a, w) = a \o <<w>>
  /\ \A a \in Texts : <<>> \o a = a /\ a \o <<>> = a
  /\ \A a, b \in Texts : a \o b \in Texts
  /\ \A a, b, c \in Texts : (a \o b) \o c = a \o (b \o c)
BY SeqAlgebra, Zenon DEF Texts

\* Named, for the provers to find its instances.
Associate(a, b, c) == (a \o b) \o c = a \o (b \o c)

LEMMA ThreeTexts ==
  ASSUME NEW a \in Texts, NEW b \in Texts, NEW c \in Texts
  PROVE  Associate(a, b, c)
BY TextAlgebra, Zenon DEF Associate

LEMMA TwoTexts ==
  ASSUME NEW a \in Texts, NEW b \in Texts
  PROVE  a \o b \in Texts
BY TextAlgebra

\* The words that are delimiters.
LEMMA DelimiterIsWord ==
  <<";">> \in Words /\ <<"{">> \in Words /\ <<"}">> \in Words
<1>1. \A c \in Letters : <<c>> \in Words
  BY SeqAlgebra DEF Words
<1> QED
  BY <1>1 DEF Letters

LEMMA DelimiterWords ==
  << <<";">> >> \in Texts /\ << <<"{">> >> \in Texts /\ << <<"}">> >> \in Texts
BY DelimiterIsWord, TextAlgebra

LEMMA WrittenType ==
  ASSUME NEW s \in Statements, NEW base \in Bases
  PROVE  Written(s, base) \in Texts
<1>1. << <<";">> >> \in Texts /\ << <<"{">> >> \in Texts /\ << <<"}">> >> \in Texts
  BY DelimiterWords
<1>2. s.tokens \in Texts /\ base[s.child] \in Texts
  BY DEF Statements, Bases
<1> QED
  BY <1>1, <1>2, TextAlgebra DEF Written

LEMMA IntoType ==
  ASSUME NEW s \in Statements, NEW base \in Bases
  PROVE  /\ Into(base, s) \in Bases
         /\ Into(base, s)[s.block] = Written(s, base) \o base[s.block]
         /\ \A b \in Nat : b # s.block => Into(base, s)[b] = base[b]
<1>1. s.block \in Nat /\ base[s.block] \in Texts
  BY DEF Statements, Bases
<1>2. Written(s, base) \o base[s.block] \in Texts
  BY <1>1, WrittenType, TextAlgebra
<1> QED
  BY <1>1, <1>2 DEF Into, Bases

LEMMA FilledStep ==
  /\ [x \in [Bases -> Bases] \X Statements |-> Before(x)]
        \in [[Bases -> Bases] \X Statements -> [Bases -> Bases]]
  /\ [base \in Bases |-> base] \in [Bases -> Bases]
<1>1. ASSUME NEW x \in [Bases -> Bases] \X Statements
      PROVE  Before(x) \in [Bases -> Bases]
  <2>1. x[1] \in [Bases -> Bases] /\ x[2] \in Statements
    OBVIOUS
  <2>2. \A base \in Bases : x[1][Into(base, x[2])] \in Bases
    BY <2>1, IntoType
  <2> QED BY <2>2 DEF Before
<1> QED
  BY <1>1

LEMMA FilledType ==
  ASSUME NEW s \in Seq(Statements)
  PROVE  Filled(s) \in [Bases -> Bases]
BY FilledStep, FoldedType DEF Filled

LEMMA FilledEmpty ==
  ASSUME NEW base \in Bases
  PROVE  Filled(<<>>)[base] = base
BY FoldedEmpty DEF Filled

LEMMA FilledAppend ==
  ASSUME NEW s \in Seq(Statements), NEW e \in Statements, NEW base \in Bases
  PROVE  Filled(Append(s, e))[base] = Filled(s)[Into(base, e)]
<1> DEFINE F == [x \in [Bases -> Bases] \X Statements |-> Before(x)]
           g == Filled(s)
<1>1. Filled(Append(s, e)) = F[<<g, e>>]
  <2> HIDE DEF F
  <2>1. Folded(F, [b \in Bases |-> b], Append(s, e)) = F[<<Folded(F, [b \in Bases |-> b], s), e>>]
    BY FoldedAppend
  <2> QED BY <2>1 DEF Filled, F
<1>2. g \in [Bases -> Bases]
  BY FilledType
<1> HIDE DEF g
<1>3. F[<<g, e>>] = Before(<<g, e>>)
  BY <1>2
<1> QED
  BY <1>1, <1>3 DEF Before, g

LEMMA OpenStep ==
  ASSUME NEW base \in Bases
  PROVE  [x \in Texts \X Nat |-> Closed(base, x)] \in [Texts \X Nat -> Texts]
<1> SUFFICES ASSUME NEW x \in Texts \X Nat PROVE Closed(base, x) \in Texts
  OBVIOUS
<1>1. << <<"}">> >> \in Texts /\ base[x[2]] \in Texts /\ x[1] \in Texts
  BY DelimiterWords DEF Bases
<1> QED
  BY <1>1, TextAlgebra DEF Closed

LEMMA OpenType ==
  ASSUME NEW base \in Bases, NEW stack \in Seq(Nat)
  PROVE  Open(stack, base) \in Texts
<1>1. <<>> \in Texts
  BY TextAlgebra
<1> QED
  BY <1>1, OpenStep, FoldedType DEF Open

LEMMA OpenEmpty ==
  ASSUME NEW base
  PROVE  Open(<<>>, base) = <<>>
BY FoldedEmpty DEF Open

LEMMA OpenAppend ==
  ASSUME NEW base \in Bases, NEW stack \in Seq(Nat), NEW b \in Nat
  PROVE  Open(Append(stack, b), base) = Closed(base, <<Open(stack, base), b>>)
<1> DEFINE F == [x \in Texts \X Nat |-> Closed(base, x)]
           o == Open(stack, base)
<1>1. Open(Append(stack, b), base) = F[<<o, b>>]
  <2> HIDE DEF F
  <2>1. Folded(F, <<>>, Append(stack, b)) = F[<<Folded(F, <<>>, stack), b>>]
    BY FoldedAppend
  <2> QED BY <2>1 DEF Open, F
<1>2. o \in Texts
  BY OpenType
<1> HIDE DEF o
<1>3. F[<<o, b>>] = Closed(base, <<o, b>>)
  BY <1>2
<1> QED
  BY <1>1, <1>3 DEF o

\* Only what the blocks of the stack hold counts.
LEMMA OpenAgree ==
  ASSUME NEW f \in Bases, NEW g \in Bases, NEW stack \in Seq(Nat),
         \A i \in 1..Len(stack) : f[stack[i]] = g[stack[i]]
  PROVE  Open(stack, f) = Open(stack, g)
<1> DEFINE S == {b \in Nat : f[b] = g[b]}
           P == {s \in Seq(S) : Open(s, f) = Open(s, g)}
<1>1. <<>> \in P
  <2>1. <<>> \in Seq(S)
    OBVIOUS
  <2> QED BY <2>1, OpenEmpty
<1>2. \A s \in Seq(S), b \in S : s \in P => Append(s, b) \in P
  <2> SUFFICES ASSUME NEW s \in Seq(S), NEW b \in S, Open(s, f) = Open(s, g)
               PROVE  Append(s, b) \in Seq(S) /\ Open(Append(s, b), f) = Open(Append(s, b), g)
    OBVIOUS
  <2>1. Append(s, b) \in Seq(S)
    OBVIOUS
  <2>2. s \in Seq(Nat) /\ b \in Nat /\ f[b] = g[b]
    <3>1. S \subseteq Nat
      OBVIOUS
    <3>2. b \in Nat /\ f[b] = g[b]
      OBVIOUS
    <3>3. s \in Seq(Nat)
      <4> HIDE DEF S
      <4> QED BY <3>1, SeqMonotonic, Zenon
    <3> QED BY <3>2, <3>3
  <2>3. /\ Open(Append(s, b), f) = Closed(f, <<Open(s, f), b>>)
        /\ Open(Append(s, b), g) = Closed(g, <<Open(s, g), b>>)
    BY <2>2, OpenAppend
  <2>4. Closed(f, <<Open(s, f), b>>) = Closed(g, <<Open(s, g), b>>)
    BY <2>2 DEF Closed
  <2> QED BY <2>1, <2>3, <2>4
<1>3. stack \in Seq(S)
  <2>1. \A i \in 1..Len(stack) : stack[i] \in S
    OBVIOUS
  <2> HIDE DEF S
  <2> QED BY <2>1
<1> HIDE DEF P
<1>4. stack \in P
  BY <1>1, <1>2, <1>3, AppendInduction
<1> QED
  BY <1>4 DEF P

\* What comes first in the innermost block comes first.
LEMMA OpenInto ==
  ASSUME NEW stack \in Seq(Nat), NEW m \in Nat, NEW f \in Bases, NEW g \in Bases,
         NEW text \in Texts,
         \A i \in 1..Len(stack) : stack[i] # m,
         g[m] = text \o f[m], \A b \in Nat : b # m => g[b] = f[b]
  PROVE  Open(Append(stack, m), g) = text \o Open(Append(stack, m), f)
<1>1. Open(stack, f) = Open(stack, g) /\ Open(stack, f) \in Texts
  <2>1. \A i \in 1..Len(stack) : f[stack[i]] = g[stack[i]]
    OBVIOUS
  <2> QED BY <2>1, OpenAgree, OpenType
<1> DEFINE rest == IF m = TopBlock THEN <<>> ELSE << <<"}">> >> \o Open(stack, f)
<1>2. rest \in Texts /\ f[m] \in Texts
  <2>1. << <<"}">> >> \in Texts /\ <<>> \in Texts
    BY DelimiterWords, TextAlgebra
  <2>2. << <<"}">> >> \o Open(stack, f) \in Texts
    BY <1>1, <2>1, TextAlgebra
  <2> QED BY <2>1, <2>2 DEF Bases
<1>3. /\ Open(Append(stack, m), g) = g[m] \o rest
      /\ Open(Append(stack, m), f) = f[m] \o rest
  <2>1. /\ Open(Append(stack, m), g) = Closed(g, <<Open(stack, g), m>>)
        /\ Open(Append(stack, m), f) = Closed(f, <<Open(stack, f), m>>)
    BY OpenAppend
  <2> QED BY <1>1, <2>1 DEF Closed
<1> HIDE DEF rest
<1>4. (text \o f[m]) \o rest = text \o (f[m] \o rest)
  BY <1>2, TextAlgebra
<1> QED
  BY <1>3, <1>4

-----------------------------------------------------------------------------
(***************************************************************************)
(* How the text of the statements made so far goes on.                     *)
(***************************************************************************)
\* Blocks that are closed have nothing more to come.
Room(base, stack, blocks) ==
  \A b \in 1..blocks : (\A i \in 1..Len(stack) : stack[i] # b) => base[b] = <<>>

Prints(statements, text, stack, blocks) ==
  \A base \in Bases : Room(base, stack, blocks) =>
    Filled(statements)[base][TopBlock] = text \o Open(stack, base)

\* A stack and the block on its top.
Top(stack, m, blocks) ==
  /\ blocks \in Nat /\ stack \in Seq(Nat) /\ m \in Nat /\ m \in 1..blocks
  /\ \A i \in 1..Len(stack) : stack[i] \in 1..blocks /\ stack[i] < m

LEMMA TopStack ==
  ASSUME NEW stack, NEW m, NEW blocks, Top(stack, m, blocks)
  PROVE  /\ Append(stack, m) \in Seq(Nat) /\ Len(stack) \in Nat
         /\ Len(Append(stack, m)) = Len(stack) + 1
         /\ Append(stack, m)[Len(stack) + 1] = m
         /\ \A i \in 1..Len(stack) : Append(stack, m)[i] = stack[i] /\ stack[i] # m
         /\ \A i \in 1..(Len(stack) + 1) :
              Append(stack, m)[i] \in 1..blocks /\ Append(stack, m)[i] <= m
<1>1. stack \in Seq(Nat) /\ m \in Nat /\ Len(stack) \in Nat
  BY DEF Top
<1>2. /\ Append(stack, m) \in Seq(Nat) /\ Len(Append(stack, m)) = Len(stack) + 1
      /\ Append(stack, m)[Len(stack) + 1] = m
      /\ \A i \in 1..Len(stack) : Append(stack, m)[i] = stack[i]
  BY <1>1
<1>3. \A i \in 1..Len(stack) : stack[i] # m /\ stack[i] \in 1..blocks /\ stack[i] <= m
  BY <1>1 DEF Top
<1>4. \A i \in 1..(Len(stack) + 1) : i \in 1..Len(stack) \/ i = Len(stack) + 1
  BY <1>1
<1>5. m \in 1..blocks /\ m <= m
  BY DEF Top
<1> QED
  BY <1>1, <1>2, <1>3, <1>4, <1>5

LEMMA PrintsStart == Prints(<<>>, <<>>, <<TopBlock>>, 1)
<1> SUFFICES ASSUME NEW base \in Bases
             PROVE  Filled(<<>>)[base][TopBlock] = <<>> \o Open(<<TopBlock>>, base)
  BY DEF Prints
<1>1. <<TopBlock>> = Append(<<>>, TopBlock) /\ <<>> \in Seq(Nat) /\ TopBlock \in Nat
  BY DEF TopBlock
<1>2. Open(<<TopBlock>>, base) = Closed(base, <<Open(<<>>, base), TopBlock>>)
  BY <1>1, OpenAppend
<1>3. base[TopBlock] \in Texts
  BY <1>1 DEF Bases
<1>4. Open(<<TopBlock>>, base) = base[TopBlock]
  BY <1>2, <1>3, TextAlgebra DEF Closed
<1>5. Filled(<<>>)[base] = base
  BY FilledEmpty
<1> QED
  BY <1>3, <1>4, <1>5, TextAlgebra

\* A statement e of the block on the top comes after the text so far.
More(s, e, text, stack, blocks) ==
  /\ s \in Seq(Statements) /\ e \in Statements /\ text \in Texts
  /\ Top(stack, e.block, blocks) /\ Prints(s, text, Append(stack, e.block), blocks)

LEMMA FilledMore ==
  ASSUME NEW s, NEW e, NEW text, NEW stack, NEW blocks, More(s, e, text, stack, blocks)
  PROVE  \A base \in Bases : Room(base, Append(stack, e.block), blocks) =>
           Filled(Append(s, e))[base][TopBlock] =
             text \o (Written(e, base) \o Open(Append(stack, e.block), base))
<1> SUFFICES ASSUME NEW base \in Bases, Room(base, Append(stack, e.block), blocks)
             PROVE  Filled(Append(s, e))[base][TopBlock] =
                      text \o (Written(e, base) \o Open(Append(stack, e.block), base))
  OBVIOUS
<1> USE DEF More
<1> DEFINE m == e.block
           after == Into(base, e)
           whole == Append(stack, m)
<1>1. /\ after \in Bases /\ after[m] = Written(e, base) \o base[m]
      /\ \A b \in Nat : b # m => after[b] = base[b]
  BY IntoType
<1>2. /\ stack \in Seq(Nat) /\ m \in Nat /\ Written(e, base) \in Texts
      /\ \A i \in 1..Len(stack) : stack[i] # m
  BY WrittenType, TopStack DEF Top
<1>3. /\ Len(stack) \in Nat /\ Len(whole) = Len(stack) + 1 /\ whole[Len(stack) + 1] = m
      /\ blocks \in Nat
  BY TopStack DEF Top
<1>4. Filled(Append(s, e))[base] = Filled(s)[after]
  BY FilledAppend
<1> HIDE DEF after, whole, m
<1>5. Open(Append(stack, m), after) = Written(e, base) \o Open(Append(stack, m), base)
  BY <1>1, <1>2, OpenInto
<1>6. Room(after, whole, blocks)
  <2> SUFFICES ASSUME NEW b \in 1..blocks, \A i \in 1..Len(whole) : whole[i] # b
               PROVE  after[b] = <<>>
    BY DEF Room
  <2>1. Len(stack) + 1 \in 1..Len(whole)
    BY <1>3
  <2>2. b # m /\ b \in Nat
    BY <1>3, <2>1
  <2>3. base[b] = <<>>
    BY DEF Room, whole, m
  <2> QED BY <1>1, <2>2, <2>3
<1>7. Filled(s)[after][TopBlock] = text \o Open(whole, after)
  BY <1>1, <1>6 DEF Prints, whole, m
<1> QED
  BY <1>4, <1>5, <1>7 DEF whole, m

\* The end of a statement.
LEMMA PrintsEnd ==
  ASSUME NEW s, NEW e, NEW text, NEW stack, NEW blocks, More(s, e, text, stack, blocks),
         e.child = NoBlock
  PROVE  Prints(Append(s, e), Append(text \o e.tokens, <<";">>), Append(stack, e.block), blocks)
<1> SUFFICES ASSUME NEW base \in Bases, Room(base, Append(stack, e.block), blocks)
             PROVE  Filled(Append(s, e))[base][TopBlock] =
                      Append(text \o e.tokens, <<";">>) \o Open(Append(stack, e.block), base)
  BY DEF Prints
<1>1. Filled(Append(s, e))[base][TopBlock] =
        text \o (Written(e, base) \o Open(Append(stack, e.block), base))
  BY FilledMore
<1> DEFINE o == Open(Append(stack, e.block), base)
           end == << <<";">> >>
           t == e.tokens
<1>2. Written(e, base) = t \o end
  BY DEF Written
<1>3. o \in Texts /\ t \in Texts /\ end \in Texts /\ text \in Texts
  BY TopStack, OpenType, DelimiterWords DEF Statements, More
<1>4. Append(text \o t, <<";">>) = (text \o t) \o end
  <2>1. text \o t \in Texts /\ <<";">> \in Words
    BY <1>3, TextAlgebra, DelimiterIsWord
  <2> QED BY <2>1, TextAlgebra
<1> HIDE DEF o, end, t
<1>5. ((text \o t) \o end) \o o = text \o ((t \o end) \o o)
  <2>1. t \o end \in Texts
    BY <1>3, TwoTexts
  <2>2. Associate(text, t, end) /\ Associate(text, t \o end, o)
    BY <1>3, <2>1, ThreeTexts
  <2> QED BY <2>2 DEF Associate
<1> QED
  BY <1>1, <1>2, <1>4, <1>5 DEF o, t

\* The beginning of a block.
LEMMA PrintsOpen ==
  ASSUME NEW s, NEW e, NEW text, NEW stack, NEW blocks, More(s, e, text, stack, blocks),
         e.child = blocks + 1
  PROVE  Prints(Append(s, e), Append(text \o e.tokens, <<"{">>),
                Append(Append(stack, e.block), e.child), e.child)
<1> DEFINE whole == Append(stack, e.block)
           b == e.child
           t == e.tokens
           begin == << <<"{">> >>
           end == << <<"}">> >>
<1>0. /\ blocks \in Nat /\ whole \in Seq(Nat) /\ Len(whole) \in Nat /\ b \in Nat
      /\ \A i \in 1..Len(whole) : whole[i] \in 1..blocks
  <2>1. Top(stack, e.block, blocks) /\ b \in Nat /\ blocks \in Nat
    BY DEF More, Top, Statements
  <2> HIDE DEF b
  <2>2. /\ whole \in Seq(Nat) /\ Len(whole) = Len(stack) + 1 /\ Len(stack) \in Nat
        /\ \A i \in 1..(Len(stack) + 1) : whole[i] \in 1..blocks
    BY <2>1, TopStack
  <2> HIDE DEF whole
  <2> QED BY <2>1, <2>2
<1> SUFFICES ASSUME NEW base \in Bases, Room(base, Append(whole, b), b)
             PROVE  Filled(Append(s, e))[base][TopBlock] =
                      Append(text \o t, <<"{">>) \o Open(Append(whole, b), base)
  BY DEF Prints
<1>1. Room(base, whole, blocks)
  <2> SUFFICES ASSUME NEW x \in 1..blocks, \A i \in 1..Len(whole) : whole[i] # x
               PROVE  base[x] = <<>>
    BY DEF Room
  <2> HIDE DEF whole
  <2>1. x \in 1..b /\ x # b
    BY <1>0
  <2>2. \A i \in 1..Len(Append(whole, b)) : Append(whole, b)[i] # x
    BY <1>0, <2>1
  <2> QED BY <2>1, <2>2 DEF Room
<1>2. Filled(Append(s, e))[base][TopBlock] = text \o (Written(e, base) \o Open(whole, base))
  BY <1>1, FilledMore
<1> DEFINE o == Open(whole, base)
           in == base[b]
<1>3. Written(e, base) = t \o ((begin \o in) \o end)
  <2>1. e.child # NoBlock
    BY <1>0 DEF NoBlock
  <2> QED BY <2>1 DEF Written
<1>4. Open(Append(whole, b), base) = in \o (end \o o)
  <2>1. Open(Append(whole, b), base) = Closed(base, <<o, b>>)
    BY <1>0, OpenAppend
  <2>2. b # TopBlock
    BY <1>0 DEF TopBlock, Top, More
  <2> QED BY <2>1, <2>2 DEF Closed
<1>5. /\ o \in Texts /\ t \in Texts /\ begin \in Texts /\ end \in Texts /\ text \in Texts
      /\ in \in Texts
  BY <1>0, OpenType, DelimiterWords DEF Statements, More, Bases
<1>6. Append(text \o t, <<"{">>) = (text \o t) \o begin
  <2>1. text \o t \in Texts /\ <<"{">> \in Words
    BY <1>5, TextAlgebra, DelimiterIsWord
  <2> QED BY <2>1, TextAlgebra
<1> HIDE DEF whole, b, t, begin, end, o, in
<1>7. ((text \o t) \o begin) \o (in \o (end \o o)) = text \o ((t \o ((begin \o in) \o end)) \o o)
  <2> DEFINE l == begin \o in
             r == end \o o
             inner == in \o r
  <2>1. l \in Texts /\ r \in Texts
    BY <1>5, TwoTexts
  <2>2. inner \in Texts /\ l \o end \in Texts
    BY <1>5, <2>1, TwoTexts
  <2>3. begin \o inner \in Texts /\ text \o t \in Texts
    BY <1>5, <2>2, TwoTexts
  <2>4. Associate(text \o t, begin, inner) /\ Associate(text, t, begin \o inner)
    BY <1>5, <2>2, <2>3, ThreeTexts
  <2>5. Associate(begin, in, r) /\ Associate(l, end, o) /\ Associate(t, l \o end, o)
    BY <1>5, <2>1, <2>2, ThreeTexts
  <2>6. ((text \o t) \o begin) \o inner = text \o (t \o (begin \o inner))
    <3> HIDE DEF inner
    <3> QED BY <2>4 DEF Associate
  <2>7. begin \o inner = l \o r
    BY <2>5 DEF Associate
  <2>8. (t \o (l \o end)) \o o = t \o (l \o r)
    <3> HIDE DEF l
    <3> QED BY <2>5 DEF Associate
  <2> QED BY <2>6, <2>7, <2>8
<1> QED
  BY <1>2, <1>3, <1>4, <1>6, <1>7 DEF o

\* The end of a block.
LEMMA PrintsClose ==
  ASSUME NEW s, NEW text \in Texts, NEW stack, NEW m, NEW blocks, Top(stack, m, blocks),
         Prints(s, text, Append(stack, m), blocks), m # TopBlock
  PROVE  Prints(s, Append(text, <<"}">>), stack, blocks)
<1> DEFINE end == << <<"}">> >>
           whole == Append(stack, m)
<1> SUFFICES ASSUME NEW base \in Bases, Room(base, stack, blocks)
             PROVE  Filled(s)[base][TopBlock] = Append(text, <<"}">>) \o Open(stack, base)
  BY DEF Prints
<1>0. /\ stack \in Seq(Nat) /\ m \in Nat /\ m \in 1..blocks /\ Len(stack) \in Nat
      /\ \A i \in 1..Len(stack) : whole[i] = stack[i] /\ stack[i] # m
      /\ Len(whole) = Len(stack) + 1
  BY TopStack DEF Top
<1>1. base[m] = <<>>
  BY <1>0 DEF Room
<1>2. Room(base, whole, blocks)
  <2> SUFFICES ASSUME NEW b \in 1..blocks, \A i \in 1..Len(whole) : whole[i] # b
               PROVE  base[b] = <<>>
    BY DEF Room
  <2> HIDE DEF whole
  <2>1. \A i \in 1..Len(stack) : stack[i] # b
    BY <1>0
  <2> QED BY <2>1 DEF Room
<1>3. Filled(s)[base][TopBlock] = text \o Open(whole, base)
  BY <1>2 DEF Prints
<1>4. Open(whole, base) = base[m] \o (end \o Open(stack, base))
  <2>1. Open(whole, base) = Closed(base, <<Open(stack, base), m>>)
    BY <1>0, OpenAppend
  <2> QED BY <2>1 DEF Closed
<1>5. Open(stack, base) \in Texts /\ end \in Texts /\ end \o Open(stack, base) \in Texts
  BY <1>0, OpenType, DelimiterWords, TextAlgebra
<1>6. Append(text, <<"}">>) = text \o end
  BY DelimiterIsWord, TextAlgebra
<1> HIDE DEF whole, end
<1>7. Open(whole, base) = end \o Open(stack, base)
  BY <1>1, <1>4, <1>5, TextAlgebra
<1>8. (text \o end) \o Open(stack, base) = text \o (end \o Open(stack, base))
  BY <1>5, ThreeTexts DEF Associate
<1> QED
  BY <1>3, <1>6, <1>7, <1>8

\* When all blocks are closed the text is all there is.
LEMMA PrintsAll ==
  ASSUME NEW s, NEW text \in Texts, NEW blocks, Prints(s, text, <<TopBlock>>, blocks)
  PROVE  Filled(s)[[b \in Nat |-> <<>>]][TopBlock] = text
<1> DEFINE base == [b \in Nat |-> <<>>]
<1>1. base \in Bases /\ base[TopBlock] = <<>>
  BY TextAlgebra DEF Bases, TopBlock
<1>2. Room(base, <<TopBlock>>, blocks)
  <2>1. base = [b \in Nat |-> <<>>]
    OBVIOUS
  <2>2. \A b \in 1..blocks : b \in Nat
    OBVIOUS
  <2> QED BY <2>1, <2>2 DEF Room
<1> HIDE DEF base
<1>3. Filled(s)[base][TopBlock] = text \o Open(<<TopBlock>>, base)
  BY <1>1, <1>2 DEF Prints
<1>4. <<TopBlock>> = Append(<<>>, TopBlock) /\ <<>> \in Seq(Nat) /\ TopBlock \in Nat
  BY DEF TopBlock
<1>5. Open(<<TopBlock>>, base) = Closed(base, <<Open(<<>>, base), TopBlock>>)
  BY <1>1, <1>4, OpenAppend
<1>6. Open(<<TopBlock>>, base) = <<>>
  BY <1>1, <1>5, TextAlgebra DEF Closed
<1> QED
  BY <1>3, <1>6, TextAlgebra DEF base

-----------------------------------------------------------------------------
(***************************************************************************)
(* The parser.                                                             *)
(***************************************************************************)
Ascending(stack, blocks) ==
  /\ blocks \in Nat /\ stack \in Seq(Nat) /\ stack # <<>> /\ stack[1] = TopBlock
  /\ \A i \in 1..Len(stack) : stack[i] \in 1..blocks
  /\ \A i, j \in 1..Len(stack) : i < j => stack[i] < stack[j]

\* Statements come in the order of the text: a block is inside the statement it
\* belongs to, and before the next one of the block around it.
Tree(s, stack, blocks) ==
  /\ \A i \in 1..Len(s) :
       /\ s[i].block \in 1..blocks /\ s[i].child \in {NoBlock} \cup 2..blocks
       /\ s[i].child # NoBlock => s[i].block < s[i].child
  /\ \A i, j \in 1..Len(s) : s[i].child # NoBlock /\ s[j].block = s[i].child => i < j
  /\ \A i, x, y \in 1..Len(s) :
       s[i].child # NoBlock /\ s[y].block = s[i].child /\ i < x /\ s[x].block < s[i].child
         => y < x
  /\ \A i, x \in 1..Len(s) : \A k \in 1..Len(stack) :
       s[i].child = stack[k] /\ i < x => s[x].block >= stack[k]

\* A statement that has begun is the last one, on the top of the stack.
PrintsSoFar(last, stack, blocks, statements, tokens) ==
  IF last # "normal" THEN Prints(statements, tokens, stack, blocks)
  ELSE \E s, e, text : /\ More(s, e, text, Front(stack), blocks) /\ statements = Append(s, e)
                       /\ e.block = Last(stack) /\ e.child = NoBlock
                       /\ tokens = text \o e.tokens

Core(last, stack, blocks, statements, tokens) ==
  /\ last \in {"start", "normal", "end", "open", "close"}
  /\ tokens \in Texts /\ statements \in Seq(Statements)
  /\ Ascending(stack, blocks) /\ Tree(statements, stack, blocks)
  /\ PrintsSoFar(last, stack, blocks, statements, tokens)

LEMMA FrontLast ==
  ASSUME NEW C, NEW s \in Seq(C), s # <<>>
  PROVE  /\ Front(s) \in Seq(C) /\ Len(Front(s)) = Len(s) - 1 /\ Last(s) \in C
         /\ \A i \in 1..(Len(s) - 1) : Front(s)[i] = s[i]
         /\ s = Append(Front(s), Last(s))
<1> DEFINE n == Len(s) - 1
<1>1. /\ n \in Nat /\ Len(s) \in Nat /\ Len(s) = n + 1 /\ \A i \in 1..(n + 1) : s[i] \in C
      /\ \A i \in 1..n : i \in 1..(n + 1)
  OBVIOUS
<1>2. Front(s) \in Seq(C) /\ Len(Front(s)) = n /\ \A i \in 1..n : Front(s)[i] = s[i]
  BY <1>1 DEF Front
<1>3. Last(s) = s[n + 1] /\ Last(s) \in C
  BY <1>1 DEF Last
<1>4. s = Append(Front(s), Last(s))
  <2> HIDE DEF n
  <2>0. PICK f \in Seq(C), l \in C : f = Front(s) /\ l = Last(s)
    BY <1>2, <1>3
  <2> DEFINE u == Append(f, l)
  <2>1. u \in Seq(C) /\ Len(u) = n + 1 /\ u[n + 1] = s[n + 1] /\ \A i \in 1..n : u[i] = s[i]
    BY <1>1, <1>2, <1>3, <2>0
  <2>2. \A i \in 1..(n + 1) : i \in 1..n \/ i = n + 1
    BY <1>1
  <2> HIDE DEF u
  <2>3. \A i \in 1..Len(s) : s[i] = u[i]
    BY <1>1, <2>1, <2>2
  <2>4. s = u
    BY <1>1, <2>1, <2>3, SeqEqual
  <2> QED BY <2>0, <2>4 DEF u
<1> QED
  BY <1>1, <1>2, <1>3, <1>4

LEMMA AscendingTop ==
  ASSUME NEW stack, NEW blocks, Ascending(stack, blocks)
  PROVE  /\ stack = Append(Front(stack), Last(stack)) /\ Top(Front(stack), Last(stack), blocks)
         /\ Len(stack) \in Nat /\ Last(stack) \in 1..blocks
         /\ \A i \in 1..Len(stack) : stack[i] <= Last(stack)
         /\ Len(stack) = 1 => stack = <<TopBlock>>
         /\ Len(stack) # 1 => Ascending(Front(stack), blocks) /\ Last(stack) # TopBlock
         /\ Len(Front(stack)) = Len(stack) - 1
         /\ \A i \in 1..(Len(stack) - 1) : Front(stack)[i] = stack[i]
<1> DEFINE n == Len(stack)
           f == Front(stack)
           m == Last(stack)
<1>1. /\ blocks \in Nat /\ stack \in Seq(Nat) /\ n \in Nat /\ n >= 1 /\ stack[1] = TopBlock
      /\ \A i \in 1..n : stack[i] \in 1..blocks
      /\ \A i, j \in 1..n : i < j => stack[i] < stack[j]
  BY DEF Ascending
<1>2. /\ f \in Seq(Nat) /\ Len(f) = n - 1 /\ \A i \in 1..(n - 1) : f[i] = stack[i]
      /\ stack = Append(f, m) /\ m = stack[n] /\ m \in Nat
  <2>1. n - 1 \in Nat /\ n \in 1..n /\ \A i \in 1..(n - 1) : i \in 1..n
    BY <1>1
  <2>2. m = stack[n] /\ m \in Nat
    BY <1>1, <2>1 DEF Last
  <2> HIDE DEF n, f, m
  <2>4. /\ f \in Seq(Nat) /\ Len(f) = n - 1 /\ \A i \in 1..(n - 1) : f[i] = stack[i]
        /\ stack = Append(f, m)
    <3>1. stack \in Seq(Nat) /\ stack # <<>>
      BY DEF Ascending
    <3> QED BY <3>1, FrontLast DEF n, f, m
  <2> QED BY <2>2, <2>4
<1> HIDE DEF n, f, m
<1>3. m \in 1..blocks /\ \A i \in 1..(n - 1) : f[i] \in 1..blocks /\ f[i] < m
  BY <1>1, <1>2
<1>4. Top(f, m, blocks)
  BY <1>1, <1>2, <1>3 DEF Top
<1>5. \A i \in 1..n : stack[i] <= m
  <2>1. \A i \in 1..n : i = n \/ i \in 1..(n - 1)
    BY <1>1
  <2>2. \A i \in 1..(n - 1) : stack[i] <= m
    BY <1>1, <1>2, <1>3
  <2> QED BY <1>1, <1>2, <2>1, <2>2
<1>6. n = 1 => stack = <<TopBlock>>
  BY <1>1 DEF n
<1>7. ASSUME n # 1 PROVE Ascending(f, blocks) /\ m # TopBlock
  <2>1. 1 \in 1..(n - 1)
    BY <1>1, <1>7
  <2>2. f[1] = TopBlock /\ f # <<>>
    BY <1>1, <1>2, <2>1
  <2>3. \A i \in 1..(n - 1) : i \in 1..n
    BY <1>1
  <2>4. \A i, j \in 1..(n - 1) : i < j => f[i] < f[j]
    BY <1>1, <1>2, <2>3
  <2>5. m # TopBlock
    <3>1. f[1] < m /\ m \in Nat /\ f[1] = 1
      BY <1>2, <1>3, <2>1, <2>2 DEF TopBlock
    <3>2. m # 1
      BY <3>1
    <3> QED BY <3>2 DEF TopBlock
  <2> QED BY <1>1, <1>2, <1>3, <2>2, <2>4, <2>5 DEF Ascending
<1> QED
  BY <1>1, <1>2, <1>3, <1>4, <1>5, <1>6, <1>7 DEF n, f, m

\* The tree depends on the blocks and children only.
LEMMA TreeSame ==
  ASSUME NEW s, NEW t, NEW stack, NEW blocks, Tree(s, stack, blocks), Len(t) = Len(s),
         \A i \in 1..Len(s) : t[i].block = s[i].block /\ t[i].child = s[i].child
  PROVE  Tree(t, stack, blocks)
BY DEF Tree

LEMMA TreeMore ==
  ASSUME NEW s \in Seq(Statements), NEW e \in Statements, NEW stack, NEW blocks,
         Tree(s, stack, blocks), Ascending(stack, blocks),
         e.block = Last(stack), e.child = NoBlock
  PROVE  Tree(Append(s, e), stack, blocks)
<1> DEFINE u == Append(s, e)
           n == Len(s) + 1
           m == Last(stack)
<1>1. /\ Len(s) \in Nat /\ n \in Nat /\ Len(u) = n /\ u[n] = e /\ \A i \in 1..Len(s) : u[i] = s[i]
      /\ \A i \in 1..n : i \in 1..Len(s) \/ i = n
      /\ \A i \in 1..Len(s) : i < n
      /\ blocks \in Nat
  BY DEF Ascending
<1>2. /\ m \in 1..blocks /\ m \in Nat /\ \A k \in 1..Len(stack) : stack[k] <= m
      /\ Len(stack) \in 1..Len(stack) /\ stack[Len(stack)] = m
      /\ \A k \in 1..Len(stack) : stack[k] \in Nat
  BY AscendingTop DEF Ascending, Last
<1>3. u[n].block = m /\ u[n].child = NoBlock /\ ~(n < n)
  BY <1>1
<1>4. \A i \in 1..Len(s) : s[i].block \in Nat /\ s[i].child \in Nat
  <2>1. \A i \in 1..Len(s) : s[i] \in Statements
    OBVIOUS
  <2> QED BY <2>1 DEF Statements
<1> HIDE DEF u, n, m
<1>5. \A i \in 1..n :
       /\ u[i].block \in 1..blocks /\ u[i].child \in {NoBlock} \cup 2..blocks
       /\ u[i].child # NoBlock => u[i].block < u[i].child
  BY <1>1, <1>2, <1>3 DEF Tree
<1>6. \A i, j \in 1..n : u[i].child # NoBlock /\ u[j].block = u[i].child => i < j
  BY <1>1, <1>3 DEF Tree
<1>7. ASSUME NEW i \in 1..n, NEW x \in 1..n, NEW y \in 1..n,
             u[i].child # NoBlock, u[y].block = u[i].child, i < x, u[x].block < u[i].child
      PROVE  y < x
  <2>1. i \in 1..Len(s) /\ u[i] = s[i]
    BY <1>1, <1>3, <1>7
  <2>2. CASE x \in 1..Len(s) /\ y \in 1..Len(s)
    BY <1>1, <1>7, <2>1, <2>2 DEF Tree
  <2>3. CASE x \in 1..Len(s) /\ y = n
    <3>1. s[i].child = m /\ s[x].block < m
      BY <1>1, <1>3, <1>7, <2>1, <2>3
    <3>2. s[x].block >= m
      BY <1>2, <1>7, <2>1, <2>3, <3>1 DEF Tree
    <3> QED BY <1>2, <1>4, <2>3, <3>1, <3>2
  <2>4. CASE x = n
    <3>1. y # n
      BY <1>2, <1>3, <1>7, <2>4
    <3> QED BY <1>1, <2>4, <3>1
  <2> QED BY <1>1, <2>2, <2>3, <2>4
<1>8. \A i, x \in 1..n : \A k \in 1..Len(stack) :
        u[i].child = stack[k] /\ i < x => u[x].block >= stack[k]
  <2> SUFFICES ASSUME NEW i \in 1..n, NEW x \in 1..n, NEW k \in 1..Len(stack),
                      u[i].child = stack[k], i < x
               PROVE  u[x].block >= stack[k]
    OBVIOUS
  <2>1. i \in 1..Len(s)
    BY <1>1
  <2>2. CASE x \in 1..Len(s)
    BY <1>1, <2>1, <2>2 DEF Tree
  <2>3. CASE x = n
    BY <1>2, <1>3, <2>3
  <2> QED BY <1>1, <2>2, <2>3
<1> QED
  BY <1>1, <1>5, <1>6, <1>7, <1>8 DEF Tree, u

\* The last statement gets a block, which is the newest one.
LEMMA TreeOpens ==
  ASSUME NEW s \in Seq(Statements), NEW e \in Statements, NEW stack, NEW blocks,
         Tree(Append(s, [e EXCEPT !.child = NoBlock]), stack, blocks), Ascending(stack, blocks),
         e.child = blocks + 1
  PROVE  Tree(Append(s, e), Append(stack, blocks + 1), blocks + 1)
<1> DEFINE u == Append(s, [e EXCEPT !.child = NoBlock])
           w == Append(s, e)
           n == Len(s) + 1
           b == blocks + 1
           stack2 == Append(stack, b)
<1>1. /\ Len(s) \in Nat /\ n \in Nat /\ Len(u) = n /\ Len(w) = n
      /\ \A i \in 1..Len(s) : u[i] = s[i] /\ w[i] = s[i]
      /\ \A i \in 1..n : i \in 1..Len(s) \/ i = n
      /\ \A i \in 1..Len(s) : i < n
      /\ w[n].block = u[n].block /\ w[n].child = b /\ blocks \in Nat /\ b \in Nat
  <2>1. [e EXCEPT !.child = NoBlock] \in Statements /\ [e EXCEPT !.child = NoBlock].block = e.block
    BY DEF Statements, NoBlock
  <2>2. PICK d \in Statements : d = [e EXCEPT !.child = NoBlock]
    BY <2>1
  <2> QED BY <2>1, <2>2 DEF Ascending
<1>2. /\ Len(stack) \in Nat /\ Len(stack2) = Len(stack) + 1 /\ stack2[Len(stack) + 1] = b
      /\ \A k \in 1..Len(stack) : stack2[k] = stack[k] /\ stack[k] \in 1..blocks
      /\ \A k \in 1..(Len(stack) + 1) : k \in 1..Len(stack) \/ k = Len(stack) + 1
  BY <1>1 DEF Ascending
<1> HIDE DEF u, w, n, stack2
<1>3. \A i \in 1..n : w[i].block = u[i].block /\ u[i].block \in 1..blocks
  BY <1>1 DEF Tree, u
<1>4. \A i \in 1..n : i # n => w[i].child = u[i].child
                               /\ w[i].child \in {NoBlock} \cup 2..blocks /\ i < n
  BY <1>1 DEF Tree, u
<1> DEFINE U(i) == u[i]
<1>5. \A i \in 1..n :
        /\ w[i].block \in 1..b /\ w[i].child \in {NoBlock} \cup 2..b
        /\ w[i].child # NoBlock => w[i].block < w[i].child
  <2> SUFFICES ASSUME NEW i \in 1..n
               PROVE  /\ w[i].block \in 1..b /\ w[i].child \in {NoBlock} \cup 2..b
                      /\ w[i].child # NoBlock => w[i].block < w[i].child
    OBVIOUS
  <2>1. w[i].block \in 1..blocks
    BY <1>3
  <2>2. CASE i = n
    <3>1. blocks >= 1
      BY <1>1, <2>1
    <3> QED BY <1>1, <2>1, <2>2, <3>1
  <2>3. CASE i # n
    <3>1. u[i].child # NoBlock => u[i].block < u[i].child
      BY <1>1 DEF Tree, u
    <3> QED BY <1>1, <1>3, <1>4, <2>1, <2>3, <3>1
  <2> QED BY <2>2, <2>3
<1>6. \A j \in 1..n : w[j].block # b
  BY <1>1, <1>3
<1>7. \A i, j \in 1..n : w[i].child # NoBlock /\ w[j].block = w[i].child => i < j
  <2> SUFFICES ASSUME NEW i \in 1..n, NEW j \in 1..n, w[i].child # NoBlock, w[j].block = w[i].child
               PROVE  i < j
    OBVIOUS
  <2>1. i # n
    BY <1>1, <1>6
  <2> QED BY <1>1, <1>3, <1>4, <2>1 DEF Tree, u
<1>8. \A i, x, y \in 1..n :
       w[i].child # NoBlock /\ w[y].block = w[i].child /\ i < x /\ w[x].block < w[i].child => y < x
  <2> SUFFICES ASSUME NEW i \in 1..n, NEW x \in 1..n, NEW y \in 1..n, w[i].child # NoBlock,
                      w[y].block = w[i].child, i < x, w[x].block < w[i].child
               PROVE  y < x
    OBVIOUS
  <2>1. i # n
    BY <1>1, <1>6
  <2> QED BY <1>1, <1>3, <1>4, <2>1 DEF Tree, u
<1>9. \A i, x \in 1..n : \A k \in 1..Len(stack2) :
        w[i].child = stack2[k] /\ i < x => w[x].block >= stack2[k]
  <2> SUFFICES ASSUME NEW i \in 1..n, NEW x \in 1..n, NEW k \in 1..Len(stack2),
                      w[i].child = stack2[k], i < x
               PROVE  w[x].block >= stack2[k]
    OBVIOUS
  <2>1. i # n
    BY <1>1
  <2>2. w[i].child = u[i].child /\ w[i].child \in {NoBlock} \cup 2..blocks
    BY <1>4, <2>1
  <2>3. k \in 1..Len(stack)
    <3>1. w[i].child # b
      BY <1>1, <2>2 DEF NoBlock
    <3> QED BY <1>2, <3>1
  <2> QED BY <1>1, <1>2, <1>3, <2>2, <2>3 DEF Tree, u
<1> QED
  BY <1>1, <1>5, <1>7, <1>8, <1>9 DEF Tree, w, stack2

LEMMA TreeCloses ==
  ASSUME NEW s, NEW stack, NEW blocks, Tree(s, stack, blocks), Ascending(stack, blocks)
  PROVE  Tree(s, Front(stack), blocks)
<1>1. /\ Len(stack) \in Nat /\ Len(Front(stack)) = Len(stack) - 1
      /\ \A k \in 1..(Len(stack) - 1) : Front(stack)[k] = stack[k]
  BY AscendingTop
<1>2. \A k \in 1..(Len(stack) - 1) : k \in 1..Len(stack)
  BY <1>1
<1> QED
  BY <1>1, <1>2 DEF Tree

-----------------------------------------------------------------------------
(***************************************************************************)
(* What each token does to it.                                             *)
(***************************************************************************)
LEMMA AppendBoth ==
  ASSUME NEW C, NEW s \in Seq(C), NEW e \in C, NEW d \in C
  PROVE  /\ Len(Append(s, d)) = Len(Append(s, e))
         /\ \A i \in 1..Len(Append(s, e)) : \/ Append(s, d)[i] = Append(s, e)[i]
                                           \/ /\ Append(s, d)[i] = d
                                              /\ Append(s, e)[i] = e
OBVIOUS

LEMMA LastChanged ==
  ASSUME NEW C, NEW s \in Seq(C), NEW e \in C, NEW d \in C
  PROVE  /\ Len(Append(s, e)) = Len(s) + 1 /\ Append(s, e)[Len(s) + 1] = e
         /\ [Append(s, e) EXCEPT ![Len(s) + 1] = d] = Append(s, d)
<1> DEFINE u == Append(s, e)
           w == Append(s, d)
           n == Len(s) + 1
           v == [u EXCEPT ![n] = d]
<1>1. /\ n \in Nat /\ u \in Seq(C) /\ w \in Seq(C) /\ Len(u) = n /\ Len(w) = n /\ u[n] = e
      /\ w[n] = d /\ n \in 1..n /\ \A i \in 1..n : i # n => u[i] = w[i]
  OBVIOUS
<1> HIDE DEF u, w, n
<1>2. v \in Seq(C) /\ Len(v) = n /\ \A i \in 1..n : v[i] = IF i = n THEN d ELSE u[i]
  BY <1>1, ExceptSeq
<1> HIDE DEF v
<1>3. v = w
  BY <1>1, <1>2, SeqEqual
<1> QED
  BY <1>1, <1>3 DEF u, v, w, n

\* The beginning of a statement.
LEMMA WordBegins ==
  ASSUME NEW last, NEW stack, NEW blocks, NEW statements, NEW tokens,
         Core(last, stack, blocks, statements, tokens), last # "normal", NEW w \in Words
  PROVE  Core("normal", stack, blocks, Append(statements, Statement(Last(stack), w)),
              Append(tokens, w))
<1> PICK e : e = Statement(Last(stack), w)
  OBVIOUS
<1>1. /\ tokens \in Texts /\ statements \in Seq(Statements) /\ Ascending(stack, blocks)
      /\ Tree(statements, stack, blocks) /\ Prints(statements, tokens, stack, blocks)
  BY DEF Core, PrintsSoFar
<1>2. /\ stack = Append(Front(stack), Last(stack)) /\ Top(Front(stack), Last(stack), blocks)
      /\ Last(stack) \in Nat
  BY <1>1, AscendingTop DEF Top
<1>3. e \in Statements /\ e.block = Last(stack) /\ e.child = NoBlock /\ e.tokens = <<w>>
  <2>1. <<w>> \in Texts /\ <<w>> # <<>>
    BY TextAlgebra
  <2> QED BY <1>2, <2>1 DEF Statement, Statements, NoBlock
<1>4. Append(tokens, w) = tokens \o e.tokens /\ Append(tokens, w) \in Texts
  <2>1. Append(tokens, w) = tokens \o <<w>> /\ <<w>> \in Texts
    BY <1>1, TextAlgebra
  <2> QED BY <1>1, <1>3, <2>1, TwoTexts
<1>5. More(statements, e, tokens, Front(stack), blocks)
  BY <1>1, <1>2, <1>3 DEF More
<1>6. Append(statements, e) \in Seq(Statements)
  BY <1>1, <1>3
<1>7. Tree(Append(statements, e), stack, blocks)
  BY <1>1, <1>3, TreeMore
<1>8. PrintsSoFar("normal", stack, blocks, Append(statements, e), Append(tokens, w))
  BY <1>3, <1>4, <1>5 DEF PrintsSoFar
<1> QED
  BY <1>1, <1>4, <1>6, <1>7, <1>8 DEF Core

\* What Core says after a word.
Begun(s, e, text, stack, blocks, statements, tokens) ==
  /\ More(s, e, text, Front(stack), blocks) /\ statements = Append(s, e)
  /\ e.block = Last(stack) /\ e.child = NoBlock /\ tokens = text \o e.tokens
  /\ tokens \in Texts /\ Ascending(stack, blocks) /\ Tree(statements, stack, blocks)
  /\ s \in Seq(Statements) /\ e \in Statements /\ text \in Texts
  /\ stack = Append(Front(stack), Last(stack)) /\ Top(Front(stack), Last(stack), blocks)

LEMMA CoreBegun ==
  ASSUME NEW stack, NEW blocks, NEW statements, NEW tokens,
         Core("normal", stack, blocks, statements, tokens)
  PROVE  \E s, e, text : Begun(s, e, text, stack, blocks, statements, tokens)
BY AscendingTop DEF Core, PrintsSoFar, Begun, More

\* Another word of it.
LEMMA WordFollows ==
  ASSUME NEW stack, NEW blocks, NEW statements, NEW tokens,
         Core("normal", stack, blocks, statements, tokens), NEW w \in Words
  PROVE  Core("normal", stack, blocks,
              [statements EXCEPT ![Len(statements)].tokens = Append(@, w)], Append(tokens, w))
<1>1. PICK s, e, text : Begun(s, e, text, stack, blocks, statements, tokens)
  BY CoreBegun
<1>2. PICK d : d = [e EXCEPT !.tokens = Append(@, w)]
  OBVIOUS
<1>3. e \in Statements /\ s \in Seq(Statements) /\ text \in Texts
  BY <1>1 DEF Begun
<1>4. /\ d \in Statements /\ d.block = e.block /\ d.child = e.child
      /\ d.tokens = e.tokens \o <<w>>
  <2>1. e.tokens \in Texts /\ Append(e.tokens, w) = e.tokens \o <<w>> /\ <<w>> \in Texts
    BY <1>3, TextAlgebra DEF Statements
  <2>2. Append(e.tokens, w) \in Texts
    BY <2>1, TwoTexts
  <2>3. Append(e.tokens, w) # <<>>
    <3>1. e.tokens \in Seq(Words)
      BY <2>1 DEF Texts
    <3> QED BY <3>1, AppendProperties
  <2> QED BY <1>2, <1>3, <2>1, <2>2, <2>3 DEF Statements
<1>5. [statements EXCEPT ![Len(statements)].tokens = Append(@, w)] = Append(s, d)
  <2>1. statements = Append(s, e)
    BY <1>1 DEF Begun
  <2>2. /\ Len(statements) = Len(s) + 1 /\ statements[Len(s) + 1] = e
        /\ [statements EXCEPT ![Len(s) + 1] = d] = Append(s, d)
    BY <1>3, <1>4, <2>1, LastChanged
  <2> QED BY <1>2, <2>2
<1>6. Tree(Append(s, d), stack, blocks)
  <2>1. /\ Len(Append(s, d)) = Len(Append(s, e))
        /\ \A i \in 1..Len(Append(s, e)) : \/ Append(s, d)[i] = Append(s, e)[i]
                                          \/ /\ Append(s, d)[i] = d
                                             /\ Append(s, e)[i] = e
    BY <1>3, <1>4, AppendBoth
  <2>2. Tree(Append(s, e), stack, blocks)
    BY <1>1 DEF Begun
  <2> QED BY <1>4, <2>1, <2>2, TreeSame
<1>7. /\ Append(tokens, w) = text \o d.tokens /\ Append(tokens, w) \in Texts
  <2>1. tokens = text \o e.tokens /\ e.tokens \in Texts /\ tokens \in Texts
    BY <1>1, <1>3 DEF Begun, Statements
  <2>2. <<w>> \in Texts /\ Append(tokens, w) = tokens \o <<w>>
    BY <2>1, TextAlgebra
  <2>3. tokens \o <<w>> \in Texts
    BY <2>1, <2>2, TwoTexts
  <2>4. Associate(text, e.tokens, <<w>>)
    BY <1>3, <2>1, <2>2, ThreeTexts
  <2> QED BY <1>4, <2>1, <2>2, <2>3, <2>4 DEF Associate
<1>8. More(s, d, text, Front(stack), blocks)
  BY <1>1, <1>4 DEF Begun, More
<1>9. PrintsSoFar("normal", stack, blocks, Append(s, d), Append(tokens, w))
  <2>1. d.block = Last(stack) /\ d.child = NoBlock
    BY <1>1, <1>4 DEF Begun
  <2> QED BY <1>7, <1>8, <2>1 DEF PrintsSoFar
<1>10. Append(s, d) \in Seq(Statements) /\ Ascending(stack, blocks)
  BY <1>1, <1>3, <1>4 DEF Begun
<1> QED
  BY <1>5, <1>6, <1>7, <1>9, <1>10 DEF Core

LEMMA StatementEnds ==
  ASSUME NEW stack, NEW blocks, NEW statements, NEW tokens,
         Core("normal", stack, blocks, statements, tokens)
  PROVE  Core("end", stack, blocks, statements, Append(tokens, <<";">>))
<1>1. PICK s, e, text : Begun(s, e, text, stack, blocks, statements, tokens)
  BY CoreBegun
<1>2. Prints(statements, Append(tokens, <<";">>), stack, blocks)
  <2>1. More(s, e, text, Front(stack), blocks) /\ e.child = NoBlock
    BY <1>1 DEF Begun
  <2>2. Prints(Append(s, e), Append(text \o e.tokens, <<";">>),
               Append(Front(stack), e.block), blocks)
    BY <2>1, PrintsEnd
  <2> QED BY <1>1, <2>2 DEF Begun
<1>3. Append(tokens, <<";">>) \in Texts
  <2>1. tokens \in Texts
    BY DEF Core
  <2> QED BY <2>1, DelimiterIsWord, AppendProperties DEF Texts
<1> QED
  BY <1>2, <1>3 DEF Core, PrintsSoFar

LEMMA BlockStarts ==
  ASSUME NEW stack, NEW blocks, NEW statements, NEW tokens,
         Core("normal", stack, blocks, statements, tokens)
  PROVE  Core("open", Append(stack, blocks + 1), blocks + 1,
              [statements EXCEPT ![Len(statements)].child = blocks + 1],
              Append(tokens, <<"{">>))
<1>1. PICK s, e, text : Begun(s, e, text, stack, blocks, statements, tokens)
  BY CoreBegun
<1> DEFINE b == blocks + 1
<1>2. PICK d : d = [e EXCEPT !.child = b]
  OBVIOUS
<1>3. /\ e \in Statements /\ s \in Seq(Statements) /\ text \in Texts /\ blocks \in Nat /\ b \in Nat
      /\ e.child = NoBlock /\ statements = Append(s, e) /\ blocks >= 1
  BY <1>1 DEF Begun, Ascending
<1>4. /\ d \in Statements /\ d.block = e.block /\ d.child = b /\ d.tokens = e.tokens
      /\ e = [d EXCEPT !.child = NoBlock]
  BY <1>2, <1>3 DEF Statements, NoBlock
<1>5. [statements EXCEPT ![Len(statements)].child = b] = Append(s, d)
  <2>1. d \in Statements /\ e \in Statements /\ s \in Seq(Statements) /\ statements = Append(s, e)
    BY <1>3, <1>4
  <2>2. /\ Len(statements) = Len(s) + 1 /\ statements[Len(s) + 1] = e
        /\ [statements EXCEPT ![Len(s) + 1] = d] = Append(s, d)
    BY <2>1, LastChanged
  <2> QED BY <1>2, <2>2
<1>6. Tree(Append(s, d), Append(stack, b), b)
  <2>1. Tree(Append(s, e), stack, blocks) /\ Ascending(stack, blocks)
    BY <1>1 DEF Begun
  <2>2. Tree(Append(s, [d EXCEPT !.child = NoBlock]), stack, blocks)
    BY <1>4, <2>1
  <2> QED BY <1>3, <1>4, <2>1, <2>2, TreeOpens
<1>7. Prints(Append(s, d), Append(tokens, <<"{">>), Append(stack, b), b)
  <2>1. More(s, d, text, Front(stack), blocks)
    BY <1>1, <1>4 DEF Begun, More
  <2>2. Prints(Append(s, d), Append(text \o d.tokens, <<"{">>),
               Append(Append(Front(stack), d.block), d.child), d.child)
    BY <1>4, <2>1, PrintsOpen
  <2>3. /\ d.block = Last(stack) /\ tokens = text \o d.tokens
        /\ stack = Append(Front(stack), Last(stack))
    BY <1>1, <1>4 DEF Begun
  <2> QED BY <1>4, <2>2, <2>3
<1>8. Append(tokens, <<"{">>) \in Texts
  <2>1. tokens \in Texts
    BY DEF Core
  <2> QED BY <2>1, DelimiterIsWord, AppendProperties DEF Texts
<1>9. Append(s, d) \in Seq(Statements)
  BY <1>3, <1>4
<1>10. Ascending(Append(stack, b), b)
  <2> DEFINE n == Len(stack) + 1
             u == Append(stack, b)
  <2>1. /\ stack \in Seq(Nat) /\ stack # <<>> /\ stack[1] = TopBlock /\ Len(stack) \in Nat
        /\ \A i \in 1..Len(stack) : stack[i] \in 1..blocks
        /\ \A i, j \in 1..Len(stack) : i < j => stack[i] < stack[j]
    BY <1>1 DEF Begun, Ascending
  <2>2. /\ u \in Seq(Nat) /\ Len(u) = n /\ n \in Nat /\ u[n] = b /\ u # <<>>
        /\ \A i \in 1..Len(stack) : u[i] = stack[i] /\ i < n
        /\ \A i \in 1..n : i \in 1..Len(stack) \/ i = n
        /\ 1 \in 1..Len(stack)
    <3>1. /\ u \in Seq(Nat) /\ Len(u) = n /\ u[n] = b
          /\ \A i \in 1..Len(stack) : u[i] = stack[i]
      BY <1>3, <2>1
    <3>2. 1 \in 1..Len(stack)
      BY <2>1
    <3>3. n \in Nat /\ u # <<>>
      BY <1>3, <2>1, AppendProperties
    <3> HIDE DEF u
    <3>4. \A i \in 1..n : i \in 1..Len(stack) \/ i = n
      BY <2>1
    <3>5. \A i \in 1..Len(stack) : i < n
      BY <2>1
    <3> QED BY <3>1, <3>2, <3>3, <3>4, <3>5
  <2> HIDE DEF u, n
  <2>3. \A i \in 1..Len(stack) : stack[i] \in Nat /\ stack[i] < b /\ stack[i] \in 1..b
    BY <1>3, <2>1
  <2>4. \A i \in 1..n : u[i] \in 1..b
    BY <1>3, <2>2, <2>3
  <2>5. \A i, j \in 1..n : i < j => u[i] < u[j]
    BY <2>1, <2>2, <2>3
  <2>6. u[1] = TopBlock
    BY <2>1, <2>2
  <2> QED BY <1>3, <2>2, <2>4, <2>5, <2>6 DEF Ascending, u
<1> QED
  BY <1>5, <1>6, <1>7, <1>8, <1>9, <1>10 DEF Core, PrintsSoFar

LEMMA BlockEnds ==
  ASSUME NEW last, NEW stack, NEW blocks, NEW statements, NEW tokens,
         Core(last, stack, blocks, statements, tokens), last # "normal", Len(stack) # 1
  PROVE  Core("close", Front(stack), blocks, statements, Append(tokens, <<"}">>))
<1>1. /\ tokens \in Texts /\ statements \in Seq(Statements) /\ Ascending(stack, blocks)
      /\ Tree(statements, stack, blocks) /\ Prints(statements, tokens, stack, blocks)
  BY DEF Core, PrintsSoFar
<1>2. /\ stack = Append(Front(stack), Last(stack)) /\ Top(Front(stack), Last(stack), blocks)
      /\ Ascending(Front(stack), blocks) /\ Last(stack) # TopBlock
  BY <1>1, AscendingTop
<1>3. Prints(statements, Append(tokens, <<"}">>), Front(stack), blocks)
  <2>1. Prints(statements, tokens, Append(Front(stack), Last(stack)), blocks)
    BY <1>1, <1>2
  <2> QED BY <1>1, <1>2, <2>1, PrintsClose
<1>4. Append(tokens, <<"}">>) \in Texts
  BY <1>1, DelimiterIsWord, AppendProperties DEF Texts
<1>5. Tree(statements, Front(stack), blocks)
  BY <1>1, TreeCloses
<1> QED
  BY <1>1, <1>2, <1>3, <1>4, <1>5 DEF Core, PrintsSoFar

-----------------------------------------------------------------------------
(***************************************************************************)
(* Parse.                                                                  *)
(***************************************************************************)
Parsers ==
  [lex : {"initial", "normal", "quote", "comment"}, value : Seq(Letters),
   last : {"start", "normal", "end", "open", "close"}, stack : Seq(Nat), blocks : Nat,
   statements : Seq(Statements), error : BOOLEAN, tokens : Texts]

\* The states of the parser: a word that has begun is not empty.
Reading ==
  {p \in Parsers : /\ Core(p.last, p.stack, p.blocks, p.statements, p.tokens)
                   /\ p.lex \in {"normal", "quote"} => p.value # <<>>}

LEMMA ParserStartReads == ParserStart \in Reading
<1> DEFINE s == <<TopBlock>>
<1>1. s \in Seq(Nat) /\ s # <<>> /\ s[1] = TopBlock /\ Len(s) = 1 /\ TopBlock \in 1..1 /\ 1 \in Nat
  BY DEF TopBlock
<1>2. Ascending(s, 1)
  <2> HIDE DEF s
  <2>1. \A i \in 1..Len(s) : i = 1
    BY <1>1
  <2> QED BY <1>1, <2>1 DEF Ascending
<1>3. <<>> \in Texts /\ <<>> \in Seq(Statements) /\ <<>> \in Seq(Letters)
  BY TextAlgebra, SeqAlgebra
<1>4. Tree(<<>>, s, 1)
  BY DEF Tree
<1>5. Prints(<<>>, <<>>, s, 1)
  BY PrintsStart
<1>6. Core("start", s, 1, <<>>, <<>>)
  BY <1>2, <1>3, <1>4, <1>5 DEF Core, PrintsSoFar
<1> QED
  BY <1>1, <1>3, <1>6 DEF ParserStart, Reading, Parsers

\* A parser and what changes.
LEMMA FailedReads ==
  ASSUME NEW p \in Reading PROVE Failed(p) \in Reading
BY DEF Failed, Reading, Parsers

LEMMA WordReads ==
  ASSUME NEW p \in Reading, NEW w \in Words PROVE Word(p, w) \in Reading
<1>1. p \in Parsers /\ Core(p.last, p.stack, p.blocks, p.statements, p.tokens)
  BY DEF Reading
<1> DEFINE statements == IF p.last = "normal"
              THEN [p.statements EXCEPT ![Len(p.statements)].tokens = Append(@, w)]
              ELSE Append(p.statements, Statement(Last(p.stack), w))
<1>2. Core("normal", p.stack, p.blocks, statements, Append(p.tokens, w))
  <2>1. CASE p.last = "normal"
    BY <1>1, <2>1, WordFollows
  <2>2. CASE p.last # "normal"
    BY <1>1, <2>2, WordBegins
  <2> QED BY <2>1, <2>2
<1>3. Word(p, w) = [Given(p, "normal", w) EXCEPT !.statements = statements]
  BY DEF Word
<1> HIDE DEF statements
<1> QED
  BY <1>1, <1>2, <1>3 DEF Given, Reading, Parsers, Core

LEMMA EndStatementReads ==
  ASSUME NEW p \in Reading PROVE EndStatement(p) \in Reading
<1>1. CASE p.last = "normal"
  <2>1. p \in Parsers /\ Core("normal", p.stack, p.blocks, p.statements, p.tokens)
    BY <1>1 DEF Reading
  <2>2. Core("end", p.stack, p.blocks, p.statements, Append(p.tokens, <<";">>))
    BY <2>1, StatementEnds
  <2>3. EndStatement(p) = Given(p, "end", <<";">>)
    BY <1>1 DEF EndStatement
  <2> QED BY <2>1, <2>2, <2>3 DEF Given, Reading, Parsers, Core
<1>2. CASE p.last # "normal"
  BY <1>2, FailedReads DEF EndStatement
<1> QED
  BY <1>1, <1>2

LEMMA StartBlockReads ==
  ASSUME NEW p \in Reading PROVE StartBlock(p) \in Reading
<1>1. CASE p.last = "normal"
  <2> DEFINE b == p.blocks + 1
             statements == [p.statements EXCEPT ![Len(p.statements)].child = b]
  <2>1. p \in Parsers /\ Core("normal", p.stack, p.blocks, p.statements, p.tokens)
    BY <1>1 DEF Reading
  <2>2. Core("open", Append(p.stack, b), b, statements, Append(p.tokens, <<"{">>))
    BY <2>1, BlockStarts
  <2>3. StartBlock(p) = [Given(p, "open", <<"{">>) EXCEPT
                           !.blocks = b, !.statements = statements, !.stack = Append(@, b)]
    BY <1>1, <2>1 DEF StartBlock, Given, Parsers
  <2>4. b \in Nat /\ Append(p.stack, b) \in Seq(Nat)
    BY <2>1 DEF Parsers
  <2> HIDE DEF b, statements
  <2> QED BY <2>1, <2>2, <2>3, <2>4 DEF Given, Reading, Parsers, Core
<1>2. CASE p.last # "normal"
  BY <1>2, FailedReads DEF StartBlock
<1> QED
  BY <1>1, <1>2

LEMMA EndBlockReads ==
  ASSUME NEW p \in Reading PROVE EndBlock(p) \in Reading
<1>1. CASE Len(p.stack) = 1 \/ p.last \notin {"end", "close"}
  BY <1>1, FailedReads DEF EndBlock
<1>2. CASE ~(Len(p.stack) = 1 \/ p.last \notin {"end", "close"})
  <2>1. p \in Parsers /\ Core(p.last, p.stack, p.blocks, p.statements, p.tokens)
    BY DEF Reading
  <2>2. Core("close", Front(p.stack), p.blocks, p.statements, Append(p.tokens, <<"}">>))
    BY <1>2, <2>1, BlockEnds
  <2>3. EndBlock(p) = [Given(p, "close", <<"}">>) EXCEPT !.stack = Front(@)]
    BY <1>2 DEF EndBlock
  <2>4. Front(p.stack) \in Seq(Nat)
    BY <2>2 DEF Core, Ascending
  <2> QED BY <2>1, <2>2, <2>3, <2>4 DEF Given, Reading, Parsers, Core
<1> QED
  BY <1>1, <1>2

LEMMA InitialReads ==
  ASSUME NEW p \in Reading, NEW c \in Letters PROVE Initial(p, c) \in Reading
<1>1. [p EXCEPT !.lex = "comment"] \in Reading
  BY DEF Reading, Parsers
<1>2. <<c>> \in Seq(Letters) /\ <<c>> # <<>>
  BY SeqAlgebra
<1>3. \A l \in {"quote", "normal"} : [p EXCEPT !.lex = l, !.value = <<c>>] \in Reading
  BY <1>2 DEF Reading, Parsers
<1> QED
  BY <1>1, <1>3, EndStatementReads, StartBlockReads, EndBlockReads DEF Initial

LEMMA ReturnedReads ==
  ASSUME NEW p \in Reading PROVE Returned(p) \in Reading
<1>1. <<>> \in Seq(Letters)
  BY SeqAlgebra
<1> QED
  BY <1>1 DEF Returned, Reading, Parsers

LEMMA LongerReads ==
  ASSUME NEW p \in Reading, NEW c \in Letters
  PROVE  /\ [p EXCEPT !.value = Append(@, c)] \in Reading
         /\ Append(p.value, c) \in Words
<1>1. p.value \in Seq(Letters)
  BY DEF Reading, Parsers
<1>2. Append(p.value, c) \in Seq(Letters) /\ Append(p.value, c) # <<>>
  BY <1>1, AppendProperties
<1> QED
  BY <1>2 DEF Reading, Parsers, Words

LEMMA ParseTokenReads ==
  ASSUME NEW p \in Reading, NEW c \in Letters PROVE ParseToken(p, c) \in Reading
<1>1. Returned(p) \in Reading
  BY ReturnedReads
<1>2. p.lex \in {"initial", "normal", "quote", "comment"}
  BY DEF Reading, Parsers
<1>3. CASE p.error
  BY <1>3 DEF ParseToken
<1>4. CASE ~p.error /\ p.lex = "initial"
  BY <1>4, InitialReads DEF ParseToken
<1>5. CASE ~p.error /\ p.lex = "quote"
  BY <1>1, <1>5, LongerReads, WordReads DEF ParseToken, Quote
<1>6. CASE ~p.error /\ p.lex = "comment"
  BY <1>1, <1>6 DEF ParseToken, Comment
<1>7. CASE ~p.error /\ p.lex = "normal"
  <2>1. p.value \in Words
    BY <1>7 DEF Reading, Parsers, Words
  <2>2. Word(Returned(p), p.value) \in Reading
    BY <1>1, <2>1, WordReads
  <2> QED BY <1>7, <2>2, InitialReads, LongerReads DEF ParseToken, Normal
<1> QED
  BY <1>2, <1>3, <1>4, <1>5, <1>6, <1>7

\* Parse keeps this.
LEMMA ParseReads ==
  ASSUME NEW p \in Reading, NEW text \in Seq(STRING)
  PROVE  Parse(p, text) \in Reading
<1> DEFINE F == [x \in Reading \X Letters |-> ParseToken(x[1], x[2])]
           D == Reading
           C == Letters
           Eq(g) == g = [t \in SUBSET DOMAIN text |->
                           IF t = {} THEN p
                           ELSE ParseToken(g[t \ {Max(t)}], text[Max(t)])]
<1>1. F \in [D \X C -> D] /\ p \in D
  BY ParseTokenReads
<1>2. \A q \in D, c \in C : F[<<q, c>>] = ParseToken(q, c)
  OBVIOUS
<1>3. text \in Seq(C)
  <2>1. STRING \subseteq C
    BY DEF Letters
  <2> HIDE DEF C
  <2> QED BY <2>1, SeqMonotonic, Zenon
<1> HIDE DEF D, C, F
<1>4. PICK g0 \in [SUBSET DOMAIN text -> D] : Table(g0, D, C, F, p, text)
  BY <1>1, <1>3, FoldExists
<1>5. Eq(g0)
  BY <1>2, <1>3, <1>4, MaxElement DEF Table
<1>6. Parse(p, text) = (CHOOSE g : Eq(g))[DOMAIN text]
  BY DEF FoldLeft, MapThenFoldSet, Parse
<1> DEFINE g == CHOOSE g : Eq(g)
<1>7. Eq(g)
  BY <1>5
<1> HIDE DEF g
<1>8. Table(g, D, C, F, p, text)
  <2>1. g[{}] = p
    BY <1>7
  <2> SUFFICES ASSUME NEW t \in SUBSET DOMAIN text, t # {}, g[t \ {Max(t)}] \in D
               PROVE  g[t] = F[<<g[t \ {Max(t)}], text[Max(t)]>>]
    BY <1>1, <1>3, <2>1 DEF Table
  <2>2. text[Max(t)] \in C
    BY <1>3, MaxElement
  <2> QED BY <1>2, <1>7, <2>2
<1>9. g[DOMAIN text] = Folded(F, p, text)
  BY <1>8, FoldValue
<1>10. Folded(F, p, text) \in D
  BY <1>1, <1>3, FoldedType
<1> QED
  BY <1>6, <1>9, <1>10 DEF g, D

-----------------------------------------------------------------------------
(***************************************************************************)
(* ToString prints the statements block by block.  A block has a larger    *)
(* number than the one around it, so what the blocks inside print is known *)
(* before: Printed has one value, and the statements fill in the same.     *)
(***************************************************************************)
\* What ToString makes of the statements of block b, when the blocks inside
\* print as in h.
PartStep(h, b, x) == IF x[2].block = b THEN x[1] \o Written(x[2], h) ELSE x[1]

Part(s, h, b) == Folded([x \in Texts \X Statements |-> PartStep(h, b, x)], <<>>, s)

\* The statement that has a block comes before those in it.
Ordered(s) ==
  \A i, j \in 1..Len(s) : s[i].child # NoBlock =>
    s[i].block # s[i].child /\ (s[j].block = s[i].child => i < j)

LEMMA PartStepType ==
  ASSUME NEW h \in Bases, NEW b
  PROVE  [x \in Texts \X Statements |-> PartStep(h, b, x)] \in [Texts \X Statements -> Texts]
<1> SUFFICES ASSUME NEW x \in Texts \X Statements PROVE PartStep(h, b, x) \in Texts
  OBVIOUS
<1>1. x[1] \in Texts /\ Written(x[2], h) \in Texts
  BY WrittenType
<1>2. x[1] \o Written(x[2], h) \in Texts
  BY <1>1, TwoTexts
<1> QED
  BY <1>1, <1>2 DEF PartStep

LEMMA PartType ==
  ASSUME NEW h \in Bases, NEW b, NEW s \in Seq(Statements)
  PROVE  Part(s, h, b) \in Texts
<1>1. <<>> \in Texts
  BY TextAlgebra
<1> QED
  BY <1>1, PartStepType, FoldedType DEF Part

LEMMA PartAppend ==
  ASSUME NEW h \in Bases, NEW b, NEW s \in Seq(Statements), NEW e \in Statements
  PROVE  Part(Append(s, e), h, b) =
           IF e.block = b THEN Part(s, h, b) \o Written(e, h) ELSE Part(s, h, b)
<1> DEFINE F == [x \in Texts \X Statements |-> PartStep(h, b, x)]
           o == Part(s, h, b)
<1>1. Part(Append(s, e), h, b) = F[<<o, e>>]
  <2> HIDE DEF F
  <2>1. Folded(F, <<>>, Append(s, e)) = F[<<Folded(F, <<>>, s), e>>]
    BY FoldedAppend
  <2> QED BY <2>1 DEF Part, F
<1>2. o \in Texts
  BY PartType
<1> HIDE DEF o
<1>3. F[<<o, e>>] = PartStep(h, b, <<o, e>>)
  BY <1>2
<1> QED
  BY <1>1, <1>3 DEF o, PartStep

LEMMA PartNone ==
  ASSUME NEW h \in Bases, NEW b, NEW s \in Seq(Statements),
         \A i \in 1..Len(s) : s[i].block # b
  PROVE  Part(s, h, b) = <<>>
<1> DEFINE S == {e \in Statements : e.block # b}
           P == {t \in Seq(S) : Part(t, h, b) = <<>>}
<1>1. <<>> \in P
  <2>1. <<>> \in Seq(S)
    OBVIOUS
  <2> QED BY <2>1, FoldedEmpty DEF Part
<1>2. \A t \in Seq(S), e \in S : t \in P => Append(t, e) \in P
  <2> SUFFICES ASSUME NEW t \in Seq(S), NEW e \in S, Part(t, h, b) = <<>>
               PROVE  Append(t, e) \in Seq(S) /\ Part(Append(t, e), h, b) = <<>>
    OBVIOUS
  <2>1. Append(t, e) \in Seq(S)
    OBVIOUS
  <2>2. t \in Seq(Statements) /\ e \in Statements /\ e.block # b
    <3>1. S \subseteq Statements
      OBVIOUS
    <3>2. e \in Statements /\ e.block # b
      OBVIOUS
    <3>3. t \in Seq(Statements)
      <4> HIDE DEF S
      <4> QED BY <3>1, SeqMonotonic, Zenon
    <3> QED BY <3>2, <3>3
  <2> QED BY <2>1, <2>2, PartAppend
<1>3. s \in Seq(S)
  <2>1. \A i \in 1..Len(s) : s[i] \in S
    OBVIOUS
  <2> HIDE DEF S
  <2> QED BY <2>1
<1> HIDE DEF P
<1>4. s \in P
  BY <1>1, <1>2, <1>3, AppendInduction
<1> QED
  BY <1>4 DEF P

\* What one statement more leaves of the order.
LEMMA OrderedFront ==
  ASSUME NEW s \in Seq(Statements), NEW e \in Statements, Ordered(Append(s, e))
  PROVE  /\ Ordered(s)
         /\ e.child # NoBlock => e.block # e.child /\ \A i \in 1..Len(s) : s[i].block # e.child
<1> DEFINE u == Append(s, e)
           n == Len(s)
<1>1. /\ n \in Nat /\ Len(u) = n + 1 /\ u[n + 1] = e /\ \A i \in 1..n : u[i] = s[i]
      /\ \A i \in 1..n : i \in 1..(n + 1) /\ ~(n + 1 < i)
      /\ n + 1 \in 1..(n + 1)
  OBVIOUS
<1> HIDE DEF u, n
<1> QED
  BY <1>1 DEF Ordered, u, n

Parts(s) ==
  \A base \in Bases : \A b \in Nat :
    Filled(s)[base][b] = Part(s, Filled(s)[base], b) \o base[b]

\* Each block prints as its statements do.
LEMMA FilledParts ==
  ASSUME NEW s \in Seq(Statements), Ordered(s)
  PROVE  Parts(s)
<1> DEFINE P == {t \in Seq(Statements) : Ordered(t) => Parts(t)}
<1>1. <<>> \in P
  <2>1. ASSUME NEW base \in Bases, NEW b \in Nat
        PROVE  Filled(<<>>)[base][b] = Part(<<>>, Filled(<<>>)[base], b) \o base[b]
    <3>1. Filled(<<>>)[base] = base /\ Part(<<>>, base, b) = <<>>
      BY FilledEmpty, FoldedEmpty DEF Part
    <3>2. base[b] \in Texts
      BY DEF Bases
    <3> QED BY <3>1, <3>2, TextAlgebra
  <2>2. Parts(<<>>)
    BY <2>1 DEF Parts
  <2>3. <<>> \in Seq(Statements)
    OBVIOUS
  <2> QED BY <2>2, <2>3
<1>2. \A t \in Seq(Statements), e \in Statements : t \in P => Append(t, e) \in P
  <2> SUFFICES ASSUME NEW t \in Seq(Statements), NEW e \in Statements, Ordered(t) => Parts(t),
                      Ordered(Append(t, e))
               PROVE  Parts(Append(t, e))
    OBVIOUS
  <2> SUFFICES ASSUME NEW base \in Bases, NEW b \in Nat
               PROVE  Filled(Append(t, e))[base][b] =
                        Part(Append(t, e), Filled(Append(t, e))[base], b) \o base[b]
    BY DEF Parts
  <2>1. Ordered(t) /\ Parts(t)
    BY OrderedFront
  <2> DEFINE into == Into(base, e)
             h == Filled(t)[into]
  <2>2. /\ into \in Bases /\ into[e.block] = Written(e, base) \o base[e.block]
        /\ \A c \in Nat : c # e.block => into[c] = base[c]
    BY IntoType
  <2>3. Filled(Append(t, e))[base] = h /\ h \in Bases
    BY <2>2, FilledAppend, FilledType
  <2>4. \A c \in Nat : h[c] = Part(t, h, c) \o into[c]
    BY <2>1, <2>2 DEF Parts
  <2> HIDE DEF into, h
  <2>5. Part(Append(t, e), h, b) =
           IF e.block = b THEN Part(t, h, b) \o Written(e, h) ELSE Part(t, h, b)
    BY <2>3, PartAppend
  <2>6. CASE b # e.block
    BY <2>2, <2>3, <2>4, <2>5, <2>6
  <2>7. CASE b = e.block
    <3>1. Written(e, h) = Written(e, base)
      <4>1. CASE e.child = NoBlock
        BY <4>1 DEF Written
      <4>2. CASE e.child # NoBlock
        <5>1. e.child \in Nat /\ e.child # e.block /\ \A i \in 1..Len(t) : t[i].block # e.child
          BY <4>2, OrderedFront DEF Statements
        <5>2. Part(t, h, e.child) = <<>>
          BY <2>3, <5>1, PartNone
        <5>3. base[e.child] \in Texts
          BY <5>1 DEF Bases
        <5>4. h[e.child] = base[e.child]
          <6>1. h[e.child] = <<>> \o base[e.child]
            BY <2>2, <2>4, <5>1, <5>2
          <6> QED BY <5>3, <6>1, TextAlgebra
        <5> QED BY <5>4 DEF Written
      <4> QED BY <4>1, <4>2
    <3>2. Part(t, h, b) \in Texts /\ Written(e, base) \in Texts /\ base[b] \in Texts
      BY <2>3, PartType, WrittenType DEF Bases
    <3>3. Associate(Part(t, h, b), Written(e, base), base[b])
      BY <3>2, ThreeTexts
    <3> QED BY <2>2, <2>3, <2>4, <2>5, <2>7, <3>1, <3>3 DEF Associate
  <2> QED BY <2>6, <2>7
<1>3. s \in P
  <2> HIDE DEF P
  <2> QED BY <1>1, <1>2, AppendInduction
<1> QED
  BY <1>3

-----------------------------------------------------------------------------
\* What ToString makes of block b, when the blocks inside print as in f.
PrintedBlock(s, f, b) ==
  FoldLeft(LAMBDA text, e : IF e.block = b THEN text \o Written(e, f) ELSE text, <<>>, s)

LEMMA PrintedIsPart ==
  ASSUME NEW s \in Seq(Statements), NEW h \in Bases, NEW f, NEW b,
         \A i \in 1..Len(s) : s[i].block = b /\ s[i].child # NoBlock
           => f[s[i].child] = h[s[i].child]
  PROVE  PrintedBlock(s, f, b) = Part(s, h, b)
<1> DEFINE F == [x \in Texts \X Statements |-> PartStep(h, b, x)]
           op(text, e) == IF e.block = b THEN text \o Written(e, f) ELSE text
           Eq(g) == g = [t \in SUBSET DOMAIN s |->
                           IF t = {} THEN <<>> ELSE op(g[t \ {Max(t)}], s[Max(t)])]
<1>1. F \in [Texts \X Statements -> Texts] /\ <<>> \in Texts
  BY PartStepType, TextAlgebra
<1>2. \A d \in Texts : \A i \in DOMAIN s : op(d, s[i]) = F[<<d, s[i]>>]
  <2> SUFFICES ASSUME NEW d \in Texts, NEW i \in DOMAIN s PROVE op(d, s[i]) = F[<<d, s[i]>>]
    OBVIOUS
  <2>1. s[i] \in Statements /\ i \in 1..Len(s)
    OBVIOUS
  <2>2. F[<<d, s[i]>>] = PartStep(h, b, <<d, s[i]>>)
    BY <2>1
  <2>3. s[i].block = b => Written(s[i], f) = Written(s[i], h)
    BY <2>1 DEF Written
  <2> QED BY <2>2, <2>3 DEF PartStep
<1> HIDE DEF F
<1>m. \A t \in SUBSET DOMAIN s : t # {} => Max(t) \in DOMAIN s
  <2>1. Len(s) \in Nat /\ DOMAIN s = 1..Len(s)
    OBVIOUS
  <2> QED BY <2>1, MaxIsLargest
<1>4. PICK g0 \in [SUBSET DOMAIN s -> Texts] : Table(g0, Texts, Statements, F, <<>>, s)
  BY <1>1, FoldExists
<1> HIDE DEF op
<1>5. Eq(g0)
  <2>1. g0[{}] = <<>>
    BY <1>4 DEF Table
  <2>2. ASSUME NEW t \in SUBSET DOMAIN s, t # {}
        PROVE  g0[t] = op(g0[t \ {Max(t)}], s[Max(t)])
    <3>1. g0[t \ {Max(t)}] \in Texts
      BY <1>4
    <3> QED BY <1>m, <1>2, <1>4, <2>2, <3>1 DEF Table
  <2> QED BY <1>4, <2>1, <2>2
<1>6. PrintedBlock(s, f, b) = (CHOOSE g : Eq(g))[DOMAIN s]
  BY DEF FoldLeft, MapThenFoldSet, PrintedBlock, op
<1> DEFINE g == CHOOSE g : Eq(g)
<1>7. Eq(g)
  BY <1>5
<1> HIDE DEF g
<1>8. Table(g, Texts, Statements, F, <<>>, s)
  <2>1. g[{}] = <<>>
    BY <1>7
  <2> SUFFICES ASSUME NEW t \in SUBSET DOMAIN s, t # {}, g[t \ {Max(t)}] \in Texts
               PROVE  g[t] = F[<<g[t \ {Max(t)}], s[Max(t)]>>]
    BY <1>1, <2>1 DEF Table
  <2> QED BY <1>m, <1>2, <1>7
<1>9. g[DOMAIN s] = Folded(F, <<>>, s)
  BY <1>8, FoldValue
<1> QED
  BY <1>6, <1>9 DEF g, F, Part

\* What ToString prints is what the statements print.
LEMMA SerializedIsFilled ==
  ASSUME NEW p, p.statements \in Seq(Statements), Ascending(p.stack, p.blocks),
         Tree(p.statements, p.stack, p.blocks)
  PROVE  Serialized(p) = Filled(p.statements)[[b \in Nat |-> <<>>]][TopBlock]
<1> DEFINE s == p.statements
           n == p.blocks
           base == [b \in Nat |-> <<>>]
           h == Filled(s)[base]
           Eq(f) == f = [b \in TopBlock..n |-> PrintedBlock(s, f, b)]
<1>1. n \in Nat /\ n >= 1 /\ TopBlock = 1
  BY DEF Ascending, TopBlock
<1>2. base \in Bases /\ \A b \in Nat : base[b] = <<>>
  BY TextAlgebra DEF Bases
<1>3. \A i \in 1..Len(s) :
        s[i].child # NoBlock => s[i].child \in 2..n /\ s[i].block < s[i].child
  BY DEF Tree
<1>4. Ordered(s)
  <2>1. \A i \in 1..Len(s) : s[i].block \in 1..n
    BY DEF Tree
  <2>2. \A i \in 1..Len(s) : s[i].child # NoBlock => s[i].block # s[i].child
    BY <1>1, <1>3, <2>1
  <2>3. \A i, j \in 1..Len(s) : s[i].child # NoBlock /\ s[j].block = s[i].child => i < j
    BY DEF Tree
  <2> HIDE DEF s
  <2> QED BY <2>2, <2>3 DEF Ordered
<1>5. s \in Seq(Statements)
  OBVIOUS
<1> HIDE DEF base, s, n
<1>6. h \in Bases
  BY <1>2, <1>5, FilledType
<1>7. \A b \in Nat : h[b] = Part(s, h, b)
  <2> SUFFICES ASSUME NEW b \in Nat PROVE h[b] = Part(s, h, b)
    OBVIOUS
  <2>1. Parts(s)
    BY <1>4, <1>5, FilledParts
  <2>2. h[b] = Part(s, h, b) \o base[b]
    BY <1>2, <2>1 DEF Parts
  <2>3. Part(s, h, b) \in Texts
    BY <1>5, <1>6, PartType
  <2> QED BY <1>2, <2>2, <2>3, TextAlgebra
<1> HIDE DEF h
<1> DEFINE f0 == [b \in TopBlock..n |-> h[b]]
<1>8. Eq(f0)
  <2> SUFFICES ASSUME NEW b \in TopBlock..n PROVE h[b] = PrintedBlock(s, f0, b)
    OBVIOUS
  <2>1. \A i \in 1..Len(s) : s[i].block = b /\ s[i].child # NoBlock
           => f0[s[i].child] = h[s[i].child]
    <3>1. \A c \in 2..n : c \in TopBlock..n
      BY <1>1
    <3> QED BY <1>3, <3>1
  <2>2. b \in Nat
    BY <1>1
  <2> HIDE DEF f0
  <2>3. PrintedBlock(s, f0, b) = Part(s, h, b)
    BY <1>5, <1>6, <2>1, PrintedIsPart
  <2> QED BY <1>7, <2>2, <2>3
<1> DEFINE f == CHOOSE f : Eq(f)
<1>9. Eq(f)
  <2> HIDE DEF f0
  <2> QED BY <1>8
<1>10. Serialized(p) = f[TopBlock]
  BY DEF Serialized, PrintedBlock, s, n
<1> HIDE DEF f, f0
<1>11. \A b \in TopBlock..n : f[b] = PrintedBlock(s, f, b)
  BY <1>9
<1> DEFINE P == {k \in 0..n : \A b \in (n - k + 1)..n : f[b] = h[b]}
<1>12. 0 \in P
  BY <1>1
<1>13. ASSUME NEW k \in 0..(n - 1), k \in P PROVE k + 1 \in P
  <2> DEFINE b == n - k
  <2>1. /\ b \in Nat /\ b \in TopBlock..n /\ \A c \in 2..n : b < c => c \in (n - k + 1)..n
    BY <1>1
  <2>2. \A i \in 1..Len(s) : s[i].block = b /\ s[i].child # NoBlock
           => f[s[i].child] = h[s[i].child]
    BY <1>3, <1>13, <2>1
  <2> HIDE DEF b
  <2>3. f[b] = h[b]
    BY <1>5, <1>6, <1>7, <1>11, <2>1, <2>2, PrintedIsPart
  <2>4. \A c \in (n - (k + 1) + 1)..n : c = b \/ c \in (n - k + 1)..n
    BY <1>1 DEF b
  <2>5. \A c \in (n - (k + 1) + 1)..n : f[c] = h[c]
    BY <1>13, <2>3, <2>4
  <2> QED BY <1>1, <2>5
<1>14. n \in P
  <2> HIDE DEF P
  <2>1. \A k \in 0..n : k \in P
    BY <1>1, <1>12, <1>13, UptoInduction
  <2> QED BY <1>1, <2>1
<1>15. TopBlock \in (n - n + 1)..n
  BY <1>1
<1> QED
  BY <1>10, <1>14, <1>15 DEF h, s, base

\* The end of the file.
LEMMA AcceptedPrintsBack ==
  ASSUME NEW p \in Reading, Accepts(p)
  PROVE  Serialized(p) = p.tokens
<1>1. /\ p.statements \in Seq(Statements) /\ Ascending(p.stack, p.blocks)
      /\ Tree(p.statements, p.stack, p.blocks) /\ p.tokens \in Texts
      /\ PrintsSoFar(p.last, p.stack, p.blocks, p.statements, p.tokens)
  BY DEF Reading, Core
<1>2. p.last # "normal" /\ Len(p.stack) = 1
  BY DEF Accepts
<1>3. p.stack = <<TopBlock>>
  BY <1>1, <1>2, AscendingTop
<1>4. Prints(p.statements, p.tokens, <<TopBlock>>, p.blocks)
  BY <1>1, <1>2, <1>3 DEF PrintsSoFar
<1> QED
  BY <1>1, <1>4, PrintsAll, SerializedIsFilled

-----------------------------------------------------------------------------
(***************************************************************************)
(* handle_statements goes through the statements that count: the blocks it *)
(* has entered are nested, what is left in each is what comes after the    *)
(* last statement it took, and whatever else counts is in a block it will  *)
(* enter later.                                                            *)
(***************************************************************************)
\* The statements of the blocks that count, which handle_statements looks at.
Counted(p) == {x \in DOMAIN p.statements : p.statements[x].block \in ServerBlocks(p)}

Done(p, n) == {x \in Counted(p) : x <= n}

\* Statement x has block b, and handle_statements goes into it.
Opens(p, x, b) ==
  /\ p.statements[x].tokens[1] = <<"server">>
  /\ p.statements[x].child # NoBlock /\ p.statements[x].child = b

\* n is the last statement handled, entered the blocks of the calls in progress.
Progress(p, t, n, entered) ==
  /\ n \in 0..Len(p.statements) /\ entered \in Seq(Nat) /\ entered # <<>>
  /\ t \in Seq(SUBSET Nat) /\ Len(t) = Len(entered)
  /\ \A l \in 1..Len(entered) : entered[l] \in ServerBlocks(p)
  /\ \A l, m \in 1..Len(entered) : l < m => entered[l] < entered[m]
  /\ \A l \in 2..Len(entered) : \E i \in DOMAIN p.statements :
       i <= n /\ p.statements[i].child # NoBlock /\ p.statements[i].child = entered[l]
  /\ \A l \in 1..Len(entered) : t[l] = {x \in Block(p, entered[l]) : x > n}
  /\ \A x \in Counted(p) : x > n =>
       \/ \E l \in 1..Len(entered) : entered[l] = p.statements[x].block
       \/ \E y \in Counted(p) : y > n /\ Opens(p, y, p.statements[x].block)

-----------------------------------------------------------------------------
LEMMA ReadStatements ==
  ASSUME NEW p \in Reading
  PROVE  /\ Len(p.statements) \in Nat /\ DOMAIN p.statements = 1..Len(p.statements)
         /\ p.blocks \in Nat /\ TopBlock \in 1..p.blocks
         /\ \A x \in DOMAIN p.statements :
              /\ p.statements[x].block \in 1..p.blocks /\ p.statements[x].block \in Nat
              /\ p.statements[x].tokens \in Texts \ {<<>>}
              /\ p.statements[x].child \in {NoBlock} \cup 2..p.blocks
              /\ p.statements[x].child \in Nat
              /\ p.statements[x].child # NoBlock
                   => p.statements[x].child \in 1..p.blocks
                      /\ p.statements[x].block < p.statements[x].child
         /\ \A x, y \in DOMAIN p.statements :
              p.statements[x].child # NoBlock /\ p.statements[y].block = p.statements[x].child
                => x < y
         /\ \A i, x, y \in DOMAIN p.statements :
              /\ p.statements[i].child # NoBlock
              /\ p.statements[y].block = p.statements[i].child
              /\ i < x /\ p.statements[x].block < p.statements[i].child
              => y < x
<1>1. /\ p.statements \in Seq(Statements) /\ Ascending(p.stack, p.blocks)
      /\ Tree(p.statements, p.stack, p.blocks)
  BY DEF Reading, Core
<1>2. Len(p.statements) \in Nat /\ DOMAIN p.statements = 1..Len(p.statements)
  BY <1>1
<1>3. p.blocks \in Nat /\ TopBlock \in 1..p.blocks
  <2>1. p.stack # <<>> /\ p.stack \in Seq(Nat)
    BY <1>1 DEF Ascending
  <2>2. 1 \in 1..Len(p.stack)
    BY <2>1
  <2> QED BY <1>1, <2>2 DEF Ascending
<1>4. \A x \in 1..Len(p.statements) : p.statements[x] \in Statements
  BY <1>1
<1>5. \A c \in 2..p.blocks : c \in 1..p.blocks
  BY <1>3
<1>6. ASSUME NEW x \in DOMAIN p.statements
      PROVE  /\ p.statements[x].block \in 1..p.blocks /\ p.statements[x].block \in Nat
             /\ p.statements[x].tokens \in Texts \ {<<>>}
             /\ p.statements[x].child \in {NoBlock} \cup 2..p.blocks
             /\ p.statements[x].child \in Nat
             /\ p.statements[x].child # NoBlock
                  => p.statements[x].child \in 1..p.blocks
                     /\ p.statements[x].block < p.statements[x].child
  BY <1>1, <1>2, <1>4, <1>5 DEF Tree, Statements
<1> QED
  BY <1>1, <1>2, <1>3, <1>6 DEF Tree

LEMMA ServerBlocksClosed ==
  ASSUME NEW p \in Reading
  PROVE  /\ TopBlock \in ServerBlocks(p)
         /\ \A b \in ServerBlocks(p) : b \in Nat
         /\ \A x \in Counted(p) : \A b : Opens(p, x, b) => b \in ServerBlocks(p)
<1>1. TopBlock \in 1..p.blocks /\ p.blocks \in Nat
  BY ReadStatements
<1>2. ASSUME NEW x \in Counted(p), NEW b, Opens(p, x, b) PROVE b \in ServerBlocks(p)
  <2> DEFINE e == p.statements[x]
  <2>1. /\ x \in DOMAIN p.statements /\ e.block \in ServerBlocks(p)
        /\ e.tokens[1] = <<"server">> /\ e.child # NoBlock /\ e.child = b
    BY <1>2 DEF Counted, Opens
  <2>2. b \in 1..p.blocks
    BY <2>1, ReadStatements
  <2>3. e \in Range(p.statements)
    BY <2>1 DEF Range
  <2> HIDE DEF e
  <2> QED BY <2>1, <2>2, <2>3 DEF ServerBlocks
<1> QED
  BY <1>1, <1>2 DEF ServerBlocks

LEMMA ServerBlocksLeast ==
  ASSUME NEW p \in Reading, NEW b \in ServerBlocks(p), b # TopBlock
  PROVE  \E y \in Counted(p) : Opens(p, y, b)
<1> SUFFICES ASSUME \A y \in Counted(p) : ~Opens(p, y, b) PROVE FALSE
  OBVIOUS
<1> DEFINE S == ServerBlocks(p) \ {b}
<1>1. S \in SUBSET (1..p.blocks) /\ TopBlock \in S
  BY ServerBlocksClosed DEF ServerBlocks
<1>2. ASSUME NEW s \in Range(p.statements), s.block \in S, s.tokens[1] = <<"server">>,
             s.child # NoBlock
      PROVE  s.child \in S
  <2>1. PICK x \in DOMAIN p.statements : s = p.statements[x]
    BY DEF Range
  <2>2. x \in Counted(p) /\ Opens(p, x, s.child)
    BY <1>2, <2>1 DEF Counted, Opens
  <2>3. s.child \in ServerBlocks(p)
    BY <2>2, ServerBlocksClosed
  <2> QED BY <2>2, <2>3
<1> HIDE DEF S
<1>3. b \in S
  BY <1>1, <1>2 DEF ServerBlocks
<1> QED
  BY <1>3 DEF S

LEMMA ProgressStart ==
  ASSUME NEW p \in Reading
  PROVE  Progress(p, <<Block(p, TopBlock)>>, 0, <<TopBlock>>)
<1> DEFINE e == <<TopBlock>>
           t == <<Block(p, TopBlock)>>
<1>1. /\ e \in Seq(Nat) /\ e # <<>> /\ Len(e) = 1 /\ Len(t) = 1 /\ e[1] = TopBlock
      /\ t[1] = Block(p, TopBlock)
  BY DEF TopBlock
<1>2. /\ Len(p.statements) \in Nat /\ DOMAIN p.statements = 1..Len(p.statements)
  BY ReadStatements
<1>3. Block(p, TopBlock) \in SUBSET Nat /\ \A x \in Block(p, TopBlock) : x > 0
  BY <1>2 DEF Block
<1>4. t \in Seq(SUBSET Nat)
  BY <1>3
<1> HIDE DEF e, t
<1>5. \A l \in 1..Len(e) : l = 1
  BY <1>1
<1>6. ASSUME NEW x \in Counted(p)
      PROVE  \/ \E l \in 1..Len(e) : e[l] = p.statements[x].block
             \/ \E y \in Counted(p) : y > 0 /\ Opens(p, y, p.statements[x].block)
  <2>1. CASE p.statements[x].block = TopBlock
    BY <1>1, <2>1
  <2>2. CASE p.statements[x].block # TopBlock
    <3>1. p.statements[x].block \in ServerBlocks(p)
      BY DEF Counted
    <3>2. PICK y \in Counted(p) : Opens(p, y, p.statements[x].block)
      BY <2>2, <3>1, ServerBlocksLeast
    <3>3. y > 0
      BY <1>2, <3>2 DEF Counted
    <3> QED BY <3>2, <3>3
  <2> QED BY <2>1, <2>2
<1>7. \A l \in 1..Len(e) : e[l] \in ServerBlocks(p)
  BY <1>1, <1>5, ServerBlocksClosed
<1>8. \A l \in 1..Len(e) : t[l] = {x \in Block(p, e[l]) : x > 0}
  BY <1>1, <1>3, <1>5
<1>9. /\ \A l, m \in 1..Len(e) : l < m => e[l] < e[m]
      /\ \A l \in 2..Len(e) : FALSE
  BY <1>1, <1>5
<1>10. 0 \in 0..Len(p.statements) /\ Len(t) = Len(e)
  BY <1>1, <1>2
<1> QED
  BY <1>1, <1>4, <1>6, <1>7, <1>8, <1>9, <1>10 DEF Progress, e, t

LEMMA ProgressLevels ==
  ASSUME NEW p \in Reading, NEW t, NEW n, NEW e, Progress(p, t, n, e)
  PROVE  /\ Len(t) \in Nat /\ Len(t) >= 1 /\ Len(e) = Len(t) /\ n \in Nat
         /\ t \in Seq(SUBSET Nat) /\ e \in Seq(Nat) /\ t # <<>> /\ e # <<>>
         /\ Last(t) = t[Len(t)] /\ Last(e) = e[Len(t)]
         /\ \A l \in 1..Len(t) : \A x :
              x \in t[l] <=> x \in DOMAIN p.statements /\ p.statements[x].block = e[l] /\ x > n
<1>1. /\ n \in 0..Len(p.statements) /\ e \in Seq(Nat) /\ e # <<>> /\ t \in Seq(SUBSET Nat)
      /\ Len(t) = Len(e) /\ \A l \in 1..Len(e) : t[l] = {x \in Block(p, e[l]) : x > n}
  BY DEF Progress
<1>2. Len(e) \in Nat /\ Len(e) >= 1 /\ Last(e) = e[Len(e)]
  BY <1>1 DEF Last
<1>3. t # <<>> /\ Last(t) = t[Len(t)]
  BY <1>1, <1>2 DEF Last
<1>4. n \in Nat
  BY <1>1
<1> QED
  BY <1>1, <1>2, <1>3, <1>4 DEF Block

\* The first statement that counts and is not handled is in a call in progress.
LEMMA FirstLeft ==
  ASSUME NEW p \in Reading, NEW t, NEW n, NEW e, Progress(p, t, n, e),
         NEW x \in Counted(p), x > n
  PROVE  \E m \in Counted(p) : m <= x /\ \E l \in 1..Len(t) : m \in t[l]
<1> DEFINE X == {y \in Counted(p) : y > n}
           m == Min(X)
<1>1. DOMAIN p.statements \subseteq Nat
  BY ReadStatements
<1>2. X \in SUBSET Nat /\ x \in X
  BY <1>1 DEF Counted
<1>3. m \in X /\ \A y \in X : m <= y
  <2> HIDE DEF X
  <2> QED BY <1>2, MinIsSmallest
<1>4. \A y \in X : y \in Nat
  BY <1>2
<1> HIDE DEF m
<1>5. m \in Counted(p) /\ m > n /\ m \in DOMAIN p.statements
  BY <1>3 DEF Counted
<1>6. ASSUME NEW y \in Counted(p), y > n, Opens(p, y, p.statements[m].block) PROVE FALSE
  <2>1. y \in DOMAIN p.statements
    BY DEF Counted
  <2>2. y < m
    BY <1>5, <1>6, <2>1, ReadStatements DEF Opens
  <2>3. y \in X /\ m \in Nat /\ y \in Nat
    BY <1>1, <1>5, <1>6, <2>1
  <2>4. m <= y
    BY <1>3, <2>3
  <2> QED BY <2>2, <2>3, <2>4
<1>7. \E l \in 1..Len(e) : e[l] = p.statements[m].block
  BY <1>5, <1>6 DEF Progress
<1>8. \E l \in 1..Len(t) : m \in t[l]
  BY <1>5, <1>7, ProgressLevels
<1>9. m <= x
  BY <1>2, <1>3
<1> QED
  BY <1>5, <1>8, <1>9

\* What is left inside comes before what is left outside.
LEMMA InnerFirst ==
  ASSUME NEW p \in Reading, NEW t, NEW n, NEW e, Progress(p, t, n, e),
         NEW y \in Last(t), NEW l \in 1..Len(t), l # Len(t), NEW x \in t[l]
  PROVE  y < x
<1> DEFINE k == Len(t)
<1>1. /\ k \in Nat /\ Last(t) = t[k] /\ Len(e) = k /\ n \in Nat
      /\ y \in DOMAIN p.statements /\ p.statements[y].block = e[k] /\ y > n
      /\ x \in DOMAIN p.statements /\ p.statements[x].block = e[l] /\ x > n
  <2>1. k \in 1..k /\ Last(t) = t[k] /\ k \in Nat /\ Len(e) = k /\ n \in Nat
    BY ProgressLevels
  <2>2. \A m \in 1..k : \A z :
          z \in t[m] <=> z \in DOMAIN p.statements /\ p.statements[z].block = e[m] /\ z > n
    BY ProgressLevels
  <2> HIDE DEF k
  <2> QED BY <2>1, <2>2 DEF k
<1> HIDE DEF k
<1>2. k \in 2..k /\ k \in 1..k /\ l < k
  BY <1>1 DEF k
<1>3. e[l] < e[k]
  BY <1>1, <1>2 DEF Progress, k
<1>4. PICK i \in DOMAIN p.statements :
        i <= n /\ p.statements[i].child # NoBlock /\ p.statements[i].child = e[k]
  BY <1>1, <1>2 DEF Progress
<1>5. i < x
  <2>1. i \in Nat /\ x \in Nat
    BY <1>1, ReadStatements
  <2> QED BY <1>1, <1>4, <2>1
<1> QED
  BY <1>1, <1>3, <1>4, <1>5, ReadStatements

\* The next statement is the first one left.
LEMMA NextIsFirst ==
  ASSUME NEW p \in Reading, NEW t, NEW n, NEW e, Progress(p, t, n, e), Last(t) # {}
  PROVE  /\ Min(Last(t)) \in Counted(p) /\ Min(Last(t)) \in Last(t)
         /\ Min(Last(t)) \in DOMAIN p.statements
         /\ Min(Last(t)) > n /\ p.statements[Min(Last(t))].block = Last(e)
         /\ \A l \in 1..Len(t) : \A x \in t[l] : Min(Last(t)) <= x
         /\ \A x \in Counted(p) : x > n => Min(Last(t)) <= x
<1> DEFINE j == Min(Last(t))
           k == Len(t)
<1>1. /\ k \in Nat /\ k \in 1..k /\ Last(t) = t[k] /\ Last(e) = e[k] /\ t \in Seq(SUBSET Nat)
      /\ \A l \in 1..k : \A x :
           x \in t[l] <=> x \in DOMAIN p.statements /\ p.statements[x].block = e[l] /\ x > n
  BY ProgressLevels
<1>2. t[k] \in SUBSET Nat
  BY <1>1
<1>3. j \in Last(t) /\ \A y \in Last(t) : j <= y
  BY <1>1, <1>2, MinIsSmallest
<1> HIDE DEF j, k
<1>4. j \in DOMAIN p.statements /\ p.statements[j].block = Last(e) /\ j > n
  BY <1>1, <1>3
<1>5. Last(e) \in ServerBlocks(p)
  BY <1>1 DEF Progress, k
<1>6. j \in Counted(p)
  BY <1>4, <1>5 DEF Counted
<1>7. \A l \in 1..k : \A x \in t[l] : j <= x
  <2> SUFFICES ASSUME NEW l \in 1..k, NEW x \in t[l] PROVE j <= x
    OBVIOUS
  <2>1. CASE l = k
    BY <1>1, <1>3, <2>1
  <2>2. CASE l # k
    <3>1. j < x
      BY <1>3, <2>2, InnerFirst DEF k
    <3>2. j \in Nat /\ x \in Nat
      BY <1>1, <1>4, ReadStatements
    <3> QED BY <3>1, <3>2
  <2> QED BY <2>1, <2>2
<1>8. ASSUME NEW x \in Counted(p), x > n PROVE j <= x
  <2>1. PICK m \in Counted(p) : m <= x /\ \E l \in 1..k : m \in t[l]
    BY <1>8, FirstLeft DEF k
  <2>2. j <= m
    BY <1>7, <2>1
  <2>3. j \in Nat /\ m \in Nat /\ x \in Nat
    BY <1>4, ReadStatements DEF Counted
  <2> QED BY <2>1, <2>2, <2>3
<1> QED
  BY <1>3, <1>4, <1>6, <1>7, <1>8 DEF j, k

\* What is done with it.
LEMMA DoneNext ==
  ASSUME NEW p \in Reading, NEW t, NEW n, NEW e, Progress(p, t, n, e), Last(t) # {}
  PROVE  /\ Done(p, Min(Last(t))) = Done(p, n) \cup {Min(Last(t))}
         /\ \A x \in Done(p, n) : x < Min(Last(t))
<1> DEFINE j == Min(Last(t))
<1>1. j \in Counted(p) /\ j > n /\ \A x \in Counted(p) : x > n => j <= x
  BY NextIsFirst
<1>2. n \in Nat /\ \A x \in Counted(p) : x \in Nat
  BY ProgressLevels, ReadStatements DEF Counted
<1> HIDE DEF j
<1>3. \A x \in Counted(p) : x <= j <=> x <= n \/ x = j
  BY <1>1, <1>2
<1>4. \A x \in Counted(p) : x <= n => x < j
  BY <1>1, <1>2
<1> QED
  BY <1>1, <1>3, <1>4 DEF Done, j

\* At the end everything is done.
LEMMA DoneAll ==
  ASSUME NEW p \in Reading, NEW t, NEW n, NEW e, Progress(p, t, n, e), Last(t) = {}, Len(t) = 1
  PROVE  Done(p, n) = Counted(p)
<1>1. t[1] = {}
  BY ProgressLevels
<1>2. n \in Nat /\ \A x \in Counted(p) : x \in Nat
  BY ProgressLevels, ReadStatements DEF Counted
<1>3. ASSUME NEW x \in Counted(p), x > n PROVE FALSE
  <2>1. PICK m \in Counted(p) : m <= x /\ \E l \in 1..Len(t) : m \in t[l]
    BY <1>3, FirstLeft
  <2> QED BY <1>1, <2>1
<1> QED
  BY <1>2, <1>3 DEF Done

Without(t) == [t EXCEPT ![Len(t)] = @ \ {Min(@)}]

\* What is left when it is taken.
LEMMA LeftAfter ==
  ASSUME NEW p \in Reading, NEW t, NEW n, NEW e, Progress(p, t, n, e), Last(t) # {}
  PROVE  /\ Without(t) \in Seq(SUBSET Nat) /\ Len(Without(t)) = Len(e)
         /\ \A l \in 1..Len(e) : Without(t)[l] = {x \in Block(p, e[l]) : x > Min(Last(t))}
<1> DEFINE j == Min(Last(t))
           k == Len(t)
           u == Without(t)
<1>1. /\ k \in Nat /\ k \in 1..k /\ Len(e) = k /\ Last(t) = t[k] /\ t \in Seq(SUBSET Nat)
      /\ n \in Nat
      /\ \A l \in 1..k : \A x :
           x \in t[l] <=> x \in DOMAIN p.statements /\ p.statements[x].block = e[l] /\ x > n
  BY ProgressLevels
<1>2. /\ j \in DOMAIN p.statements /\ j > n /\ p.statements[j].block = Last(e) /\ j \in Last(t)
      /\ \A l \in 1..k : \A x \in t[l] : j <= x
  BY NextIsFirst
<1>3. \A x \in DOMAIN p.statements : x \in Nat
  BY ReadStatements
<1>4. u = [t EXCEPT ![k] = t[k] \ {j}]
  BY <1>1 DEF Without
<1> HIDE DEF j, k, u
<1>5. t[k] \in SUBSET Nat /\ DOMAIN t = 1..k /\ Len(t) = k
  BY <1>1 DEF k
<1>6. u \in Seq(SUBSET Nat) /\ Len(u) = k /\ u[k] = t[k] \ {j}
      /\ \A l \in 1..k : l # k => u[l] = t[l]
  <2>1. t[k] \ {j} \in SUBSET Nat
    BY <1>5
  <2> QED BY <1>1, <1>4, <1>5, <2>1
<1>7. ASSUME NEW l \in 1..k PROVE u[l] = {x \in Block(p, e[l]) : x > j}
  <2>1. ASSUME NEW x PROVE x \in u[l] <=> x \in Block(p, e[l]) /\ x > j
    <3>1. CASE x \in t[l]
      <4>1. x \in DOMAIN p.statements /\ p.statements[x].block = e[l] /\ j <= x
        BY <1>1, <1>2, <3>1
      <4>2. x \in Nat /\ j \in Nat
        BY <1>2, <1>3, <4>1
      <4>3. x \in u[l] <=> x # j
        <5>1. CASE l = k
          BY <1>6, <3>1, <5>1
        <5>2. CASE l # k
          <6>1. Min(Last(t)) < x
            BY <1>1, <1>2, <3>1, <5>2, InnerFirst DEF k, j
          <6> QED BY <1>6, <3>1, <4>2, <5>2, <6>1 DEF j
        <5> QED BY <5>1, <5>2
      <4> QED BY <4>1, <4>2, <4>3 DEF Block
    <3>2. CASE x \notin t[l]
      <4>1. x \notin u[l]
        BY <1>6, <3>2
      <4>2. x \in Block(p, e[l]) => ~(x > j)
        <5>1. x \in Block(p, e[l]) => x \in DOMAIN p.statements /\ p.statements[x].block = e[l]
          BY DEF Block
        <5> QED BY <1>1, <1>2, <1>3, <3>2, <5>1
      <4> QED BY <4>1, <4>2
    <3> QED BY <3>1, <3>2
  <2> QED BY <2>1
<1> QED
  BY <1>1, <1>6, <1>7 DEF u, j

\* A statement that is not a server is done.
LEMMA ProgressDone ==
  ASSUME NEW p \in Reading, NEW t, NEW n, NEW e, Progress(p, t, n, e), Last(t) # {},
         p.statements[Min(Last(t))].tokens[1] # <<"server">>
  PROVE  Progress(p, Without(t), Min(Last(t)), e)
<1> DEFINE j == Min(Last(t))
           u == Without(t)
<1>1. /\ u \in Seq(SUBSET Nat) /\ Len(u) = Len(e)
      /\ \A l \in 1..Len(e) : u[l] = {x \in Block(p, e[l]) : x > j}
  BY LeftAfter
<1>2. /\ j \in DOMAIN p.statements /\ j \in Counted(p) /\ j > n
      /\ \A x \in Counted(p) : x > n => j <= x
  BY NextIsFirst
<1>3. n \in Nat /\ \A x \in DOMAIN p.statements : x \in Nat
  BY ProgressLevels, ReadStatements
<1>4. j \in 0..Len(p.statements)
  BY <1>2, ReadStatements
<1>5. p.statements[j].tokens[1] # <<"server">>
  OBVIOUS
<1> HIDE DEF j, u
<1>6. \A l \in 2..Len(e) : \E i \in DOMAIN p.statements :
        i <= j /\ p.statements[i].child # NoBlock /\ p.statements[i].child = e[l]
  <2> SUFFICES ASSUME NEW l \in 2..Len(e)
               PROVE  \E i \in DOMAIN p.statements :
                        i <= j /\ p.statements[i].child # NoBlock /\ p.statements[i].child = e[l]
    OBVIOUS
  <2>1. PICK i \in DOMAIN p.statements :
          i <= n /\ p.statements[i].child # NoBlock /\ p.statements[i].child = e[l]
    BY DEF Progress
  <2>2. i <= j
    BY <1>2, <1>3, <2>1
  <2> QED BY <2>1, <2>2
<1>7. ASSUME NEW x \in Counted(p), x > j
      PROVE  \/ \E l \in 1..Len(e) : e[l] = p.statements[x].block
             \/ \E y \in Counted(p) : y > j /\ Opens(p, y, p.statements[x].block)
  <2>1. \A y \in Counted(p) : y \in Nat
    BY <1>3 DEF Counted
  <2>2. x > n
    BY <1>2, <1>3, <1>7, <2>1
  <2>3. ASSUME NEW y \in Counted(p), y > n, Opens(p, y, p.statements[x].block) PROVE y > j
    <3>1. y # j
      BY <1>5, <2>3 DEF Opens
    <3> QED BY <1>2, <2>1, <2>3, <3>1
  <2> QED BY <2>2, <2>3 DEF Progress
<1>8. /\ e \in Seq(Nat) /\ e # <<>>
      /\ \A l \in 1..Len(e) : e[l] \in ServerBlocks(p)
      /\ \A l, m \in 1..Len(e) : l < m => e[l] < e[m]
  BY DEF Progress
<1> QED
  BY <1>1, <1>4, <1>6, <1>7, <1>8 DEF Progress, j, u

\* The block of a server is entered.
LEMMA ProgressEnter ==
  ASSUME NEW p \in Reading, NEW t, NEW n, NEW e, Progress(p, t, n, e), Last(t) # {},
         NEW b, Opens(p, Min(Last(t)), b)
  PROVE  Progress(p, Append(Without(t), Block(p, b)), Min(Last(t)), Append(e, b))
<1> DEFINE j == Min(Last(t))
           u == Without(t)
           k == Len(e)
           f == Append(e, b)
           v == Append(u, Block(p, b))
<1>1. /\ u \in Seq(SUBSET Nat) /\ Len(u) = k
      /\ \A l \in 1..k : u[l] = {x \in Block(p, e[l]) : x > j}
  BY LeftAfter
<1>2. /\ j \in DOMAIN p.statements /\ j \in Counted(p) /\ j > n
      /\ p.statements[j].block = Last(e)
      /\ \A x \in Counted(p) : x > n => j <= x
  BY NextIsFirst
<1>3. /\ n \in Nat /\ \A x \in DOMAIN p.statements : x \in Nat
      /\ k \in Nat /\ k >= 1 /\ Last(e) = e[k] /\ e \in Seq(Nat)
  BY ProgressLevels, ReadStatements
<1>4. j \in 0..Len(p.statements)
  BY <1>2, ReadStatements
<1>5. Opens(p, j, b)
  OBVIOUS
<1> HIDE DEF j, u, k
<1>6. b \in ServerBlocks(p) /\ b \in Nat
  BY <1>2, <1>5, ServerBlocksClosed
<1>7. Block(p, b) = {x \in Block(p, b) : x > j} /\ Block(p, b) \in SUBSET Nat
  <2>1. \A x \in Block(p, b) : j < x /\ x \in Nat
    <3>1. \A x \in Block(p, b) : x \in DOMAIN p.statements /\ p.statements[x].block = b
      BY DEF Block
    <3> QED BY <1>2, <1>3, <1>5, <3>1, ReadStatements DEF Opens
  <2>2. j \in Nat
    BY <1>2, <1>3
  <2> QED BY <2>1, <2>2
<1>8. /\ f \in Seq(Nat) /\ f # <<>> /\ Len(f) = k + 1 /\ f[k + 1] = b
      /\ \A l \in 1..k : f[l] = e[l]
  BY <1>3, <1>6 DEF k
<1>9. /\ v \in Seq(SUBSET Nat) /\ Len(v) = k + 1 /\ v[k + 1] = Block(p, b)
      /\ \A l \in 1..k : v[l] = u[l]
  BY <1>1, <1>7
<1>10. \A l \in 1..(k + 1) : l \in 1..k \/ l = k + 1
  BY <1>3
<1> HIDE DEF f, v
<1>11. /\ \A l \in 1..k : e[l] \in ServerBlocks(p) /\ e[l] \in Nat
       /\ \A l, m \in 1..k : l < m => e[l] < e[m]
  BY <1>3 DEF Progress, k
<1>12. \A l \in 1..(k + 1) : f[l] \in ServerBlocks(p)
  BY <1>6, <1>8, <1>10, <1>11
<1>13. \A l \in 1..k : e[l] < b
  <2>1. e[k] < b /\ e[k] \in Nat
    BY <1>2, <1>3, <1>5, ReadStatements DEF Opens
  <2> QED BY <1>3, <1>6, <1>11, <2>1
<1>14. \A l, m \in 1..(k + 1) : l < m => f[l] < f[m]
  <2> SUFFICES ASSUME NEW l \in 1..(k + 1), NEW m \in 1..(k + 1), l < m PROVE f[l] < f[m]
    OBVIOUS
  <2>1. l \in 1..k
    BY <1>3
  <2>2. CASE m \in 1..k
    BY <1>8, <1>11, <2>1, <2>2
  <2>3. CASE m = k + 1
    BY <1>8, <1>13, <2>1, <2>3
  <2> QED BY <1>10, <2>2, <2>3
<1>15. \A l \in 2..(k + 1) : \E i \in DOMAIN p.statements :
         i <= j /\ p.statements[i].child # NoBlock /\ p.statements[i].child = f[l]
  <2> SUFFICES ASSUME NEW l \in 2..(k + 1)
               PROVE  \E i \in DOMAIN p.statements :
                        i <= j /\ p.statements[i].child # NoBlock /\ p.statements[i].child = f[l]
    OBVIOUS
  <2>1. CASE l = k + 1
    BY <1>2, <1>3, <1>5, <1>8, <2>1 DEF Opens
  <2>2. CASE l \in 2..k
    <3>1. PICK i \in DOMAIN p.statements :
            i <= n /\ p.statements[i].child # NoBlock /\ p.statements[i].child = e[l]
      BY <2>2 DEF Progress, k
    <3>2. i <= j
      BY <1>2, <1>3, <3>1
    <3>3. l \in 1..k
      BY <1>3, <2>2
    <3> QED BY <1>8, <3>1, <3>2, <3>3
  <2>3. l = k + 1 \/ l \in 2..k
    BY <1>3
  <2> QED BY <2>1, <2>2, <2>3
<1>16. \A l \in 1..(k + 1) : v[l] = {x \in Block(p, f[l]) : x > j}
  BY <1>1, <1>7, <1>8, <1>9, <1>10
<1>17. ASSUME NEW x \in Counted(p), x > j
       PROVE  \/ \E l \in 1..(k + 1) : f[l] = p.statements[x].block
              \/ \E y \in Counted(p) : y > j /\ Opens(p, y, p.statements[x].block)
  <2>1. \A y \in Counted(p) : y \in Nat
    BY <1>3 DEF Counted
  <2>2. x > n
    BY <1>2, <1>3, <1>17, <2>1
  <2>3. CASE \E l \in 1..k : e[l] = p.statements[x].block
    <3>1. \A l \in 1..k : l \in 1..(k + 1)
      BY <1>3
    <3> QED BY <1>8, <2>3, <3>1
  <2>4. ASSUME NEW y \in Counted(p), y > n, Opens(p, y, p.statements[x].block)
        PROVE  y > j \/ p.statements[x].block = b
    <3>1. y = j => p.statements[x].block = b
      BY <1>5, <2>4 DEF Opens
    <3> QED BY <1>2, <2>1, <2>4, <3>1
  <2>5. k + 1 \in 1..(k + 1)
    BY <1>3
  <2>6. \/ \E l \in 1..k : e[l] = p.statements[x].block
        \/ \E y \in Counted(p) : y > n /\ Opens(p, y, p.statements[x].block)
    BY <2>2 DEF Progress, k
  <2> QED BY <1>8, <2>3, <2>4, <2>5, <2>6
<1> QED
  BY <1>4, <1>8, <1>9, <1>12, <1>14, <1>15, <1>16, <1>17 DEF Progress, j, f, v, u

\* A block that has nothing left is left.
LEMMA ProgressLeave ==
  ASSUME NEW p \in Reading, NEW t, NEW n, NEW e, Progress(p, t, n, e), Last(t) = {}, Len(t) # 1
  PROVE  Progress(p, Front(t), n, Front(e))
<1> DEFINE k == Len(t) - 1
           f == Front(e)
           u == Front(t)
<1>1. /\ Len(t) \in Nat /\ Len(t) >= 1 /\ Len(e) = Len(t) /\ e \in Seq(Nat)
      /\ t \in Seq(SUBSET Nat) /\ t # <<>> /\ e # <<>> /\ Last(t) = t[Len(t)]
      /\ \A l \in 1..Len(t) : \A x :
           x \in t[l] <=> x \in DOMAIN p.statements /\ p.statements[x].block = e[l] /\ x > n
  BY ProgressLevels
<1>2. k \in Nat /\ k >= 1 /\ Len(t) = k + 1 /\ Len(e) = k + 1
  BY <1>1
<1>3. /\ u \in Seq(SUBSET Nat) /\ Len(u) = k /\ \A l \in 1..k : u[l] = t[l]
      /\ f \in Seq(Nat) /\ Len(f) = k /\ \A l \in 1..k : f[l] = e[l]
  BY <1>1, FrontLast
<1> HIDE DEF f, u, k
<1>4. f # <<>>
  BY <1>2, <1>3
<1>5. \A l \in 1..k : l \in 1..Len(e)
  BY <1>2
<1>6. \A l \in 1..(k + 1) : l \in 1..k \/ l = k + 1
  BY <1>2
<1>7. \A l \in 1..k : f[l] \in ServerBlocks(p) /\ u[l] = {x \in Block(p, f[l]) : x > n}
  BY <1>3, <1>5 DEF Progress
<1>8. \A l, m \in 1..k : l < m => f[l] < f[m]
  BY <1>3, <1>5 DEF Progress
<1>9. \A l \in 2..k : \E i \in DOMAIN p.statements :
        i <= n /\ p.statements[i].child # NoBlock /\ p.statements[i].child = f[l]
  <2>1. \A l \in 2..k : l \in 1..k /\ l \in 2..Len(e)
    BY <1>2
  <2> QED BY <1>3, <2>1 DEF Progress
<1>10. ASSUME NEW x \in Counted(p), x > n
       PROVE  \/ \E l \in 1..k : f[l] = p.statements[x].block
              \/ \E y \in Counted(p) : y > n /\ Opens(p, y, p.statements[x].block)
  <2>1. x \in DOMAIN p.statements
    BY DEF Counted
  <2>2. k + 1 \in 1..Len(t) /\ t[k + 1] = {}
    BY <1>1, <1>2
  <2>3. e[k + 1] # p.statements[x].block
    BY <1>1, <1>10, <2>1, <2>2
  <2>4. \/ \E l \in 1..(k + 1) : e[l] = p.statements[x].block
        \/ \E y \in Counted(p) : y > n /\ Opens(p, y, p.statements[x].block)
    BY <1>2, <1>10 DEF Progress
  <2> QED BY <1>3, <1>6, <2>3, <2>4
<1>11. n \in 0..Len(p.statements)
  BY DEF Progress
<1> QED
  BY <1>3, <1>4, <1>7, <1>8, <1>9, <1>10, <1>11 DEF Progress, f, u

-----------------------------------------------------------------------------
(***************************************************************************)
(* The paths that are taken are all different, and the handlers are made   *)
(* from them one by one.                                                   *)
(***************************************************************************)
IsSequence(s) == s \in Seq(Range(s))

\* opts is what it is declared as.
Options ==
  /\ opts = [port |-> opts.port, threads |-> opts.threads, paths |-> opts.paths]
  /\ opts.paths = [k \in Range(Kinds) |-> opts.paths[k]]
  /\ \A k \in Range(Kinds) : IsSequence(opts.paths[k])

\* No path is there twice, in one kind or in two, and all are remembered.
PathsDiffer ==
  \A k, l \in Range(Kinds) : \A i \in DOMAIN opts.paths[k], j \in DOMAIN opts.paths[l] :
    opts.paths[k][i].prefix = opts.paths[l][j].prefix => k = l /\ i = j

PathsKnown ==
  \A k \in Range(Kinds) : \A i \in DOMAIN opts.paths[k] :
    opts.paths[k][i].prefix \in check_duplicate_path

\* What is listed are the first paths of each kind.
ListsPaths ==
  /\ handler_to_uri = [k \in Range(Kinds) |-> handler_to_uri[k]]
  /\ \A k \in Range(Kinds) :
       /\ IsSequence(handler_to_uri[k])
       /\ Len(handler_to_uri[k]) <= Len(opts.paths[k])
       /\ \A i \in DOMAIN handler_to_uri[k] :
            handler_to_uri[k][i] = opts.paths[k][i].prefix

\* The handlers made so far are those of the paths that are listed.
MadeListed ==
  /\ \A u \in DOMAIN handlers :
       \E k \in Range(Kinds) : \E i \in DOMAIN handler_to_uri[k] :
         u = opts.paths[k][i].prefix
  /\ \A k \in Range(Kinds) : \A i \in DOMAIN handler_to_uri[k] :
       /\ opts.paths[k][i].prefix \in DOMAIN handlers
       /\ handlers[opts.paths[k][i].prefix] = [kind |-> k, block |-> opts.paths[k][i].block]

NothingMade ==
  DOMAIN handlers = {} /\ handler_to_uri = [k \in Range(Kinds) |-> <<>>]

IndInv ==
  /\ Options /\ PathsDiffer /\ PathsKnown /\ ListsPaths
  /\ phase \in {"parsing", "handling"} => NothingMade
  /\ phase = "making" => MadeListed
  /\ ListsHandlers

-----------------------------------------------------------------------------
\* A sequence and one element more.
LEMMA AppendSequence ==
  ASSUME NEW s, IsSequence(s), NEW x
  PROVE  /\ Len(s) \in Nat /\ DOMAIN s = 1..Len(s)
         /\ IsSequence(Append(s, x)) /\ Len(Append(s, x)) = Len(s) + 1
         /\ DOMAIN Append(s, x) = 1..(Len(s) + 1)
         /\ Append(s, x)[Len(s) + 1] = x
         /\ \A i \in 1..Len(s) : Append(s, x)[i] = s[i]
<1> DEFINE P == Range(s) \cup {x}
           u == Append(s, x)
<1>1. s \in Seq(P) /\ x \in P
  <2>1. s \in Seq(Range(s)) /\ Range(s) \subseteq P /\ x \in P
    BY DEF IsSequence
  <2> HIDE DEF P
  <2> QED BY <2>1
<1>2. /\ Len(s) \in Nat /\ DOMAIN s = 1..Len(s)
      /\ u \in Seq(P) /\ Len(u) = Len(s) + 1 /\ DOMAIN u = 1..(Len(s) + 1)
      /\ u[Len(s) + 1] = x /\ \A i \in 1..Len(s) : u[i] = s[i]
  <2> HIDE DEF P
  <2> QED BY <1>1
<1>3. IsSequence(u)
  <2> HIDE DEF u
  <2>1. \A i \in DOMAIN u : u[i] \in Range(u)
    BY DEF Range
  <2>2. u \in Seq(P) /\ \A i \in 1..Len(u) : u[i] \in Range(u)
    BY <1>2, <2>1
  <2> QED
    BY <2>2 DEF IsSequence
<1> QED
  BY <1>2, <1>3

\* While no handler is made none is listed.
LEMMA NothingListed ==
  ASSUME Options, NothingMade PROVE ListsPaths
<1>1. handler_to_uri = [k \in Range(Kinds) |-> <<>>]
  BY DEF NothingMade
<1>2. IsSequence(<<>>) /\ DOMAIN <<>> = {} /\ Len(<<>>) = 0
  BY DEF IsSequence
<1>3. \A k \in Range(Kinds) : Len(opts.paths[k]) \in Nat
  BY AppendSequence DEF Options
<1> QED
  BY <1>1, <1>2, <1>3 DEF ListsPaths

\* At first there is no path and no handler.
LEMMA InitInv == Init => IndInv
<1> SUFFICES ASSUME Init PROVE IndInv
  OBVIOUS
<1>1. /\ opts = [port |-> <<"8080">>, threads |-> 10, paths |-> [k \in Range(Kinds) |-> <<>>]]
      /\ handlers = [u \in {} |-> u] /\ handler_to_uri = [k \in Range(Kinds) |-> <<>>]
      /\ phase = "parsing"
  BY DEF Init
<1>2. opts.paths = [k \in Range(Kinds) |-> <<>>]
  BY <1>1
<1>3. IsSequence(<<>>) /\ DOMAIN <<>> = {}
  BY DEF IsSequence
<1>4. Options
  BY <1>1, <1>2, <1>3 DEF Options
<1>5. PathsDiffer /\ PathsKnown
  BY <1>2, <1>3 DEF PathsDiffer, PathsKnown
<1>6. NothingMade
  BY <1>1 DEF NothingMade
<1> QED
  BY <1>1, <1>4, <1>5, <1>6, NothingListed DEF IndInv, ListsHandlers

\* What handle_statements does that changes no path.
LEMMA SamePaths ==
  ASSUME IndInv, phase = "handling",
         opts' = opts \/ (\E w : opts' = [opts EXCEPT !.port = w])
                      \/ (\E n : opts' = [opts EXCEPT !.threads = n]),
         UNCHANGED <<check_duplicate_path, handlers, handler_to_uri>>,
         phase' \in {"handling", "failed"}
  PROVE  IndInv'
<1>1. Options /\ PathsDiffer /\ PathsKnown /\ ListsPaths /\ NothingMade
  BY DEF IndInv
<1>2. opts'.paths = opts.paths
      /\ opts' = [port |-> opts'.port, threads |-> opts'.threads, paths |-> opts'.paths]
  BY <1>1 DEF Options
<1>3. Options' /\ PathsDiffer' /\ PathsKnown' /\ NothingMade'
  BY <1>1, <1>2 DEF Options, PathsDiffer, PathsKnown, NothingMade
<1>4. ListsPaths'
  BY <1>1, <1>2 DEF ListsPaths
<1> QED
  BY <1>3, <1>4 DEF IndInv, ListsHandlers

LEMMA HandlePathInv ==
  ASSUME IndInv, HandlePath PROVE IndInv'
<1>1. phase = "handling" /\ Options /\ PathsDiffer /\ PathsKnown /\ NothingMade
  BY DEF HandlePath, Handling, IndInv
<1>2. CASE Refuse
  BY <1>1, <1>2, SamePaths DEF Refuse
<1>3. CASE ~Refuse
  <2> DEFINE w == Current.tokens[2]
             h == Current.tokens[3]
             x == [prefix |-> w, block |-> ConfigBlock(Current)]
             paths == opts.paths
  <2>1. /\ w \notin check_duplicate_path /\ phase' = phase
        /\ check_duplicate_path' = check_duplicate_path \cup {w}
        /\ UNCHANGED <<handlers, handler_to_uri>>
        /\ opts' = [opts EXCEPT !.paths =
             [k \in DOMAIN @ |-> IF h # <<k>> THEN @[k] ELSE Append(@[k], x)]]
    BY <1>3 DEF HandlePath, ValidPath, Accept
  <2>2. /\ opts' = [port |-> opts'.port, threads |-> opts'.threads, paths |-> opts'.paths]
        /\ opts'.paths = [k \in Range(Kinds) |->
                            IF h # <<k>> THEN paths[k] ELSE Append(paths[k], x)]
    <3>1. DOMAIN paths = Range(Kinds)
      BY <1>1 DEF Options
    <3> HIDE DEF h, x
    <3> QED BY <1>1, <2>1, <3>1 DEF Options
  <2>3. x.prefix = w
    OBVIOUS
  <2> HIDE DEF w, h, x
  <2>4. ASSUME NEW k \in Range(Kinds)
        PROVE  /\ IsSequence(opts'.paths[k])
               /\ \A i \in DOMAIN opts'.paths[k] :
                    \/ i \in DOMAIN paths[k] /\ opts'.paths[k][i] = paths[k][i]
                    \/ h = <<k>> /\ i = Len(paths[k]) + 1 /\ opts'.paths[k][i] = x
    <3>1. IsSequence(paths[k])
      BY <1>1 DEF Options
    <3>2. CASE h # <<k>>
      BY <2>2, <3>1, <3>2
    <3>3. CASE h = <<k>>
      <4>1. opts'.paths[k] = Append(paths[k], x)
        BY <2>2, <3>3
      <4> QED
        BY <3>1, <3>3, <4>1, AppendSequence
    <3> QED
      BY <3>2, <3>3
  <2>5. Options'
    BY <2>2, <2>4 DEF Options
  <2>6. PathsKnown'
    BY <1>1, <2>1, <2>3, <2>4 DEF PathsKnown
  <2>7. PathsDiffer'
    <3> SUFFICES ASSUME NEW k \in Range(Kinds), NEW l \in Range(Kinds),
                        NEW i \in DOMAIN opts'.paths[k], NEW j \in DOMAIN opts'.paths[l],
                        opts'.paths[k][i].prefix = opts'.paths[l][j].prefix
                 PROVE  k = l /\ i = j
      BY DEF PathsDiffer
    <3>1. \A m \in Range(Kinds) : \A n \in DOMAIN paths[m] : paths[m][n].prefix # w
      BY <1>1, <2>1 DEF PathsKnown
    <3>2. CASE i \in DOMAIN paths[k] /\ opts'.paths[k][i] = paths[k][i]
               /\ j \in DOMAIN paths[l] /\ opts'.paths[l][j] = paths[l][j]
      BY <1>1, <3>2 DEF PathsDiffer
    <3>3. CASE /\ h = <<k>> /\ i = Len(paths[k]) + 1 /\ opts'.paths[k][i] = x
               /\ h = <<l>> /\ j = Len(paths[l]) + 1 /\ opts'.paths[l][j] = x
      BY <3>3
    <3> QED
      BY <2>3, <2>4, <3>1, <3>2, <3>3
  <2>8. ListsPaths'
    <3>1. \A k \in Range(Kinds) : handler_to_uri'[k] = <<>> /\ Len(opts'.paths[k]) \in Nat
      BY <1>1, <2>1, <2>5, AppendSequence DEF NothingMade, Options
    <3>2. IsSequence(<<>>) /\ DOMAIN <<>> = {} /\ Len(<<>>) = 0
      BY DEF IsSequence
    <3>3. handler_to_uri' = [k \in Range(Kinds) |-> handler_to_uri'[k]]
      BY <1>1, <2>1 DEF NothingMade
    <3> QED
      BY <3>1, <3>2, <3>3 DEF ListsPaths
  <2> QED
    BY <1>1, <2>1, <2>5, <2>6, <2>7, <2>8 DEF IndInv, NothingMade, ListsHandlers
<1> QED
  BY <1>2, <1>3

LEMMA HandlingInv ==
  ASSUME IndInv, HandleStatement PROVE IndInv'
<1>1. CASE HandlePath
  BY <1>1, HandlePathInv
<1>2. CASE HandlePort
  BY <1>2, SamePaths DEF HandlePort, Handling, Accept, Refuse
<1>3. CASE HandleThread
  BY <1>3, SamePaths DEF HandleThread, Handling, Accept, Refuse
<1>4. CASE HandleServer \/ HandleOther
  BY <1>4, SamePaths DEF HandleServer, HandleOther, Handling, Refuse
<1>5. CASE EndStatements
  <2>1. /\ UNCHANGED <<opts, check_duplicate_path, handlers, handler_to_uri>>
        /\ phase' \in {"handling", "making"}
        /\ Options /\ PathsDiffer /\ PathsKnown /\ NothingMade
    BY <1>5 DEF EndStatements, IndInv
  <2>2. Options' /\ PathsDiffer' /\ PathsKnown' /\ NothingMade'
    BY <2>1 DEF Options, PathsDiffer, PathsKnown, NothingMade
  <2>3. \A k \in Range(Kinds) : handler_to_uri[k] = <<>> /\ Len(opts.paths[k]) \in Nat
    BY <2>1 DEF NothingMade, Options, IsSequence
  <2>4. IsSequence(<<>>) /\ DOMAIN <<>> = {} /\ Len(<<>>) = 0
    BY DEF IsSequence
  <2>5. ListsPaths'
    <3>1. handler_to_uri' = [k \in Range(Kinds) |-> handler_to_uri'[k]]
      BY <2>1 DEF NothingMade
    <3> QED
      BY <2>1, <2>3, <2>4, <3>1 DEF ListsPaths
  <2>6. MadeListed'
    BY <2>1, <2>3, <2>4 DEF MadeListed, NothingMade
  <2> QED
    BY <2>1, <2>2, <2>5, <2>6 DEF IndInv, ListsHandlers
<1> QED
  BY <1>1, <1>2, <1>3, <1>4, <1>5 DEF HandleStatement

\* The next path of a kind, which no handler has.
LEMMA NextPath ==
  ASSUME IndInv, phase = "making", NEW k \in Range(Kinds), Left(k) > 0
  PROVE  LET n == Len(handler_to_uri[k]) + 1
         IN  /\ n \in DOMAIN opts.paths[k] /\ n \notin DOMAIN handler_to_uri[k]
             /\ opts.paths[k][n].prefix \notin DOMAIN handlers
<1> DEFINE m == Len(handler_to_uri[k])
           n == m + 1
           p == Len(opts.paths[k])
<1>1. Options /\ PathsDiffer /\ ListsPaths /\ MadeListed
  BY DEF IndInv
<1>2. /\ m \in Nat /\ DOMAIN handler_to_uri[k] = 1..m
      /\ p \in Nat /\ DOMAIN opts.paths[k] = 1..p
  BY <1>1, AppendSequence DEF Options, ListsPaths
<1>3. p - m > 0
  BY DEF Left
<1>4. n \in DOMAIN opts.paths[k] /\ n \notin DOMAIN handler_to_uri[k]
  <2> HIDE DEF m, p
  <2> QED BY <1>2, <1>3
<1>5. ASSUME opts.paths[k][n].prefix \in DOMAIN handlers PROVE FALSE
  <2>0. PICK l \in Range(Kinds) : \E i \in DOMAIN handler_to_uri[l] :
          opts.paths[k][n].prefix = opts.paths[l][i].prefix
    BY <1>1, <1>5 DEF MadeListed
  <2>1. PICK i \in DOMAIN handler_to_uri[l] :
          opts.paths[k][n].prefix = opts.paths[l][i].prefix
    BY <2>0
  <2>2. i \in DOMAIN opts.paths[l]
    <3>1. /\ IsSequence(handler_to_uri[l]) /\ IsSequence(opts.paths[l])
          /\ Len(handler_to_uri[l]) <= Len(opts.paths[l])
      BY <1>1 DEF Options, ListsPaths
    <3>2. PICK a, b : a = Len(handler_to_uri[l]) /\ b = Len(opts.paths[l])
      OBVIOUS
    <3>3. a \in Nat /\ b \in Nat /\ a <= b /\ i \in 1..a /\ DOMAIN opts.paths[l] = 1..b
      BY <2>1, <3>1, <3>2, AppendSequence
    <3> QED
      BY <3>3
  <2>3. k = l /\ n = i
    BY <1>1, <1>4, <2>1, <2>2 DEF PathsDiffer
  <2> QED
    BY <1>4, <2>1, <2>3
<1> QED
  BY <1>4, <1>5

LEMMA MakeHandlerInv ==
  ASSUME IndInv, MakeHandler
  PROVE  IndInv' /\ \A u \in DOMAIN handlers : u \in DOMAIN handlers' /\ handlers'[u] = handlers[u]
<1>1. PICK k \in Range(Kinds) :
        LET path == opts.paths[k][Len(handler_to_uri[k]) + 1]
        IN  /\ Left(k) > 0
            /\ handlers' = Set(path.prefix, [kind |-> k, block |-> path.block])
            /\ \/ phase' = "failed" /\ UNCHANGED handler_to_uri
               \/ phase' = phase /\ handler_to_uri' = Listed(k, path.prefix)
  <2>1. PICK i \in DOMAIN Kinds :
          LET path == opts.paths[Kinds[i]][Len(handler_to_uri[Kinds[i]]) + 1]
          IN  /\ Left(Kinds[i]) > 0
              /\ handlers' = Set(path.prefix, [kind |-> Kinds[i], block |-> path.block])
              /\ \/ phase' = "failed" /\ UNCHANGED handler_to_uri
                 \/ phase' = phase /\ handler_to_uri' = Listed(Kinds[i], path.prefix)
    BY DEF MakeHandler
  <2>2. Kinds[i] \in Range(Kinds)
    BY DEF Range
  <2> QED
    BY <2>1, <2>2
<1>2. /\ phase = "making" /\ UNCHANGED <<opts, check_duplicate_path>>
      /\ Options /\ PathsDiffer /\ PathsKnown /\ ListsPaths /\ MadeListed
  BY DEF MakeHandler, IndInv
<1> DEFINE s == handler_to_uri[k]
           n == Len(s) + 1
           w == opts.paths[k][n].prefix
           h == [kind |-> k, block |-> opts.paths[k][n].block]
<1>3. n \in DOMAIN opts.paths[k] /\ n \notin DOMAIN s /\ w \notin DOMAIN handlers
  BY <1>1, <1>2, NextPath
<1>4. /\ handlers' = Set(w, h) /\ h = [kind |-> k, block |-> opts.paths[k][n].block]
      /\ \/ phase' = "failed" /\ UNCHANGED handler_to_uri
         \/ phase' = "making" /\ handler_to_uri' = Listed(k, w)
  BY <1>1, <1>2
<1> HIDE DEF w, h
<1>5. /\ DOMAIN handlers' = DOMAIN handlers \cup {w} /\ handlers'[w] = h
      /\ \A u \in DOMAIN handlers : handlers'[u] = handlers[u]
  BY <1>3, <1>4 DEF Set
<1>6. Options' /\ PathsDiffer' /\ PathsKnown'
  BY <1>2 DEF Options, PathsDiffer, PathsKnown
<1>7. ASSUME phase' = "making" PROVE ListsPaths' /\ MadeListed'
  <2>1. handler_to_uri' = [handler_to_uri EXCEPT ![k] = Append(@, w)]
    BY <1>4, <1>7 DEF Listed
  <2>2. /\ \A l \in Range(Kinds) : l # k => handler_to_uri'[l] = handler_to_uri[l]
        /\ handler_to_uri'[k] = Append(s, w)
        /\ handler_to_uri' = [l \in Range(Kinds) |-> handler_to_uri'[l]]
    BY <1>2, <2>1 DEF ListsPaths
  <2>3. /\ IsSequence(s) /\ IsSequence(opts.paths[k])
        /\ \A i \in DOMAIN s : s[i] = opts.paths[k][i].prefix
    BY <1>2 DEF ListsPaths, Options
  <2>4. /\ Len(s) \in Nat /\ DOMAIN s = 1..Len(s)
        /\ IsSequence(Append(s, w)) /\ Len(Append(s, w)) = n
        /\ DOMAIN Append(s, w) = 1..n
        /\ Append(s, w)[n] = w
        /\ \A i \in 1..Len(s) : Append(s, w)[i] = s[i]
    BY <2>3, AppendSequence
  <2>5. n <= Len(opts.paths[k])
    <3>1. DOMAIN opts.paths[k] = 1..Len(opts.paths[k]) /\ Len(opts.paths[k]) \in Nat
      BY <2>3, AppendSequence
    <3> QED
      BY <1>3, <3>1
  <2>6. \A i \in 1..n : i \in DOMAIN s \/ i = n
    BY <2>4
  <2>7. ListsPaths'
    <3>1. ASSUME NEW l \in Range(Kinds)
          PROVE  /\ IsSequence(handler_to_uri'[l])
                 /\ Len(handler_to_uri'[l]) <= Len(opts'.paths[l])
                 /\ \A i \in DOMAIN handler_to_uri'[l] :
                      handler_to_uri'[l][i] = opts'.paths[l][i].prefix
      <4>1. CASE l # k
        BY <1>2, <2>2, <4>1 DEF ListsPaths
      <4>2. CASE l = k
        <5>1. \A i \in 1..n : Append(s, w)[i] = opts.paths[k][i].prefix
          BY <2>3, <2>4, <2>6 DEF w
        <5> QED
          BY <1>2, <2>2, <2>4, <2>5, <4>2, <5>1
      <4> QED
        BY <4>1, <4>2
    <3> QED
      BY <2>2, <3>1 DEF ListsPaths
  <2>8. ASSUME NEW u \in DOMAIN handlers'
        PROVE  \E l \in Range(Kinds) : \E i \in DOMAIN handler_to_uri'[l] :
                 u = opts'.paths[l][i].prefix
    <3>1. CASE u = w
      <4>1. n \in DOMAIN handler_to_uri'[k]
        BY <2>2, <2>4
      <4> QED
        BY <1>2, <3>1, <4>1 DEF w
    <3>2. CASE u \in DOMAIN handlers
      <4>0. PICK l \in Range(Kinds) : \E i \in DOMAIN handler_to_uri[l] :
              u = opts.paths[l][i].prefix
        BY <1>2, <3>2 DEF MadeListed
      <4>1. PICK i \in DOMAIN handler_to_uri[l] : u = opts.paths[l][i].prefix
        BY <4>0
      <4>2. i \in DOMAIN handler_to_uri'[l]
        BY <2>2, <2>4, <4>1
      <4> QED
        BY <1>2, <4>1, <4>2
    <3> QED
      BY <1>5, <3>1, <3>2
  <2>9. ASSUME NEW l \in Range(Kinds), NEW i \in DOMAIN handler_to_uri'[l]
        PROVE  /\ opts'.paths[l][i].prefix \in DOMAIN handlers'
               /\ handlers'[opts'.paths[l][i].prefix] =
                    [kind |-> l, block |-> opts'.paths[l][i].block]
    <3>1. CASE i \in DOMAIN handler_to_uri[l]
      BY <1>2, <1>5, <3>1 DEF MadeListed
    <3>2. CASE l = k /\ i = n
      BY <1>2, <1>4, <1>5, <3>2 DEF w
    <3> QED
      BY <2>2, <2>4, <2>6, <3>1, <3>2
  <2> QED
    BY <2>7, <2>8, <2>9 DEF MadeListed
<1>8. ASSUME phase' # "making" PROVE ListsPaths'
  <2>1. UNCHANGED <<opts, handler_to_uri>>
    BY <1>2, <1>4, <1>8
  <2> QED
    BY <1>2, <2>1 DEF ListsPaths
<1>9. phase' \in {"making", "failed"}
  BY <1>4
<1>10. IndInv'
  <2>1. ListsHandlers'
    BY <1>9 DEF ListsHandlers
  <2>2. ListsPaths' /\ (phase' = "making" => MadeListed')
    BY <1>7, <1>8
  <2> QED
    BY <1>6, <1>9, <2>1, <2>2 DEF IndInv
<1> QED
  BY <1>5, <1>10

LEMMA ListenInv ==
  ASSUME IndInv, Listen
  PROVE  IndInv' /\ \A u \in DOMAIN handlers \ Reserved :
                      u \in DOMAIN handlers' /\ handlers'[u] = handlers[u]
<1>1. /\ phase = "making" /\ UNCHANGED <<opts, check_duplicate_path, handler_to_uri>>
      /\ phase' \in {"failed", "running"}
      /\ Options /\ PathsDiffer /\ PathsKnown /\ ListsPaths /\ MadeListed
  BY DEF Listen, IndInv
<1>2. /\ DOMAIN handlers' = DOMAIN handlers \cup Reserved
      /\ \A u \in DOMAIN handlers \ Reserved : handlers'[u] = handlers[u]
  BY DEF Listen, Reserved
<1>3. Options' /\ PathsDiffer' /\ PathsKnown'
  BY <1>1 DEF Options, PathsDiffer, PathsKnown
<1>4. ASSUME NEW u \in DOMAIN handlers \ Reserved, NEW k \in Range(Kinds)
      PROVE  u \in Range(handler_to_uri[k]) <=> handlers[u].kind = k
  <2>1. ASSUME u \in Range(handler_to_uri[k]) PROVE handlers[u].kind = k
    <3>1. PICK i \in DOMAIN handler_to_uri[k] : u = handler_to_uri[k][i]
      BY <2>1 DEF Range
    <3>2. u = opts.paths[k][i].prefix
      BY <1>1, <3>1 DEF ListsPaths
    <3>3. handlers[opts.paths[k][i].prefix] = [kind |-> k, block |-> opts.paths[k][i].block]
      BY <1>1, <3>1 DEF MadeListed
    <3> QED
      BY <3>2, <3>3
  <2>2. ASSUME handlers[u].kind = k PROVE u \in Range(handler_to_uri[k])
    <3>0. PICK l \in Range(Kinds) : \E i \in DOMAIN handler_to_uri[l] :
            u = opts.paths[l][i].prefix
      BY <1>1 DEF MadeListed
    <3>1. PICK i \in DOMAIN handler_to_uri[l] : u = opts.paths[l][i].prefix
      BY <3>0
    <3>2. handlers[opts.paths[l][i].prefix] = [kind |-> l, block |-> opts.paths[l][i].block]
      BY <1>1, <3>1 DEF MadeListed
    <3>3. handlers[u].kind = l /\ u = handler_to_uri[l][i]
      BY <1>1, <3>1, <3>2 DEF ListsPaths
    <3> QED
      BY <2>2, <3>1, <3>3 DEF Range
  <2> QED
    BY <2>1, <2>2
<1>5. ListsHandlers'
  BY <1>1, <1>2, <1>4 DEF ListsHandlers
<1>6. ListsPaths'
  BY <1>1 DEF ListsPaths
<1> QED
  BY <1>1, <1>2, <1>3, <1>5, <1>6 DEF IndInv

\* A step keeps the invariant, and every handler that is not reserved.
LEMMA NextInv ==
  ASSUME IndInv, [Next]_vars
  PROVE  /\ IndInv'
         /\ \A u \in DOMAIN handlers \ Reserved :
              u \in DOMAIN handlers' /\ handlers'[u] = handlers[u]
<1>1. CASE MakeHandler
  BY <1>1, MakeHandlerInv
<1>2. CASE Listen
  BY <1>2, ListenInv
<1>3. CASE HandleStatement
  <2>1. UNCHANGED handlers
    BY <1>3 DEF HandleStatement, HandlePort, HandleThread, HandlePath, HandleServer,
       HandleOther, EndStatements, Accept, Refuse
  <2> QED
    BY <1>3, <2>1, HandlingInv
<1>4. CASE ReadFragment \/ EndOfFile \/ UNCHANGED vars
  <2>1. /\ UNCHANGED <<opts, check_duplicate_path, handlers, handler_to_uri>>
        /\ \/ phase' = phase
           \/ phase = "parsing" /\ phase' \in {"handling", "failed"}
    BY <1>4 DEF ReadFragment, EndOfFile, vars
  <2>2. /\ Options' = Options /\ PathsDiffer' = PathsDiffer /\ PathsKnown' = PathsKnown
        /\ NothingMade' = NothingMade /\ ListsPaths' = ListsPaths /\ MadeListed' = MadeListed
    BY <2>1 DEF Options, PathsDiffer, PathsKnown, NothingMade, ListsPaths, MadeListed
  <2>3. phase' = "running" => ListsHandlers' = ListsHandlers /\ phase = "running"
    BY <2>1 DEF ListsHandlers
  <2>4. ListsHandlers'
    BY <2>1, <2>3 DEF IndInv, ListsHandlers
  <2> QED
    BY <2>1, <2>2, <2>4 DEF IndInv
<1> QED
  BY <1>1, <1>2, <1>3, <1>4 DEF Next

-----------------------------------------------------------------------------
(***************************************************************************)
(* The options are what the statements taken so far say.                   *)
(***************************************************************************)
\* The statements that begin with a letter, and the paths of a kind.
Setting(p, done, letter) == {x \in done : p.statements[x].tokens[1] = <<letter>>}

PathsTo(p, done, k) ==
  {x \in Setting(p, done, "path") : p.statements[x].tokens[3] = <<k>>}

PathOf(p, x) == [prefix |-> p.statements[x].tokens[2], block |-> ConfigBlock(p.statements[x])]

\* What the port statements that are done, and the thread statements, come to.
Port(p, done) ==
  LET d == Setting(p, done, "port")
  IN  IF d = {} THEN <<"8080">> ELSE p.statements[Max(d)].tokens[2]

Threads(p, done) ==
  LET d == Setting(p, done, "thread")
  IN  IF d = {} THEN 10 ELSE lexical_cast(p.statements[Max(d)].tokens[2])

\* The options are what the statements that are done say.
Effects(p, o, done) ==
  /\ o.port = Port(p, done) /\ o.threads = Threads(p, done)
  /\ \A k \in Range(Kinds) :
       Range(o.paths[k]) = {PathOf(p, x) : x \in PathsTo(p, done, k)}

Reached(p, t, n, e, o) ==
  /\ p \in Reading /\ Progress(p, t, n, e) /\ Last(t) # {} /\ Effects(p, o, Done(p, n))

-----------------------------------------------------------------------------
LEMMA SettingMore ==
  ASSUME NEW p \in Reading, NEW t, NEW n, NEW e, Progress(p, t, n, e), Last(t) # {}, NEW letter
  PROVE  IF p.statements[Min(Last(t))].tokens[1] = <<letter>>
           THEN /\ Setting(p, Done(p, Min(Last(t))), letter) =
                     Setting(p, Done(p, n), letter) \cup {Min(Last(t))}
                /\ Setting(p, Done(p, Min(Last(t))), letter) # {}
                /\ Max(Setting(p, Done(p, Min(Last(t))), letter)) = Min(Last(t))
           ELSE Setting(p, Done(p, Min(Last(t))), letter) = Setting(p, Done(p, n), letter)
<1> DEFINE j == Min(Last(t))
           d == Setting(p, Done(p, n), letter)
           c == Setting(p, Done(p, j), letter)
<1>1. Done(p, j) = Done(p, n) \cup {j} /\ \A x \in Done(p, n) : x < j
  BY DoneNext
<1>2. j \in DOMAIN p.statements /\ j \in 1..Len(p.statements) /\ Len(p.statements) \in Nat
  BY NextIsFirst, ReadStatements
<1>3. \A x \in Done(p, n) : x \in 1..Len(p.statements)
  BY ReadStatements DEF Done, Counted
<1> HIDE DEF j
<1>4. CASE p.statements[j].tokens[1] = <<letter>>
  <2>1. c = d \cup {j}
    BY <1>1, <1>4 DEF Setting
  <2>2. c \in SUBSET (1..Len(p.statements)) /\ j \in c /\ \A x \in c : x <= j
    BY <1>1, <1>2, <1>3, <2>1 DEF Setting
  <2> HIDE DEF c, d
  <2>3. Max(c) = j
    BY <1>2, <2>2, MaxUnique
  <2> QED BY <1>4, <2>1, <2>2, <2>3 DEF c, d, j
<1>5. CASE p.statements[j].tokens[1] # <<letter>>
  <2>1. c = d
    BY <1>1, <1>5 DEF Setting
  <2> QED BY <1>5, <2>1 DEF j
<1> QED
  BY <1>4, <1>5

\* The part of a setting of another kind stays.
LEMMA OtherSettings ==
  ASSUME NEW p, NEW t, NEW n, NEW e, NEW o, Reached(p, t, n, e, o)
  PROVE  LET j == Min(Last(t))
             start == p.statements[j].tokens[1]
         IN  /\ start # <<"port">> => Port(p, Done(p, j)) = o.port
             /\ start # <<"thread">> => Threads(p, Done(p, j)) = o.threads
             /\ start # <<"path">> => \A k \in Range(Kinds) :
                  Range(o.paths[k]) = {PathOf(p, x) : x \in PathsTo(p, Done(p, j), k)}
<1> DEFINE j == Min(Last(t))
           start == p.statements[j].tokens[1]
<1>1. p \in Reading /\ Progress(p, t, n, e) /\ Last(t) # {} /\ Effects(p, o, Done(p, n))
  BY DEF Reached
<1>2. \A letter : start # <<letter>> =>
        Setting(p, Done(p, j), letter) = Setting(p, Done(p, n), letter)
  BY <1>1, SettingMore
<1> HIDE DEF j, start
<1>3. start # <<"port">> => Port(p, Done(p, j)) = o.port
  BY <1>1, <1>2 DEF Effects, Port
<1>4. start # <<"thread">> => Threads(p, Done(p, j)) = o.threads
  BY <1>1, <1>2 DEF Effects, Threads
<1>5. start # <<"path">> => \A k \in Range(Kinds) :
        Range(o.paths[k]) = {PathOf(p, x) : x \in PathsTo(p, Done(p, j), k)}
  <2>1. start # <<"path">> => \A k : PathsTo(p, Done(p, j), k) = PathsTo(p, Done(p, n), k)
    BY <1>2 DEF PathsTo
  <2> QED BY <1>1, <2>1 DEF Effects
<1> QED
  BY <1>3, <1>4, <1>5 DEF j, start

LEMMA EffectsPort ==
  ASSUME NEW p, NEW t, NEW n, NEW e, NEW o, Reached(p, t, n, e, o),
         p.statements[Min(Last(t))].tokens[1] = <<"port">>, NEW q,
         q.port = p.statements[Min(Last(t))].tokens[2],
         q.threads = o.threads, q.paths = o.paths
  PROVE  Effects(p, q, Done(p, Min(Last(t))))
<1> DEFINE j == Min(Last(t))
           d == Setting(p, Done(p, j), "port")
<1>1. d # {} /\ Max(d) = j
  BY SettingMore DEF Reached
<1>2. Port(p, Done(p, j)) = p.statements[j].tokens[2]
  BY <1>1 DEF Port
<1>3. <<"port">> # <<"thread">> /\ <<"port">> # <<"path">>
  OBVIOUS
<1>4. /\ Threads(p, Done(p, j)) = o.threads
      /\ \A k \in Range(Kinds) :
           Range(o.paths[k]) = {PathOf(p, x) : x \in PathsTo(p, Done(p, j), k)}
  BY <1>3, OtherSettings
<1> HIDE DEF j
<1> QED
  BY <1>2, <1>4 DEF Effects, j

LEMMA EffectsThread ==
  ASSUME NEW p, NEW t, NEW n, NEW e, NEW o, Reached(p, t, n, e, o),
         p.statements[Min(Last(t))].tokens[1] = <<"thread">>, NEW q,
         q.threads = lexical_cast(p.statements[Min(Last(t))].tokens[2]),
         q.port = o.port, q.paths = o.paths
  PROVE  Effects(p, q, Done(p, Min(Last(t))))
<1> DEFINE j == Min(Last(t))
           d == Setting(p, Done(p, j), "thread")
<1>1. d # {} /\ Max(d) = j
  BY SettingMore DEF Reached
<1>2. Threads(p, Done(p, j)) = lexical_cast(p.statements[j].tokens[2])
  BY <1>1 DEF Threads
<1>3. <<"thread">> # <<"port">> /\ <<"thread">> # <<"path">>
  OBVIOUS
<1>4. /\ Port(p, Done(p, j)) = o.port
      /\ \A k \in Range(Kinds) :
           Range(o.paths[k]) = {PathOf(p, x) : x \in PathsTo(p, Done(p, j), k)}
  BY <1>3, OtherSettings
<1> HIDE DEF j
<1> QED
  BY <1>2, <1>4 DEF Effects, j

\* A path that is taken.
LEMMA EffectsPath ==
  ASSUME NEW p, NEW t, NEW n, NEW e, NEW o, Reached(p, t, n, e, o),
         p.statements[Min(Last(t))].tokens[1] = <<"path">>, NEW q,
         q.port = o.port, q.threads = o.threads,
         \A k \in Range(Kinds) : Range(q.paths[k]) = Range(o.paths[k]) \cup
           {PathOf(p, x) : x \in {y \in {Min(Last(t))} : p.statements[y].tokens[3] = <<k>>}}
  PROVE  Effects(p, q, Done(p, Min(Last(t))))
<1> DEFINE j == Min(Last(t))
<1>1. Setting(p, Done(p, j), "path") = Setting(p, Done(p, n), "path") \cup {j}
  BY SettingMore DEF Reached
<1>2. <<"path">> # <<"port">> /\ <<"path">> # <<"thread">>
  OBVIOUS
<1>3. Port(p, Done(p, j)) = o.port /\ Threads(p, Done(p, j)) = o.threads
  BY <1>2, OtherSettings
<1>4. \A k \in Range(Kinds) : Range(q.paths[k]) = Range(o.paths[k]) \cup
           {PathOf(p, x) : x \in {y \in {j} : p.statements[y].tokens[3] = <<k>>}}
  OBVIOUS
<1> HIDE DEF j
<1>5. ASSUME NEW k \in Range(Kinds)
      PROVE  Range(q.paths[k]) = {PathOf(p, x) : x \in PathsTo(p, Done(p, j), k)}
  <2>1. PathsTo(p, Done(p, j), k) =
          PathsTo(p, Done(p, n), k) \cup {y \in {j} : p.statements[y].tokens[3] = <<k>>}
    BY <1>1 DEF PathsTo
  <2>2. Range(o.paths[k]) = {PathOf(p, x) : x \in PathsTo(p, Done(p, n), k)}
    BY DEF Reached, Effects
  <2> QED BY <1>4, <2>1, <2>2
<1> QED
  BY <1>3, <1>5 DEF Effects, j

\* A server changes nothing.
LEMMA EffectsServer ==
  ASSUME NEW p, NEW t, NEW n, NEW e, NEW o, Reached(p, t, n, e, o),
         p.statements[Min(Last(t))].tokens[1] = <<"server">>
  PROVE  Effects(p, o, Done(p, Min(Last(t))))
<1>1. <<"server">> # <<"port">> /\ <<"server">> # <<"thread">> /\ <<"server">> # <<"path">>
  OBVIOUS
<1> QED
  BY <1>1, OtherSettings DEF Effects

\* At first nothing is done.
LEMMA EffectsNone ==
  ASSUME NEW p, NEW o, o.port = <<"8080">>, o.threads = 10,
         \A k \in Range(Kinds) : o.paths[k] = <<>>
  PROVE  Effects(p, o, {})
<1>1. \A letter : Setting(p, {}, letter) = {}
  BY DEF Setting
<1>2. \A k : PathsTo(p, {}, k) = {}
  BY <1>1 DEF PathsTo
<1>3. Range(<<>>) = {}
  BY DEF Range
<1>4. Port(p, {}) = <<"8080">> /\ Threads(p, {}) = 10
  BY <1>1 DEF Port, Threads
<1>5. \A k \in Range(Kinds) : Range(o.paths[k]) = {PathOf(p, x) : x \in PathsTo(p, {}, k)}
  BY <1>2, <1>3
<1> QED
  BY <1>4, <1>5 DEF Effects

\* The parser is in one of its states, and the file is handled when accepted.
Parsed == parser \in Reading /\ (phase = "handling" => Accepts(parser))

\* The options are those of the statements handled so far, in the order of the file.
Handled ==
  /\ phase = "parsing" =>
       todo = <<>> /\ opts.port = <<"8080">> /\ opts.threads = 10
       /\ \A k \in Range(Kinds) : opts.paths[k] = <<>>
  /\ phase = "handling" =>
       \E n, e : Progress(parser, todo, n, e) /\ Effects(parser, opts, Done(parser, n))
  /\ phase \in {"making", "running"} => Effects(parser, opts, Counted(parser))

LEMMA InitParsed == Init => Parsed /\ Handled
<1> SUFFICES ASSUME Init PROVE Parsed /\ Handled
  OBVIOUS
<1>1. Parsed
  BY ParserStartReads DEF Init, Parsed
<1>2. /\ phase = "parsing" /\ todo = <<>>
      /\ opts = [port |-> <<"8080">>, threads |-> 10, paths |-> [k \in Range(Kinds) |-> <<>>]]
  BY DEF Init
<1> QED
  BY <1>1, <1>2 DEF Handled

LEMMA NextParsed == Parsed /\ [Next]_vars => Parsed'
<1> SUFFICES ASSUME Parsed, [Next]_vars PROVE Parsed'
  OBVIOUS
<1>1. CASE ReadFragment
  <2>1. PICK f \in Fragments : parser' = Parse(parser, f)
    BY <1>1 DEF ReadFragment
  <2>2. f \in Seq(STRING)
    BY FragmentsAssumption
  <2>3. parser' \in Reading
    BY <2>1, <2>2, ParseReads DEF Parsed
  <2> QED BY <1>1, <2>3 DEF ReadFragment, Parsed
<1>2. CASE EndOfFile
  BY <1>2 DEF EndOfFile, Parsed
<1>3. CASE HandleStatement
  <2>1. parser' = parser /\ phase = "handling"
    BY <1>3 DEF HandleStatement, HandlePort, HandleThread, HandlePath, HandleServer,
       HandleOther, EndStatements, Accept, Refuse, Handling
  <2> QED BY <2>1 DEF Parsed
<1>4. CASE MakeHandler \/ Listen
  BY <1>4 DEF MakeHandler, Listen, Parsed
<1>5. CASE UNCHANGED vars
  BY <1>5 DEF vars, Parsed
<1> QED
  BY <1>1, <1>2, <1>3, <1>4, <1>5 DEF Next

-----------------------------------------------------------------------------
\* Where handle_statements stands.
LEMMA HandlingReached ==
  ASSUME Parsed, Handled, Handling
  PROVE  \E n, e : Reached(parser, todo, n, e, opts)
BY DEF Parsed, Handled, Handling, Reached

\* A statement is accepted.
LEMMA AcceptHandled ==
  ASSUME NEW n, NEW e, Reached(parser, todo, n, e, opts), Start # <<"server">>,
         phase = "handling", phase' = phase, parser' = parser, todo' = Rest,
         Effects(parser, opts', Done(parser, Min(Last(todo))))
  PROVE  Handled'
<1> DEFINE j == Min(Last(todo))
<1>1. Progress(parser, Without(todo), j, e)
  BY ProgressDone DEF Reached, Start, Current
<1>2. todo' = Without(todo)
  BY DEF Rest, Without
<1>3. Effects(parser, opts', Done(parser, j))
  OBVIOUS
<1> HIDE DEF j
<1>4. Progress(parser', todo', j, e) /\ Effects(parser', opts', Done(parser', j))
  BY <1>1, <1>2, <1>3
<1> QED
  BY <1>4 DEF Handled

LEMMA HandlePortHandled ==
  ASSUME Parsed, Handled, Options, HandlePort PROVE Handled'
<1>1. PICK n, e : Reached(parser, todo, n, e, opts)
  BY HandlingReached DEF HandlePort
<1>2. CASE Refuse
  BY <1>2 DEF Refuse, Handled
<1>3. CASE ~Refuse
  <2>1. /\ phase = "handling" /\ phase' = phase /\ parser' = parser /\ todo' = Rest
        /\ opts' = [opts EXCEPT !.port = Current.tokens[2]] /\ Start = <<"port">>
    BY <1>3 DEF HandlePort, Handling, Accept
  <2>2. /\ opts'.port = Current.tokens[2] /\ opts'.threads = opts.threads
        /\ opts'.paths = opts.paths
    BY <2>1 DEF Options
  <2>3. Effects(parser, opts', Done(parser, Min(Last(todo))))
    BY <1>1, <2>1, <2>2, EffectsPort DEF Current, Start
  <2> QED BY <1>1, <2>1, <2>3, AcceptHandled
<1> QED
  BY <1>2, <1>3

LEMMA HandleThreadHandled ==
  ASSUME Parsed, Handled, Options, HandleThread PROVE Handled'
<1>1. PICK n, e : Reached(parser, todo, n, e, opts)
  BY HandlingReached DEF HandleThread
<1>2. CASE Refuse
  BY <1>2 DEF Refuse, Handled
<1>3. CASE ~Refuse
  <2>1. /\ phase = "handling" /\ phase' = phase /\ parser' = parser /\ todo' = Rest
        /\ opts' = [opts EXCEPT !.threads = lexical_cast(Current.tokens[2])]
        /\ Start = <<"thread">>
    BY <1>3 DEF HandleThread, Handling, Accept
  <2>2. /\ opts'.threads = lexical_cast(Current.tokens[2]) /\ opts'.port = opts.port
        /\ opts'.paths = opts.paths
    BY <2>1 DEF Options
  <2>3. Effects(parser, opts', Done(parser, Min(Last(todo))))
    BY <1>1, <2>1, <2>2, EffectsThread DEF Current, Start
  <2> QED BY <1>1, <2>1, <2>3, AcceptHandled
<1> QED
  BY <1>2, <1>3

LEMMA HandlePathHandled ==
  ASSUME Parsed, Handled, Options, HandlePath PROVE Handled'
<1>1. PICK n, e : Reached(parser, todo, n, e, opts)
  BY HandlingReached DEF HandlePath
<1>2. CASE Refuse
  BY <1>2 DEF Refuse, Handled
<1>3. CASE ~Refuse
  <2> DEFINE j == Min(Last(todo))
             h == Current.tokens[3]
             x == [prefix |-> Current.tokens[2], block |-> ConfigBlock(Current)]
  <2>1. /\ phase = "handling" /\ phase' = phase /\ parser' = parser /\ todo' = Rest
        /\ opts' = [opts EXCEPT !.paths =
             [k \in DOMAIN @ |-> IF h # <<k>> THEN @[k] ELSE Append(@[k], x)]]
        /\ Start = <<"path">>
    BY <1>3 DEF HandlePath, Handling, Accept
  <2>2. x = PathOf(parser, j) /\ h = parser.statements[j].tokens[3]
    BY DEF PathOf, Current
  <2>3. parser.statements[j].tokens[1] = <<"path">>
    BY <2>1 DEF Start, Current
  <2> HIDE DEF h, x, j
  <2>4. /\ opts'.port = opts.port /\ opts'.threads = opts.threads
        /\ opts'.paths = [k \in Range(Kinds) |->
                            IF h # <<k>> THEN opts.paths[k] ELSE Append(opts.paths[k], x)]
    <3>1. DOMAIN opts.paths = Range(Kinds)
      BY DEF Options
    <3> QED BY <2>1, <3>1 DEF Options
  <2>5. ASSUME NEW k \in Range(Kinds)
        PROVE  Range(opts'.paths[k]) = Range(opts.paths[k]) \cup
                 {PathOf(parser, z) : z \in {y \in {j} : parser.statements[y].tokens[3] = <<k>>}}
    <3>1. CASE h # <<k>>
      BY <2>2, <2>4, <3>1
    <3>2. CASE h = <<k>>
      <4>1. PICK s : s = opts.paths[k]
        OBVIOUS
      <4>2. IsSequence(s) /\ opts'.paths[k] = Append(s, x)
        BY <2>4, <3>2, <4>1 DEF Options
      <4>3. Range(Append(s, x)) = Range(s) \cup {x}
        <5> DEFINE u == Append(s, x)
                   m == Len(s)
        <5>1. /\ m \in Nat /\ DOMAIN s = 1..m /\ DOMAIN u = 1..(m + 1) /\ u[m + 1] = x
              /\ \A i \in 1..m : u[i] = s[i]
          BY <4>2, AppendSequence
        <5> HIDE DEF u, m
        <5>2. /\ \A i \in 1..(m + 1) : i \in 1..m \/ i = m + 1
              /\ \A i \in 1..m : i \in 1..(m + 1)
              /\ m + 1 \in 1..(m + 1)
          BY <5>1
        <5>3. \A y \in Range(u) : y \in Range(s) \cup {x}
          BY <5>1, <5>2 DEF Range
        <5>4. \A y \in Range(s) \cup {x} : y \in Range(u)
          BY <5>1, <5>2 DEF Range
        <5> QED BY <5>3, <5>4 DEF u
      <4>4. {PathOf(parser, z) : z \in {y \in {j} : parser.statements[y].tokens[3] = <<k>>}} = {x}
        <5>1. {y \in {j} : parser.statements[y].tokens[3] = <<k>>} = {j}
          BY <2>2, <3>2
        <5> QED BY <2>2, <5>1
      <4> QED BY <4>1, <4>2, <4>3, <4>4
    <3> QED BY <3>1, <3>2
  <2>6. Effects(parser, opts', Done(parser, Min(Last(todo))))
    <3> DEFINE said(i, k) ==
                 {PathOf(parser, z) : z \in {y \in {i} : parser.statements[y].tokens[3] = <<k>>}}
    <3>1. PICK q : q = opts'
      OBVIOUS
    <3>2. \A k \in Range(Kinds) : Range(q.paths[k]) = Range(opts.paths[k]) \cup said(j, k)
      BY <2>5, <3>1
    <3>3. parser.statements[Min(Last(todo))].tokens[1] = <<"path">>
      BY <2>3 DEF j
    <3>4. q.port = opts.port /\ q.threads = opts.threads
      BY <2>4, <3>1
    <3> HIDE DEF said
    <3>5. \A k \in Range(Kinds) :
            Range(q.paths[k]) = Range(opts.paths[k]) \cup said(Min(Last(todo)), k)
      BY <3>2 DEF j
    <3>6. Effects(parser, q, Done(parser, Min(Last(todo))))
      BY <1>1, <3>3, <3>4, <3>5, EffectsPath DEF said
    <3> QED BY <3>1, <3>6
  <2> QED BY <1>1, <2>1, <2>6, AcceptHandled
<1> QED
  BY <1>2, <1>3

LEMMA HandleServerHandled ==
  ASSUME Parsed, Handled, HandleServer PROVE Handled'
<1>1. PICK n, e : Reached(parser, todo, n, e, opts)
  BY HandlingReached DEF HandleServer
<1>2. CASE Refuse
  BY <1>2 DEF Refuse, Handled
<1>3. CASE ~Refuse
  <2> DEFINE j == Min(Last(todo))
             b == parser.statements[j].child
  <2>1. /\ phase = "handling" /\ phase' = phase /\ parser' = parser /\ opts' = opts
        /\ todo' = Append(Without(todo), Block(parser, b))
        /\ b # NoBlock /\ parser.statements[j].tokens[1] = <<"server">>
    BY <1>3 DEF HandleServer, Handling, Current, Start, Rest, Without
  <2>2. Opens(parser, j, b)
    BY <2>1 DEF Opens
  <2>3. Progress(parser, Append(Without(todo), Block(parser, b)), j, Append(e, b))
    <3>1. parser \in Reading /\ Progress(parser, todo, n, e) /\ Last(todo) # {}
      BY <1>1 DEF Reached
    <3> HIDE DEF b
    <3> QED BY <2>2, <3>1, ProgressEnter
  <2>4. Effects(parser, opts, Done(parser, j))
    BY <1>1, <2>1, EffectsServer
  <2> HIDE DEF j, b
  <2>5. Progress(parser', todo', j, Append(e, b)) /\ Effects(parser', opts', Done(parser', j))
    BY <2>1, <2>3, <2>4
  <2> QED BY <2>1, <2>5 DEF Handled
<1> QED
  BY <1>2, <1>3

LEMMA EndStatementsHandled ==
  ASSUME Parsed, Handled, EndStatements PROVE Handled'
<1>1. PICK n, e : Progress(parser, todo, n, e) /\ Effects(parser, opts, Done(parser, n))
  BY DEF EndStatements, Handled
<1>2. /\ Last(todo) = {} /\ parser' = parser /\ opts' = opts /\ todo' = Front(todo)
      /\ phase' = IF Len(todo) = 1 THEN "making" ELSE "handling"
      /\ parser \in Reading
  BY DEF EndStatements, Parsed
<1>3. CASE Len(todo) = 1
  <2>1. Done(parser, n) = Counted(parser)
    BY <1>1, <1>2, <1>3, DoneAll
  <2>2. Effects(parser', opts', Counted(parser'))
    BY <1>1, <1>2, <2>1
  <2> QED BY <1>2, <1>3, <2>2 DEF Handled
<1>4. CASE Len(todo) # 1
  <2>1. Progress(parser, Front(todo), n, Front(e))
    BY <1>1, <1>2, <1>4, ProgressLeave
  <2>2. Progress(parser', todo', n, Front(e)) /\ Effects(parser', opts', Done(parser', n))
    BY <1>1, <1>2, <2>1
  <2> QED BY <1>2, <1>4, <2>2 DEF Handled
<1> QED
  BY <1>3, <1>4

LEMMA EndOfFileHandled ==
  ASSUME Parsed, Handled, EndOfFile PROVE Handled'
<1>1. /\ phase = "parsing" /\ parser' = parser /\ opts' = opts /\ parser \in Reading
      /\ opts.port = <<"8080">> /\ opts.threads = 10
      /\ \A k \in Range(Kinds) : opts.paths[k] = <<>>
  BY DEF EndOfFile, Handled, Parsed
<1>2. CASE Accepts(parser)
  <2>1. phase' = "handling" /\ todo' = <<Block(parser, TopBlock)>>
    BY <1>2 DEF EndOfFile
  <2>2. Progress(parser, <<Block(parser, TopBlock)>>, 0, <<TopBlock>>)
    BY <1>1, ProgressStart
  <2>3. Done(parser, 0) = {}
    BY <1>1, ReadStatements DEF Done, Counted
  <2>4. Effects(parser, opts, Done(parser, 0))
    BY <1>1, <2>3, EffectsNone
  <2>5. Progress(parser', todo', 0, <<TopBlock>>) /\ Effects(parser', opts', Done(parser', 0))
    BY <1>1, <2>1, <2>2, <2>4
  <2> QED BY <2>1, <2>5 DEF Handled
<1>3. CASE ~Accepts(parser)
  <2>1. phase' = "failed"
    BY <1>3 DEF EndOfFile
  <2> QED BY <2>1 DEF Handled
<1> QED
  BY <1>2, <1>3

\* Every step leaves the options as the file says.
LEMMA NextHandled == Parsed /\ Handled /\ Options /\ [Next]_vars => Handled'
<1> SUFFICES ASSUME Parsed, Handled, Options, [Next]_vars PROVE Handled'
  OBVIOUS
<1>1. CASE ReadFragment
  BY <1>1 DEF ReadFragment, Handled
<1>2. CASE EndOfFile
  BY <1>2, EndOfFileHandled
<1>3. CASE HandleStatement
  <2>1. CASE HandleOther
    BY <2>1 DEF HandleOther, Refuse, Handled
  <2> QED
    BY <1>3, <2>1, HandlePortHandled, HandleThreadHandled, HandlePathHandled,
       HandleServerHandled, EndStatementsHandled DEF HandleStatement
<1>4. CASE MakeHandler \/ Listen
  <2>1. /\ phase = "making" /\ phase' \in {"making", "failed", "running"}
        /\ UNCHANGED <<parser, opts>>
    BY <1>4 DEF MakeHandler, Listen
  <2> QED BY <2>1 DEF Handled
<1>5. CASE UNCHANGED vars
  BY <1>5 DEF vars, Handled
<1> QED
  BY <1>1, <1>2, <1>3, <1>4, <1>5 DEF Next

-----------------------------------------------------------------------------
(***************************************************************************)
(* When all handlers are made, they are those of the file.                 *)
(***************************************************************************)
\* The statements that set a handler.
Paths(p) ==
  {x \in Setting(p, Counted(p), "path") :
     \E k \in Range(Kinds) : p.statements[x].tokens[3] = <<k>>}

\* When all handlers are made they are those of the file.
LEMMA AllMade ==
  ASSUME IndInv, Handled, phase = "making", \A k \in Range(Kinds) : Left(k) = 0
  PROVE  /\ DOMAIN handlers = {parser.statements[x].tokens[2] : x \in Paths(parser)}
         /\ \A x \in Paths(parser) :
              /\ parser.statements[x].tokens[2] \in DOMAIN handlers
              /\ handlers[parser.statements[x].tokens[2]] =
                   [kind |-> parser.statements[x].tokens[3][1],
                    block |-> ConfigBlock(parser.statements[x])]
<1>1. Options /\ ListsPaths /\ MadeListed /\ Effects(parser, opts, Counted(parser))
  BY DEF IndInv, Handled
<1>2. ASSUME NEW k \in Range(Kinds) PROVE DOMAIN handler_to_uri[k] = DOMAIN opts.paths[k]
  <2>1. PICK a, b : a = Len(handler_to_uri[k]) /\ b = Len(opts.paths[k])
    OBVIOUS
  <2>2. IsSequence(handler_to_uri[k]) /\ IsSequence(opts.paths[k])
    BY <1>1 DEF Options, ListsPaths
  <2>3. /\ a \in Nat /\ b \in Nat /\ DOMAIN handler_to_uri[k] = 1..a
        /\ DOMAIN opts.paths[k] = 1..b
    BY <2>1, <2>2, AppendSequence
  <2>4. b - a = 0
    BY <2>1 DEF Left
  <2> QED BY <2>3, <2>4
<1>3. ASSUME NEW k \in Range(Kinds)
      PROVE  Range(opts.paths[k]) = {PathOf(parser, x) : x \in PathsTo(parser, Counted(parser), k)}
  BY <1>1 DEF Effects
<1>4. ASSUME NEW u \in DOMAIN handlers
      PROVE  \E x \in Paths(parser) : u = parser.statements[x].tokens[2]
  <2>1. PICK k \in Range(Kinds) : \E i \in DOMAIN handler_to_uri[k] :
          u = opts.paths[k][i].prefix
    BY <1>1 DEF MadeListed
  <2>2. PICK i \in DOMAIN opts.paths[k] : u = opts.paths[k][i].prefix
    BY <1>2, <2>1
  <2>3. opts.paths[k][i] \in Range(opts.paths[k])
    BY DEF Range
  <2>4. PICK x \in PathsTo(parser, Counted(parser), k) : opts.paths[k][i] = PathOf(parser, x)
    BY <1>3, <2>3
  <2>5. x \in Paths(parser)
    BY DEF PathsTo, Paths
  <2>6. u = parser.statements[x].tokens[2]
    BY <2>2, <2>4 DEF PathOf
  <2> QED BY <2>5, <2>6
<1>5. ASSUME NEW x \in Paths(parser)
      PROVE  /\ parser.statements[x].tokens[2] \in DOMAIN handlers
             /\ handlers[parser.statements[x].tokens[2]] =
                  [kind |-> parser.statements[x].tokens[3][1],
                   block |-> ConfigBlock(parser.statements[x])]
  <2>1. PICK k \in Range(Kinds) : parser.statements[x].tokens[3] = <<k>>
    BY DEF Paths
  <2>2. x \in PathsTo(parser, Counted(parser), k)
    BY <2>1 DEF Paths, PathsTo
  <2>3. PathOf(parser, x) \in Range(opts.paths[k])
    BY <1>3, <2>2
  <2>4. PICK i \in DOMAIN opts.paths[k] : opts.paths[k][i] = PathOf(parser, x)
    BY <2>3 DEF Range
  <2>5. /\ opts.paths[k][i].prefix \in DOMAIN handlers
        /\ handlers[opts.paths[k][i].prefix] = [kind |-> k, block |-> opts.paths[k][i].block]
    BY <1>1, <1>2 DEF MadeListed
  <2>6. /\ opts.paths[k][i].prefix = parser.statements[x].tokens[2]
        /\ opts.paths[k][i].block = ConfigBlock(parser.statements[x])
    BY <2>4 DEF PathOf
  <2>7. parser.statements[x].tokens[3][1] = k
    BY <2>1
  <2> QED BY <2>5, <2>6, <2>7
<1>6. DOMAIN handlers = {parser.statements[x].tokens[2] : x \in Paths(parser)}
  BY <1>4, <1>5
<1> QED
  BY <1>5, <1>6

LEMMA ListenConfigured ==
  ASSUME IndInv, Handled, Listen PROVE RunsAsConfigured'
<1>1. /\ phase = "making" /\ \A k \in Range(Kinds) : Left(k) = 0
      /\ parser' = parser /\ opts' = opts
      /\ DOMAIN handlers' = DOMAIN handlers \cup Reserved
      /\ \A u \in DOMAIN handlers \ Reserved : handlers'[u] = handlers[u]
  BY DEF Listen, Reserved
<1>2. /\ DOMAIN handlers = {parser.statements[x].tokens[2] : x \in Paths(parser)}
      /\ \A x \in Paths(parser) :
           /\ parser.statements[x].tokens[2] \in DOMAIN handlers
           /\ handlers[parser.statements[x].tokens[2]] =
                [kind |-> parser.statements[x].tokens[3][1],
                 block |-> ConfigBlock(parser.statements[x])]
  BY <1>1, AllMade
<1>3. Effects(parser, opts, Counted(parser))
  BY <1>1 DEF Handled
<1>4. \A letter : Declared(letter)' = Setting(parser, Counted(parser), letter)
  BY <1>1 DEF Declared, Setting, Counted, Tokens
<1>5. Declared("path")' = Setting(parser, Counted(parser), "path")
      /\ Declared("port")' = Setting(parser, Counted(parser), "port")
      /\ Declared("thread")' = Setting(parser, Counted(parser), "thread")
  BY <1>4
<1>6. {n \in Declared("path")' : \E k \in Range(Kinds) : parser.statements[n].tokens[3] = <<k>>}
        = Paths(parser)
  BY <1>5 DEF Paths
<1>7. /\ DOMAIN handlers' = Reserved \cup {parser.statements[n].tokens[2] : n \in Paths(parser)}
      /\ \A n \in Paths(parser) : parser.statements[n].tokens[2] \notin Reserved =>
           handlers'[parser.statements[n].tokens[2]] =
             [kind |-> parser.statements[n].tokens[3][1],
              block |-> IF parser.statements[n].tokens[3][1] \in WithBlock
                          THEN parser.statements[n].child ELSE NoBlock]
  <2>1. ASSUME NEW n \in Paths(parser)
        PROVE  ConfigBlock(parser.statements[n]) =
                 IF parser.statements[n].tokens[3][1] \in WithBlock
                   THEN parser.statements[n].child ELSE NoBlock
    <3>1. PICK k \in Range(Kinds) : parser.statements[n].tokens[3] = <<k>>
      BY DEF Paths
    <3>2. parser.statements[n].tokens[3][1] = k
          /\ ((\E l \in WithBlock : parser.statements[n].tokens[3] = <<l>>) <=> k \in WithBlock)
      BY <3>1
    <3> QED BY <3>2 DEF ConfigBlock
  <2> QED BY <1>1, <1>2, <2>1
<1>8. /\ opts'.port = IF Declared("port")' = {} THEN <<"8080">>
                      ELSE parser.statements[Max(Declared("port")')].tokens[2]
      /\ opts'.threads = IF Declared("thread")' = {} THEN 10
                         ELSE lexical_cast(parser.statements[Max(Declared("thread")')].tokens[2])
  BY <1>1, <1>3, <1>5 DEF Effects, Port, Threads
<1>9. /\ \A n : Tokens(n)' = parser.statements[n].tokens
      /\ parser'.statements = parser.statements
  BY <1>1 DEF Tokens
<1> QED
  BY <1>5, <1>6, <1>7, <1>8, <1>9 DEF RunsAsConfigured

LEMMA NextConfigured ==
  ASSUME IndInv, Handled, RunsAsConfigured, [Next]_vars
  PROVE  RunsAsConfigured'
<1>1. CASE Listen
  BY <1>1, ListenConfigured
<1>2. CASE ReadFragment \/ EndOfFile \/ HandleStatement \/ MakeHandler
  <2>1. phase' # "running"
    BY <1>2 DEF ReadFragment, EndOfFile, HandleStatement, HandlePort, HandleThread, HandlePath,
       HandleServer, HandleOther, EndStatements, Accept, Refuse, Handling, MakeHandler
  <2> QED BY <2>1 DEF RunsAsConfigured
<1>3. CASE UNCHANGED vars
  <2>1. /\ phase' = phase /\ parser' = parser /\ opts' = opts /\ handlers' = handlers
    BY <1>3 DEF vars
  <2>2. \A letter : Declared(letter)' = Declared(letter)
    BY <2>1 DEF Declared, Tokens
  <2>3. /\ Declared("path")' = Declared("path") /\ Declared("port")' = Declared("port")
        /\ Declared("thread")' = Declared("thread")
    BY <2>2
  <2> DEFINE paths == {n \in Declared("path") :
                         \E k \in Range(Kinds) : parser.statements[n].tokens[3] = <<k>>}
  <2> SUFFICES ASSUME phase' = "running" PROVE RunsAsConfigured'
    BY DEF RunsAsConfigured
  <2>4. /\ DOMAIN handlers = Reserved \cup {parser.statements[n].tokens[2] : n \in paths}
        /\ \A n \in paths : parser.statements[n].tokens[2] \notin Reserved =>
             handlers[parser.statements[n].tokens[2]] =
               [kind |-> parser.statements[n].tokens[3][1],
                block |-> IF parser.statements[n].tokens[3][1] \in WithBlock
                            THEN parser.statements[n].child ELSE NoBlock]
        /\ opts.port = IF Declared("port") = {} THEN <<"8080">>
                       ELSE parser.statements[Max(Declared("port"))].tokens[2]
        /\ opts.threads = IF Declared("thread") = {} THEN 10
                          ELSE lexical_cast(parser.statements[Max(Declared("thread"))].tokens[2])
    BY <2>1 DEF RunsAsConfigured, Tokens
  <2>5. {n \in Declared("path")' : \E k \in Range(Kinds) : parser'.statements[n].tokens[3] = <<k>>}
          = paths
    BY <2>1, <2>3
  <2> HIDE DEF paths
  <2> QED BY <2>1, <2>3, <2>4, <2>5 DEF RunsAsConfigured, Tokens
<1> QED
  BY <1>1, <1>2, <1>3 DEF Next

-----------------------------------------------------------------------------
\* The conjuncts of TypeOK that do not follow from the other invariants.
Typed ==
  /\ length \in 0..MaxFragments
  /\ phase \in {"parsing", "handling", "making", "running", "failed"}
  /\ \A i \in DOMAIN todo : todo[i] \subseteq DOMAIN parser.statements
  /\ opts.threads \in Nat \ {0} /\ opts.port # <<>>

LEMMA TodoTyped ==
  ASSUME NEW p \in Reading, NEW t, NEW n, NEW e, Progress(p, t, n, e)
  PROVE  \A i \in DOMAIN t : t[i] \subseteq DOMAIN p.statements
<1>1. /\ t \in Seq(SUBSET Nat)
      /\ \A l \in 1..Len(t) : \A x \in t[l] : x \in DOMAIN p.statements
  BY ProgressLevels
<1>2. DOMAIN t = 1..Len(t)
  BY <1>1
<1> QED
  BY <1>1, <1>2

\* todo after a step.
LEMMA NextTodo ==
  ASSUME Parsed', Handled', Handled, Typed, [Next]_vars
  PROVE  \A i \in DOMAIN todo' : todo'[i] \subseteq DOMAIN parser'.statements
<1>1. CASE phase' = "handling"
  <2>1. PICK n, e : Progress(parser', todo', n, e)
    BY <1>1 DEF Handled
  <2>2. parser' \in Reading
    BY DEF Parsed
  <2>3. PICK p, t : p = parser' /\ t = todo'
    OBVIOUS
  <2> QED BY <2>1, <2>2, <2>3, TodoTyped
<1>2. CASE phase' = "parsing"
  <2>1. todo' = <<>>
    BY <1>2 DEF Handled
  <2> QED BY <2>1
<1>3. CASE EndStatements /\ phase' = "making"
  <2>1. PICK n, e : Progress(parser, todo, n, e)
    BY <1>3 DEF EndStatements, Handled
  <2>2. Len(todo) = 1 /\ todo' = Front(todo) /\ todo \in Seq(SUBSET Nat) /\ todo # <<>>
    BY <1>3, <2>1 DEF EndStatements, Progress
  <2>3. Len(todo') = 0 /\ todo' \in Seq(SUBSET Nat)
    BY <2>2, FrontLast
  <2>4. DOMAIN todo' = {}
    BY <2>3
  <2> QED BY <2>4
<1>4. CASE UNCHANGED <<todo, parser>>
  BY <1>4 DEF Typed
<1>5. \/ phase' \in {"handling", "parsing"}
      \/ EndStatements /\ phase' = "making"
      \/ UNCHANGED <<todo, parser>>
  BY DEF Next, vars, ReadFragment, EndOfFile, HandleStatement, HandlePort, HandleThread,
     HandlePath, HandleServer, HandleOther, EndStatements, Accept, Refuse, Handling,
     MakeHandler, Listen
<1> QED
  BY <1>1, <1>2, <1>3, <1>4, <1>5

\* The port and the number of threads are those of a statement.
LEMMA NextOptions ==
  ASSUME Parsed, Handled, Options, Typed, [Next]_vars
  PROVE  opts'.threads \in Nat \ {0} /\ opts'.port # <<>>
<1>1. CASE HandlePort /\ ~Refuse
  <2>1. PICK n, e : Reached(parser, todo, n, e, opts)
    BY <1>1, HandlingReached DEF HandlePort
  <2>2. Len(Current.tokens) = 2 /\ opts' = [opts EXCEPT !.port = Current.tokens[2]]
    BY <1>1 DEF HandlePort, ValidPort, Accept
  <2>3. Current.tokens \in Texts
    BY <2>1, NextIsFirst, ReadStatements DEF Reached, Current
  <2>4. Current.tokens[2] \in Words
    BY <2>2, <2>3 DEF Texts
  <2>5. Current.tokens[2] # <<>>
    BY <2>4 DEF Words
  <2> QED BY <2>2, <2>5 DEF Options, Typed
<1>2. CASE HandleThread /\ ~Refuse
  <2>1. /\ lexical_cast(Current.tokens[2]) > 0
        /\ opts' = [opts EXCEPT !.threads = lexical_cast(Current.tokens[2])]
    BY <1>2 DEF HandleThread, ValidThread, Accept
  <2>2. \A w : lexical_cast(w) \in Nat
    BY NumberAssumption DEF lexical_cast
  <2>3. opts'.threads = lexical_cast(Current.tokens[2]) /\ opts'.port = opts.port
    BY <2>1 DEF Options
  <2>4. opts'.threads \in Nat \ {0}
    BY <2>1, <2>2, <2>3
  <2> QED BY <2>3, <2>4 DEF Typed
<1>3. CASE HandlePath /\ ~Refuse
  BY <1>3 DEF HandlePath, Accept, Options, Typed
<1>4. CASE UNCHANGED opts
  BY <1>4 DEF Typed
<1>5. \/ HandlePort /\ ~Refuse
      \/ HandleThread /\ ~Refuse
      \/ HandlePath /\ ~Refuse
      \/ UNCHANGED opts
  BY DEF Next, vars, ReadFragment, EndOfFile, HandleStatement, HandleServer, HandleOther,
     EndStatements, Accept, Refuse, MakeHandler, Listen
<1> QED
  BY <1>1, <1>2, <1>3, <1>4, <1>5

LEMMA NextTyped ==
  ASSUME Parsed, Parsed', Handled, Handled', Options, Typed, [Next]_vars
  PROVE  Typed'
<1>1. length' \in 0..MaxFragments
  <2>1. length' = length \/ (length < MaxFragments /\ length' = length + 1)
    BY DEF Next, vars, ReadFragment, EndOfFile, HandleStatement, HandlePort, HandleThread,
       HandlePath, HandleServer, HandleOther, EndStatements, Accept, Refuse, MakeHandler, Listen
  <2> QED BY <2>1, MaxFragmentsAssumption DEF Typed
<1>2. phase' \in {"parsing", "handling", "making", "running", "failed"}
  BY DEF Typed, Next, vars, ReadFragment, EndOfFile, HandleStatement, HandlePort, HandleThread,
     HandlePath, HandleServer, HandleOther, EndStatements, Accept, Refuse, MakeHandler, Listen
<1> QED
  BY <1>1, <1>2, NextTodo, NextOptions DEF Typed

LEMMA InitTyped == Init => Typed
<1> SUFFICES ASSUME Init PROVE Typed
  OBVIOUS
<1>1. /\ length = 0 /\ phase = "parsing" /\ todo = <<>>
      /\ opts = [port |-> <<"8080">>, threads |-> 10, paths |-> [k \in Range(Kinds) |-> <<>>]]
  BY DEF Init
<1> QED
  BY <1>1, MaxFragmentsAssumption DEF Typed

LEMMA AllTyped ==
  ASSUME IndInv, Parsed, Typed PROVE TypeOK
<1>1. ASSUME NEW i \in DOMAIN parser.statements PROVE IsStatement(parser.statements[i])
  BY ReadStatements DEF Parsed, IsStatement
<1>2. parser.stack # <<>> /\ Range(parser.stack) \subseteq 1..parser.blocks
  <2>1. Ascending(parser.stack, parser.blocks)
    BY DEF Parsed, Reading, Core
  <2>2. /\ parser.stack \in Seq(Nat) /\ parser.stack # <<>>
        /\ \A i \in 1..Len(parser.stack) : parser.stack[i] \in 1..parser.blocks
    BY <2>1 DEF Ascending
  <2>3. DOMAIN parser.stack = 1..Len(parser.stack)
    BY <2>2
  <2> QED BY <2>2, <2>3 DEF Range
<1>3. ASSUME NEW k \in Range(Kinds) PROVE Left(k) \in Nat
  <2>1. PICK a, b : a = Len(handler_to_uri[k]) /\ b = Len(opts.paths[k])
    OBVIOUS
  <2>2. a \in Nat /\ b \in Nat /\ a <= b
    BY <2>1, AppendSequence DEF IndInv, Options, ListsPaths
  <2>3. b - a \in Nat
    BY <2>2
  <2> QED BY <2>1, <2>3 DEF Left
<1> QED
  BY <1>1, <1>2, <1>3 DEF Typed, TypeOK

-----------------------------------------------------------------------------
\* What every step of init keeps.
THEOREM Invariance == Spec => []IndInv
<1>1. IndInv /\ [Next]_vars => IndInv'
  BY NextInv
<1> QED
  BY InitInv, <1>1, PTL DEF Spec

\* For every file, the status page of a server that runs lists each prefix
\* under the kind of its handler and no other (addHandlerToUri, server.cc).
THEOREM StatusPageListsHandlers == Spec => []ListsHandlers
<1>1. IndInv => ListsHandlers
  BY DEF IndInv
<1> QED
  BY <1>1, Invariance, PTL

\* No handler is replaced while init makes the others, but for the reserved
\* prefixes: check_duplicate_path spans blocks and kinds (config_handler.cc).
THEOREM NoHandlerReplaced == Spec => HandlersStay
<1>1. IndInv /\ [Next]_vars =>
        [\A u \in DOMAIN handlers \ Reserved :
           u \in DOMAIN handlers' /\ handlers'[u] = handlers[u]]_vars
  BY NextInv
<1> QED
  BY <1>1, Invariance, PTL DEF Spec, HandlersStay

\* What every step of init keeps besides: the parser is in one of its states,
\* handle_statements goes on in the order of the file, and the server that runs
\* does so as configured.
THEOREM AsTheFileSays == Spec => [](Parsed /\ Handled /\ Typed /\ RunsAsConfigured)
<1> DEFINE I == Parsed /\ Handled /\ Typed /\ RunsAsConfigured
<1>1. Init => I
  <2>1. Init => RunsAsConfigured
    BY DEF Init, RunsAsConfigured
  <2> QED BY <2>1, InitParsed, InitTyped
<1>2. IndInv /\ I /\ [Next]_vars => I'
  <2> SUFFICES ASSUME IndInv, I, [Next]_vars PROVE I'
    OBVIOUS
  <2>0. Options
    BY DEF IndInv
  <2>1. Parsed' /\ Handled'
    BY <2>0, NextParsed, NextHandled
  <2>2. Typed'
    BY <2>0, <2>1, NextTyped
  <2>3. RunsAsConfigured'
    BY NextConfigured
  <2> QED BY <2>1, <2>2, <2>3
<1> HIDE DEF I
<1>3. Spec => []I
  BY <1>1, <1>2, Invariance, PTL DEF Spec
<1> QED
  BY <1>3 DEF I

\* The type invariant: the blocks and statements Parse refers to exist, no
\* statement is without a token (tokens_[0] is read unchecked,
\* config_handler.cc), handle_statements goes through statements of the file,
\* and there is at least one thread.
THEOREM TypeCorrect == Spec => []TypeOK
<1>1. IndInv /\ Parsed /\ Handled /\ Typed /\ RunsAsConfigured => TypeOK
  BY AllTyped
<1> QED
  BY <1>1, AsTheFileSays, Invariance, PTL

\* For every file that is accepted, of any length and nesting, ToString of what
\* Parse has built gives back the tokens of the file (config_parser.cc).
THEOREM PrintsAsRead == Spec => []PrintsBack
<1>1. Parsed /\ Handled /\ Typed /\ RunsAsConfigured => PrintsBack
  BY AcceptedPrintsBack DEF Parsed, PrintsBack
<1> QED
  BY <1>1, AsTheFileSays, PTL

\* For every file, a server that runs has exactly the handlers of the path
\* statements that count, each with its own block, and the last port and thread
\* statements of the text hold (handle_config, Server::init).
THEOREM RunsAsTheFileSays == Spec => []RunsAsConfigured
BY AsTheFileSays, PTL
=============================================================================
