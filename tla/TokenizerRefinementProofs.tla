--------------------- MODULE TokenizerRefinementProofs ---------------------
(***************************************************************************)
(* The tokenizer implements the Lexer, step by step: for every token and   *)
(* buffer length, every set of files, signed and unsigned char, if fread   *)
(* does not fail.                                                          *)
(***************************************************************************)
EXTENDS TokenizerRefinement, TokenizerProofs, WellFoundedInduction

-----------------------------------------------------------------------------
(* The words of the language                                               *)

IsWord(w)   == Len(w) >= 1 /\ w[1] = "alpha" /\ AllIn(w, {"alpha", "digit"})
IsInt(w)    == Len(w) >= 1 /\ AllIn(w, {"digit"})
IsFloat(w)  == \E d \in 2 .. Len(w) :
                 w[d] = "dot" /\ \A i \in (1 .. Len(w)) \ {d} : w[i] = "digit"
IsMark(w, c) == Len(w) = 1 /\ w[1] = c
IsBreak(w)  == \/ Len(w) = 1 /\ w[1] \in {"cr", "lf"}
               \/ Len(w) = 2 /\ w[1] = "cr" /\ w[2] = "lf"

(* The cases of Kind, by length and characters.                            *)
LEMMA Short ==
  ASSUME NEW w \in Seq(Char)
  PROVE  /\ Len(w) \in Nat
         /\ w = <<>> <=> Len(w) = 0
         /\ \A c \in Char : w = <<c>> <=> IsMark(w, c)
         /\ w = <<"cr", "lf">> <=> Len(w) = 2 /\ w[1] = "cr" /\ w[2] = "lf"
<1>1. Len(w) \in Nat /\ (w = <<>> <=> Len(w) = 0)
  BY LenProperties, EmptySeq
<1>2. ASSUME NEW c \in Char, IsMark(w, c) PROVE w = <<c>>
  <2>1. <<c>> \in Seq(Char) /\ Len(<<c>>) = 1 /\ <<c>>[1] = c
    OBVIOUS
  <2> QED
    BY <1>2, <2>1, SeqEqual DEF IsMark
<1>3. \A c \in Char : w = <<c>> <=> IsMark(w, c)
  BY <1>2 DEF IsMark
<1>4. ASSUME Len(w) = 2, w[1] = "cr", w[2] = "lf" PROVE w = <<"cr", "lf">>
  <2>1. <<"cr", "lf">> \in Seq(Char) /\ Len(<<"cr", "lf">>) = 2
        /\ <<"cr", "lf">>[1] = "cr" /\ <<"cr", "lf">>[2] = "lf"
    BY DEF Char
  <2> QED
    BY <1>4, <2>1, SeqEqual
<1> QED
  BY <1>1, <1>3, <1>4

LEMMA KindIs ==
  ASSUME NEW w \in Seq(Char)
  PROVE  /\ Kind(w) = "IDENTIFIER" <=> IsWord(w)
         /\ Kind(w) = "INT" <=> IsInt(w)
         /\ Kind(w) = "FLOAT" <=> IsFloat(w)
         /\ Kind(w) = "COMMA" <=> IsMark(w, "comma")
         /\ Kind(w) = "COLON" <=> IsMark(w, "colon")
         /\ Kind(w) = "NEWLINE" <=> IsBreak(w)
         /\ Kind(w) \in {"IDENTIFIER", "INT", "FLOAT", "COMMA", "COLON", "NEWLINE", "none"}
<1>1. /\ Len(w) \in Nat
      /\ w = <<>> <=> Len(w) = 0
      /\ w = <<"comma">> <=> IsMark(w, "comma")
      /\ w = <<"colon">> <=> IsMark(w, "colon")
      /\ w \in {<<"cr">>, <<"lf">>, <<"cr", "lf">>} <=> IsBreak(w)
  <2>1. {"comma", "colon", "cr", "lf"} \subseteq Char
    BY DEF Char
  <2> QED
    BY <2>1, Short DEF IsBreak, IsMark
<1>2. IsFloat(w) => Len(w) >= 2 /\ w[1] = "digit" /\ ~AllIn(w, {"digit"})
  BY <1>1 DEF IsFloat, AllIn
<1>3. /\ IsWord(w) => w[1] = "alpha"
      /\ IsInt(w) => w[1] = "digit" /\ AllIn(w, {"digit"})
  BY <1>1 DEF IsWord, IsInt, AllIn
<1>4. /\ IsWord(w) <=> w # <<>> /\ w[1] = "alpha" /\ AllIn(w, {"alpha", "digit"})
      /\ IsInt(w) <=> w # <<>> /\ AllIn(w, {"digit"})
  BY <1>1 DEF IsWord, IsInt
<1>5. /\ IsMark(w, "comma") => w[1] = "comma"
      /\ IsMark(w, "colon") => w[1] = "colon"
      /\ IsBreak(w) => w[1] \in {"cr", "lf"}
  BY DEF IsMark, IsBreak
<1>6. Kind(w) = CASE w = <<>> -> "none"
                  [] IsWord(w) -> "IDENTIFIER"
                  [] IsInt(w) -> "INT"
                  [] IsFloat(w) -> "FLOAT"
                  [] IsMark(w, "comma") -> "COMMA"
                  [] IsMark(w, "colon") -> "COLON"
                  [] IsBreak(w) -> "NEWLINE"
                  [] OTHER -> "none"
  BY <1>1, <1>4 DEF Kind, IsFloat
<1>7. w = <<>> => ~(IsWord(w) \/ IsInt(w) \/ IsFloat(w) \/ IsMark(w, "comma")
                    \/ IsMark(w, "colon") \/ IsBreak(w))
  BY <1>1, <1>2 DEF IsWord, IsInt, IsMark, IsBreak
<1> QED
  BY <1>2, <1>3, <1>5, <1>6, <1>7

(* A character more, and what it makes of the type.                        *)
Extends(v, w) ==
  Len(v) = Len(w) + 1 /\ \A i \in 1 .. Len(w) : v[i] = w[i]

LEMMA KindGrows ==
  ASSUME NEW w \in Seq(Char), NEW v \in Seq(Char), Len(w) >= 1, Extends(v, w),
         NEW c, c = v[Len(w) + 1], NEW t
  PROVE  /\ Grows(Kind(w), c, t) => Kind(v) = t
         /\ /\ Kind(w) \in {"IDENTIFIER", "INT", "FLOAT"}
            /\ \A s : ~Grows(Kind(w), c, s)
            => Kind(v) = "none"
         /\ IsBreak(w) /\ ~(w[1] = "cr" /\ c = "lf") => Kind(v) = "none"
         /\ IsBreak(w) /\ Len(w) = 2 => Kind(v) = "none"
         /\ Kind(w) \in {"COMMA", "COLON"} => Kind(v) = "none"
<1>1. /\ Len(w) \in Nat /\ Len(v) = Len(w) + 1 /\ v[1] = w[1]
      /\ 1 .. Len(v) = (1 .. Len(w)) \cup {Len(w) + 1}
      /\ \A i \in 1 .. Len(w) : v[i] = w[i]
  BY LenProperties DEF Extends
<1>2. IsWord(v) <=> IsWord(w) /\ c \in {"alpha", "digit"}
  BY <1>1 DEF IsWord, AllIn
<1>3. IsInt(v) <=> IsInt(w) /\ c = "digit"
  BY <1>1 DEF IsInt, AllIn
<1>4. IsFloat(v) <=> (IsInt(w) /\ c = "dot") \/ (IsFloat(w) /\ c = "digit")
  <2>1. ASSUME IsInt(w), c = "dot" PROVE IsFloat(v)
    <3>1. /\ Len(v) \in 2 .. Len(v) /\ v[Len(v)] = "dot"
          /\ \A i \in (1 .. Len(v)) \ {Len(v)} : v[i] = "digit"
      BY <1>1, <2>1 DEF IsInt, AllIn
    <3> QED
      BY <3>1 DEF IsFloat
  <2>2. ASSUME IsFloat(w), c = "digit" PROVE IsFloat(v)
    <3>1. PICK d \in 2 .. Len(w) :
            w[d] = "dot" /\ \A i \in (1 .. Len(w)) \ {d} : w[i] = "digit"
      BY <2>2 DEF IsFloat
    <3>2. d \in 2 .. Len(v) /\ v[d] = "dot"
      BY <1>1, <3>1
    <3>3. \A i \in (1 .. Len(v)) \ {d} : v[i] = "digit"
      BY <1>1, <2>2, <3>1
    <3> QED
      BY <3>2, <3>3 DEF IsFloat
  <2>3. ASSUME IsFloat(v) PROVE (IsInt(w) /\ c = "dot") \/ (IsFloat(w) /\ c = "digit")
    <3>1. PICK d \in 2 .. Len(v) :
            v[d] = "dot" /\ \A i \in (1 .. Len(v)) \ {d} : v[i] = "digit"
      BY <2>3 DEF IsFloat
    <3>2. CASE d = Len(w) + 1
      BY <1>1, <3>1, <3>2 DEF IsInt, AllIn
    <3>3. CASE d # Len(w) + 1
      BY <1>1, <3>1, <3>3 DEF IsFloat
    <3> QED
      BY <3>2, <3>3
  <2> QED
    BY <2>1, <2>2, <2>3
<1>5. /\ ~IsMark(v, "comma") /\ ~IsMark(v, "colon")
      /\ IsBreak(v) <=> Len(w) = 1 /\ w[1] = "cr" /\ c = "lf"
  <2>1. PICK n : n = Len(w)
    OBVIOUS
  <2>2. n \in Nat /\ n >= 1 /\ Len(v) = n + 1 /\ c = v[n + 1] /\ v[1] = w[1]
    BY <1>1, <2>1
  <2>3. n + 1 # 1 /\ (n + 1 = 2 <=> n = 1)
    BY <2>2
  <2>4. ~IsMark(v, "comma") /\ ~IsMark(v, "colon")
    BY <2>2, <2>3 DEF IsMark
  <2>5. IsBreak(v) <=> n = 1 /\ w[1] = "cr" /\ c = "lf"
    BY <2>2, <2>3 DEF IsBreak
  <2> QED
    BY <2>1, <2>4, <2>5
<1>6. /\ IsFloat(w) => w[1] = "digit" /\ Len(w) >= 2 /\ ~IsInt(w)
      /\ IsWord(w) => w[1] = "alpha"
      /\ IsInt(w) => w[1] = "digit"
      /\ IsBreak(w) => w[1] \in {"cr", "lf"}
      /\ IsMark(w, "comma") => w[1] = "comma"
      /\ IsMark(w, "colon") => w[1] = "colon"
  BY <1>1 DEF IsFloat, IsInt, IsWord, IsBreak, IsMark, AllIn
<1>7. /\ Kind(w) = "IDENTIFIER" <=> IsWord(w)
      /\ Kind(w) = "INT" <=> IsInt(w)
      /\ Kind(w) = "FLOAT" <=> IsFloat(w)
      /\ Kind(w) = "COMMA" <=> IsMark(w, "comma")
      /\ Kind(w) = "COLON" <=> IsMark(w, "colon")
  BY KindIs
<1>8. /\ Kind(v) = "IDENTIFIER" <=> IsWord(v)
      /\ Kind(v) = "INT" <=> IsInt(v)
      /\ Kind(v) = "FLOAT" <=> IsFloat(v)
      /\ ~IsWord(v) /\ ~IsInt(v) /\ ~IsFloat(v) /\ ~IsBreak(v) => Kind(v) = "none"
  BY <1>5, KindIs
<1>9. Grows(Kind(w), c, t) => Kind(v) = t
  BY <1>2, <1>3, <1>4, <1>7, <1>8 DEF Grows
<1>10. (/\ Kind(w) \in {"IDENTIFIER", "INT", "FLOAT"}
        /\ \A s : ~Grows(Kind(w), c, s)) => Kind(v) = "none"
  BY <1>2, <1>3, <1>4, <1>5, <1>6, <1>7, <1>8 DEF Grows
<1>11. /\ IsBreak(w) /\ ~(w[1] = "cr" /\ c = "lf") => Kind(v) = "none"
       /\ IsBreak(w) /\ Len(w) = 2 => Kind(v) = "none"
       /\ Kind(w) \in {"COMMA", "COLON"} => Kind(v) = "none"
  <2>1. ~IsWord(w) /\ ~IsInt(w) /\ ~IsFloat(w) /\ ~IsBreak(v) => Kind(v) = "none"
    BY <1>2, <1>3, <1>4, <1>8
  <2>2. IsBreak(w) \/ Kind(w) \in {"COMMA", "COLON"} =>
          ~IsWord(w) /\ ~IsInt(w) /\ ~IsFloat(w)
    BY <1>6, <1>7
  <2>3. Kind(w) \in {"COMMA", "COLON"} => ~IsBreak(v)
    BY <1>5, <1>6, <1>7
  <2>4. \/ IsBreak(w) /\ ~(w[1] = "cr" /\ c = "lf")
        \/ IsBreak(w) /\ Len(w) = 2
        => ~IsBreak(v)
    <3>1. Len(w) = 2 => ~(Len(w) = 1)
      OBVIOUS
    <3> QED
      BY ONLY <1>5, <3>1
  <2> QED
    BY <2>1, <2>2, <2>3, <2>4
<1> QED
  BY <1>9, <1>10, <1>11

(* Every beginning of a token is a token.                                  *)
LEMMA KindPrefix ==
  ASSUME NEW w \in Seq(Char), NEW v \in Seq(Char), Len(w) >= 1, Len(w) <= Len(v),
         \A i \in 1 .. Len(w) : w[i] = v[i], Kind(v) # "none"
  PROVE  Kind(w) # "none"
<1>1. Len(w) \in Nat /\ Len(v) \in Nat /\ w[1] = v[1]
  BY LenProperties
<1>2. \/ IsWord(v) \/ IsInt(v) \/ IsFloat(v) \/ IsMark(v, "comma")
      \/ IsMark(v, "colon") \/ IsBreak(v)
  BY KindIs
<1>3. IsWord(v) => IsWord(w)
  BY <1>1 DEF IsWord, AllIn
<1>4. IsInt(v) => IsInt(w)
  BY <1>1 DEF IsInt, AllIn
<1>5. IsFloat(v) => IsInt(w) \/ IsFloat(w)
  <2>1. SUFFICES ASSUME IsFloat(v) PROVE IsInt(w) \/ IsFloat(w)
    OBVIOUS
  <2>2. PICK d \in 2 .. Len(v) :
          v[d] = "dot" /\ \A i \in (1 .. Len(v)) \ {d} : v[i] = "digit"
    BY <2>1 DEF IsFloat
  <2>3. CASE d <= Len(w)
    BY <1>1, <2>2, <2>3 DEF IsFloat
  <2>4. CASE d > Len(w)
    BY <1>1, <2>2, <2>4 DEF IsInt, AllIn
  <2> QED
    BY <1>1, <2>3, <2>4
<1>6. /\ IsMark(v, "comma") => IsMark(w, "comma")
      /\ IsMark(v, "colon") => IsMark(w, "colon")
      /\ IsBreak(v) => IsBreak(w)
  <2>1. Len(v) = 1 => Len(w) = 1
    BY <1>1
  <2>2. Len(v) = 2 => Len(w) = 1 \/ (Len(w) = 2 /\ w[2] = v[2])
    <3>1. Len(w) = 2 => w[2] = v[2]
      OBVIOUS
    <3>2. Len(v) = 2 => Len(w) = 1 \/ Len(w) = 2
      BY ONLY <1>1, Len(w) >= 1, Len(w) <= Len(v)
    <3> QED
      BY <3>1, <3>2
  <2> QED
    BY <1>1, <2>1, <2>2 DEF IsMark, IsBreak
<1> QED
  BY <1>2, <1>3, <1>4, <1>5, <1>6, KindIs
-----------------------------------------------------------------------------
(* What Skip leaves                                                        *)

(* The positions of a text behind the first n.                             *)
From(text, n) == [i \in 1 .. Len(text) - n |-> n + i]

(* Skip stops at a position.                                               *)
Stops(text, p, E) == text[p] \in E \/ ~PassedOver(text, p)

(* What is left begins where Skip first stops.                             *)
LEMMA SkipIs ==
  ASSUME NEW text, NEW E, NEW S, NEW s \in Seq(S), NEW m \in 0 .. Len(s),
         \A i \in 1 .. m : ~Stops(text, s[i], E),
         m < Len(s) => Stops(text, s[m + 1], E)
  PROVE  Skip(text, s, E) = SubSeq(s, m + 1, Len(s))
<1> DEFINE from == {i \in 1 .. Len(s) : Stops(text, s[i], E)}
<1>1. Skip(text, s, E) =
        IF from = {} THEN <<>>
        ELSE SubSeq(s, CHOOSE i \in from : \A j \in from : i <= j, Len(s))
  BY DEF Skip, Stops
<1>2. Len(s) \in Nat /\ m \in Nat /\ m <= Len(s)
  BY LenProperties
<1>3. CASE m = Len(s)
  <2>1. from = {}
    BY <1>2, <1>3
  <2>2. SubSeq(s, m + 1, Len(s)) = <<>>
    BY <1>2, <1>3, SubSeqEmpty
  <2> QED
    BY <1>1, <2>1, <2>2
<1>4. CASE m < Len(s)
  <2>1. m + 1 \in from /\ \A j \in from : m + 1 <= j
    BY <1>2, <1>4
  <2>2. \A i \in from : (\A j \in from : i <= j) => i = m + 1
    BY <1>2, <2>1
  <2>3. (CHOOSE i \in from : \A j \in from : i <= j) = m + 1
    BY <2>1, <2>2
  <2> QED
    BY <1>1, <2>1, <2>3
<1> QED
  BY <1>2, <1>3, <1>4

(* It stops somewhere, or nothing is left.                                 *)
LEMMA SkipExists ==
  ASSUME NEW text, NEW E, NEW S, NEW s \in Seq(S)
  PROVE  \E m \in 0 .. Len(s) :
           /\ \A i \in 1 .. m : ~Stops(text, s[i], E)
           /\ m < Len(s) => Stops(text, s[m + 1], E)
           /\ Skip(text, s, E) = SubSeq(s, m + 1, Len(s))
<1> DEFINE from == {i \in 1 .. Len(s) : Stops(text, s[i], E)}
<1>1. Len(s) \in Nat
  BY LenProperties
<1>2. PICK m \in 0 .. Len(s) : /\ \A i \in 1 .. m : ~Stops(text, s[i], E)
                               /\ m < Len(s) => Stops(text, s[m + 1], E)
  <2>1. CASE from = {}
    BY <1>1, <2>1
  <2>2. CASE from # {}
    <3>1. from \subseteq Nat
      BY <1>1
    <3>2. IsWellFoundedOn(OpToRel(<, Nat), Nat)
      BY NatLessThanWellFounded
    <3>3. PICK x \in from : \A y \in from : ~(<<y, x>> \in OpToRel(<, Nat))
      BY <2>2, <3>1, <3>2, WFMin
    <3>4. \A y \in from : ~(y < x)
      BY <3>1, <3>3 DEF OpToRel
    <3>5. x - 1 \in 0 .. Len(s) /\ x \in 1 .. Len(s)
      BY <1>1
    <3>6. \A i \in 1 .. x - 1 : ~Stops(text, s[i], E)
      BY <1>1, <3>4, <3>5
    <3>7. (x - 1) + 1 = x /\ Stops(text, s[x], E)
      BY <3>5
    <3> QED
      BY <3>5, <3>6, <3>7
  <2> QED
    BY <2>1, <2>2
<1> QED
  BY <1>2, SkipIs

(* Nothing is skipped of what begins with a position it stops at.          *)
LEMMA SkipNone ==
  ASSUME NEW text, NEW E, NEW S, NEW s \in Seq(S), Len(s) >= 1,
         Stops(text, s[1], E)
  PROVE  Skip(text, s, E) = s
<1>1. 0 \in 0 .. Len(s) /\ 0 + 1 = 1
  BY LenProperties
<1>2. Skip(text, s, E) = SubSeq(s, 0 + 1, Len(s))
  BY <1>1, SkipIs
<1> QED
  BY <1>1, <1>2, SubSeqFull

(* The rest of a text, and the rest of that.                               *)
LEMMA FromType ==
  ASSUME NEW text \in Seq(Char), NEW n \in 0 .. Len(text)
  PROVE  /\ From(text, n) \in Seq(Position) /\ Len(From(text, n)) = Len(text) - n
         /\ \A i \in 1 .. Len(text) - n : From(text, n)[i] = n + i
<1>1. Len(text) \in Nat
  BY LenProperties
<1>2. Len(text) - n \in Nat /\ \A i \in 1 .. Len(text) - n : n + i \in Position
  BY <1>1 DEF Position
<1>3. From(text, n) \in Seq(Position)
  BY <1>2, IsASeq DEF From
<1>4. DOMAIN From(text, n) = 1 .. Len(text) - n
  BY DEF From
<1> QED
  BY <1>2, <1>3, <1>4, LenProperties DEF From

LEMMA FromRest ==
  ASSUME NEW text \in Seq(Char), NEW n \in 0 .. Len(text), NEW m \in 0 .. Len(text) - n
  PROVE  SubSeq(From(text, n), m + 1, Len(text) - n) = From(text, n + m)
<1>1. Len(text) \in Nat /\ n + m \in 0 .. Len(text) /\ Len(text) - n \in Nat
  BY LenProperties
<1> DEFINE r == SubSeq(From(text, n), m + 1, Len(text) - n)
<1>2. /\ r \in Seq(Position) /\ Len(r) = Len(text) - n - m
      /\ \A i \in 1 .. Len(text) - n - m : r[i] = From(text, n)[m + i]
  <2>1. /\ From(text, n) \in Seq(Position) /\ Len(From(text, n)) = Len(text) - n
    BY FromType
  <2>2. CASE m < Len(text) - n
    BY <1>1, <2>1, <2>2, SubSeqProperties
  <2>3. CASE m = Len(text) - n
    <3>1. r = <<>>
      BY <1>1, <2>1, <2>3, SubSeqEmpty
    <3> QED
      BY <1>1, <2>3, <3>1, EmptySeq
  <2> QED
    BY <2>2, <2>3
<1> HIDE DEF r
<1>3. /\ From(text, n + m) \in Seq(Position) /\ Len(From(text, n + m)) = Len(text) - (n + m)
      /\ \A i \in 1 .. Len(text) - (n + m) : From(text, n + m)[i] = n + m + i
  BY <1>1, FromType
<1>4. \A i \in 1 .. Len(text) - n - m : r[i] = n + m + i
  BY <1>1, <1>2, FromType
<1>5. Len(text) - n - m = Len(text) - (n + m)
  BY <1>1
<1>6. PICK f : f = From(text, n + m)
  OBVIOUS
<1>7. Len(r) = Len(f) /\ \A i \in 1 .. Len(r) : r[i] = f[i]
  BY <1>2, <1>3, <1>4, <1>5, <1>6
<1>8. f \in Seq(Position)
  BY <1>3, <1>6
<1>9. r = f
  BY <1>2, <1>7, <1>8, SeqEqual
<1> QED
  BY <1>6, <1>9 DEF r

(* Skip passes over what it does not stop at.                              *)
LEMMA SkipDrop ==
  ASSUME NEW text \in Seq(Char), NEW E, NEW a \in 0 .. Len(text),
         NEW b \in a .. Len(text), \A p \in a + 1 .. b : ~Stops(text, p, E)
  PROVE  Skip(text, From(text, a), E) = Skip(text, From(text, b), E)
<1>1. Len(text) \in Nat /\ b \in 0 .. Len(text)
  BY LenProperties
<1>2. /\ From(text, a) \in Seq(Position) /\ Len(From(text, a)) = Len(text) - a
      /\ From(text, b) \in Seq(Position) /\ Len(From(text, b)) = Len(text) - b
      /\ \A i \in 1 .. Len(text) - a : From(text, a)[i] = a + i
      /\ \A i \in 1 .. Len(text) - b : From(text, b)[i] = b + i
  BY <1>1, FromType
<1>3. PICK m \in 0 .. Len(text) - b :
        /\ \A i \in 1 .. m : ~Stops(text, From(text, b)[i], E)
        /\ m < Len(text) - b => Stops(text, From(text, b)[m + 1], E)
        /\ Skip(text, From(text, b), E) = SubSeq(From(text, b), m + 1, Len(text) - b)
  <2>1. PICK s : s = From(text, b)
    OBVIOUS
  <2>2. s \in Seq(Position) /\ Len(s) = Len(text) - b
    BY <1>2, <2>1
  <2>3. \E m \in 0 .. Len(s) :
          /\ \A i \in 1 .. m : ~Stops(text, s[i], E)
          /\ m < Len(s) => Stops(text, s[m + 1], E)
          /\ Skip(text, s, E) = SubSeq(s, m + 1, Len(s))
    BY <2>2, SkipExists
  <2> QED
    BY <2>1, <2>2, <2>3
<1>4. PICK k : k = (b - a) + m
  OBVIOUS
<1>5. k \in 0 .. Len(text) - a /\ a + k = b + m /\ k \in Nat
  BY <1>1, <1>3, <1>4
<1>6. \A i \in 1 .. k : ~Stops(text, From(text, a)[i], E)
  <2> SUFFICES ASSUME NEW i \in 1 .. k PROVE ~Stops(text, From(text, a)[i], E)
    OBVIOUS
  <2>1. From(text, a)[i] = a + i
    BY <1>1, <1>2, <1>5
  <2>2. CASE i <= b - a
    BY <1>1, <2>1, <2>2
  <2>3. CASE i > b - a
    <3>1. PICK j : j = i - (b - a)
      OBVIOUS
    <3>2. j \in 1 .. m /\ j \in 1 .. Len(text) - b /\ a + i = b + j
      BY <1>1, <1>3, <1>4, <2>3, <3>1
    <3>3. From(text, b)[j] = a + i
      BY <1>2, <3>2
    <3> QED
      BY <1>3, <2>1, <3>2, <3>3
  <2> QED
    BY <1>1, <2>2, <2>3
<1>7. k < Len(text) - a => Stops(text, From(text, a)[k + 1], E)
  <2> SUFFICES ASSUME k < Len(text) - a PROVE Stops(text, From(text, a)[k + 1], E)
    OBVIOUS
  <2>1. m < Len(text) - b /\ m + 1 \in 1 .. Len(text) - b /\ k + 1 \in 1 .. Len(text) - a
        /\ a + (k + 1) = b + (m + 1)
    BY <1>1, <1>3, <1>5
  <2>2. From(text, a)[k + 1] = a + (k + 1) /\ From(text, b)[m + 1] = b + (m + 1)
    BY <1>2, <2>1
  <2> QED
    BY <1>3, <2>1, <2>2
<1>8. Skip(text, From(text, a), E) = SubSeq(From(text, a), k + 1, Len(text) - a)
  <2>1. PICK s : s = From(text, a)
    OBVIOUS
  <2>2. s \in Seq(Position) /\ Len(s) = Len(text) - a /\ k \in 0 .. Len(s)
    BY <1>2, <1>5, <2>1
  <2>3. /\ \A i \in 1 .. k : ~Stops(text, s[i], E)
        /\ k < Len(s) => Stops(text, s[k + 1], E)
    BY <1>6, <1>7, <2>1, <2>2
  <2>4. Skip(text, s, E) = SubSeq(s, k + 1, Len(s))
    BY ONLY <2>2, <2>3, SkipIs
  <2> QED
    BY <2>1, <2>2, <2>4
<1>9. SubSeq(From(text, a), k + 1, Len(text) - a) = From(text, a + k)
      /\ SubSeq(From(text, b), m + 1, Len(text) - b) = From(text, b + m)
  BY <1>1, <1>3, <1>5, FromRest
<1> QED
  BY <1>3, <1>5, <1>8, <1>9

(* A position before the rest of a text.                                   *)
LEMMA FromCons ==
  ASSUME NEW text \in Seq(Char), NEW n \in 1 .. Len(text)
  PROVE  <<n>> \o From(text, n) = From(text, n - 1)
<1>1. Len(text) \in Nat /\ n - 1 \in 0 .. Len(text) /\ n \in 0 .. Len(text)
  BY LenProperties
<1>2. PICK f : f = From(text, n)
  OBVIOUS
<1>3. PICK g : g = From(text, n - 1)
  OBVIOUS
<1>4. f \in Seq(Position) /\ Len(f) = Len(text) - n
      /\ \A i \in 1 .. Len(text) - n : f[i] = n + i
  BY ONLY <1>1, <1>2, text \in Seq(Char), FromType
<1>5. g \in Seq(Position) /\ Len(g) = Len(text) - (n - 1)
      /\ \A i \in 1 .. Len(text) - (n - 1) : g[i] = n - 1 + i
  BY ONLY <1>1, <1>3, text \in Seq(Char), FromType
<1>6. n \in Position /\ <<n>> \in Seq(Position) /\ Len(<<n>>) = 1 /\ <<n>>[1] = n
  BY DEF Position
<1>7. PICK h : h = <<n>> \o f
  OBVIOUS
<1>8. /\ h \in Seq(Position) /\ Len(h) = 1 + Len(f)
      /\ h[1] = n /\ \A i \in 1 .. Len(f) : h[i + 1] = f[i]
  <2>1. PICK o : o = <<n>>
    OBVIOUS
  <2>2. o \in Seq(Position) /\ Len(o) = 1 /\ o[1] = n
    BY <1>6, <2>1
  <2>3. /\ o \o f \in Seq(Position) /\ Len(o \o f) = Len(o) + Len(f)
        /\ \A i \in 1 .. Len(o) + Len(f) : (o \o f)[i] = IF i <= Len(o) THEN o[i]
                                                       ELSE f[i - Len(o)]
    BY ONLY <1>4, <2>2, ConcatProperties
  <2>4. h = o \o f
    BY <1>7, <2>1
  <2>5. Len(f) \in Nat
    BY <1>4, LenProperties
  <2>6. /\ h \in Seq(Position) /\ Len(h) = 1 + Len(f)
        /\ \A i \in 1 .. 1 + Len(f) : h[i] = IF i <= 1 THEN o[i] ELSE f[i - 1]
    BY ONLY <2>2, <2>3, <2>4
  <2>7. 1 \in 1 .. 1 + Len(f)
        /\ \A i \in 1 .. Len(f) : /\ i + 1 \in 1 .. 1 + Len(f)
                                  /\ ~(i + 1 <= 1) /\ (i + 1) - 1 = i
    BY ONLY <2>5
  <2> QED
    BY ONLY <2>2, <2>6, <2>7
<1>9. Len(h) = Len(g) /\ Len(h) \in Nat
  BY <1>1, <1>4, <1>5, <1>8
<1>10. ASSUME NEW i \in 1 .. Len(h) PROVE h[i] = g[i]
  <2>1. i \in Nat /\ g[i] = n - 1 + i
    BY <1>1, <1>5, <1>9
  <2>2. CASE i = 1
    BY <1>1, <1>8, <2>1, <2>2
  <2>3. CASE i > 1
    <3>1. i - 1 \in 1 .. Len(text) - n /\ i - 1 \in 1 .. Len(f) /\ (i - 1) + 1 = i
      BY <1>1, <1>4, <1>8, <2>1, <2>3
    <3>2. h[i] = n + (i - 1)
      BY <1>4, <1>8, <3>1
    <3> QED
      BY <1>1, <2>1, <3>2
  <2> QED
    BY <1>9, <2>1, <2>2, <2>3
<1>11. h = g
  BY ONLY <1>5, <1>8, <1>9, <1>10, SeqEqual
<1> QED
  BY <1>2, <1>3, <1>7, <1>11

-----------------------------------------------------------------------------
(* What is left, by the variables of the tokenizer                         *)

(* EOF in hand, and whether the buffer holds the character that reads so.  *)
EofInHand ==
  (pc = "dispatch" /\ cur = EOF) =>
     IF buf_len = 0 THEN Consumed = Len(input)
                    ELSE Consumed >= 1 /\ ReadsAsEof(Consumed)

(* Where the text behind the unfinished token begins.                      *)
Start ==
  IF pc = "dispatch" /\ cur = EOF /\ buf_len > 0 THEN Consumed - 1 ELSE Settled

LEMMA StartType ==
  ASSUME TypeOK, HandOK, EofInHand
  PROVE  /\ Len(input) \in Nat /\ Consumed \in 0 .. Len(input)
         /\ Start \in 0 .. Len(input) /\ Start <= Consumed
         /\ Settled \in 0 .. Consumed
         /\ Start < Settled => pc = "dispatch" /\ cur = EOF /\ buf_len > 0
<1>1. /\ Consumed \in 0 .. fread_pos /\ fread_pos \in 0 .. Len(input)
      /\ Settled \in Nat /\ Settled \in {Consumed, Consumed - 1}
      /\ Len(input) \in Nat /\ buf_len \in Nat
  BY ConsumedType, SettledType, LenProperties DEF TypeOK, Least
<1>2. \/ Start = Settled
      \/ /\ pc = "dispatch" /\ cur = EOF /\ buf_len > 0
         /\ Start = Consumed - 1 /\ Consumed >= 1
  BY <1>1 DEF Start, EofInHand
<1>3. Consumed \in Nat /\ Consumed <= Len(input) /\ Settled <= Consumed
  BY <1>1
<1>4. Start \in Nat /\ Start <= Consumed
  BY <1>1, <1>2, <1>3
<1>5. Start < Settled => pc = "dispatch" /\ cur = EOF /\ buf_len > 0
  BY ONLY <1>1, <1>2
<1>6. /\ Consumed \in 0 .. Len(input) /\ Settled \in 0 .. Consumed
      /\ Start \in 0 .. Len(input)
  BY ONLY <1>1, <1>3, <1>4
<1> QED
  BY <1>1, <1>4, <1>5, <1>6

LEMMA LeftIs ==
  ASSUME TypeOK, HandOK, EofInHand
  PROVE  Left = token \o From(input, Start)
<1>1. /\ Len(input) \in Nat /\ Consumed \in 0 .. Len(input)
      /\ input \in Seq(Char) /\ token \in Seq(Position) /\ buf_len \in Nat
  BY StartType DEF TypeOK
<1>2. PICK put_back : put_back = IF last_char = NO_LAST_CHAR THEN <<>> ELSE <<last_char>>
  OBVIOUS
<1>3. PICK in_hand : in_hand = IF pc = "dispatch" /\ (cur # EOF \/ buf_len > 0)
                               THEN <<Consumed>> ELSE <<>>
  OBVIOUS
<1>4. PICK unread : unread = From(input, Consumed)
  OBVIOUS
<1>5. Left = token \o put_back \o in_hand \o unread
  BY <1>2, <1>3, <1>4 DEF Left, From
<1>6. unread \in Seq(Position) /\ <<>> \o unread = unread /\ token \o <<>> = token
  BY <1>1, <1>4, FromType, ConcatEmptySeq
<1>7. CASE Start = Consumed
  <2>1. put_back = <<>> /\ in_hand = <<>>
    <3>1. Settled = Consumed /\ ~(pc = "dispatch" /\ cur = EOF /\ buf_len > 0)
      BY <1>1, <1>7 DEF Start, Settled
    <3>2. last_char = NO_LAST_CHAR /\ ~(pc = "dispatch" /\ cur # EOF)
      BY <1>1, <3>1 DEF Settled
    <3> QED
      BY <1>2, <1>3, <3>1, <3>2
  <2> QED
    BY <1>4, <1>5, <1>6, <1>7, <2>1
<1>8. CASE Start = Consumed - 1
  <2>1. \/ put_back = <<Consumed>> /\ in_hand = <<>>
        \/ put_back = <<>> /\ in_hand = <<Consumed>>
    BY <1>1, <1>2, <1>3, <1>8 DEF Start, Settled, HandOK
  <2>2. Consumed \in 1 .. Len(input)
    BY <1>1, <1>8, StartType
  <2>3. <<Consumed>> \o unread = From(input, Start)
    BY <1>1, <1>4, <1>8, <2>2, FromCons
  <2>4. <<Consumed>> \in Seq(Position) /\ token \o <<Consumed>> \o <<>> = token \o <<Consumed>>
    <3>1. Consumed \in Position
      BY <2>2 DEF Position
    <3>2. <<Consumed>> \in Seq(Position)
      BY <3>1
    <3>3. token \o <<Consumed>> \in Seq(Position)
      BY <1>1, <3>2, ConcatProperties
    <3> QED
      BY <3>2, <3>3, ConcatEmptySeq
  <2>5. Left = token \o <<Consumed>> \o unread
    BY <1>5, <1>6, <2>1, <2>4
  <2>6. token \o <<Consumed>> \o unread = token \o (<<Consumed>> \o unread)
    BY <1>1, <1>6, <2>4, ConcatAssociative
  <2> QED
    BY <2>3, <2>5, <2>6
<1> QED
  BY <1>1, <1>7, <1>8, SettledType DEF Start

-----------------------------------------------------------------------------
(* The Lexer's operators are those of Lexemes, on what is left.            *)
LeftBar == Skip(input, Left, EofChars)

SpellBar(k) == [i \in 1 .. k |-> input[LeftBar[i]]]

LEMMA KindSame == ASSUME NEW w PROVE L!Kind(w) = Kind(w)
BY DEF L!Kind, Kind, L!AllIn, AllIn

LEMMA SkipSame ==
  ASSUME NEW text, NEW left, NEW E
  PROVE  L!Skip(text, left, E) = Skip(text, left, E)
<1>1. \A p : L!PassedOver(text, p) <=> PassedOver(text, p)
  BY DEF L!PassedOver, PassedOver, L!InComment, InComment, L!Newlines, Newlines
<1> DEFINE F == {i \in 1 .. Len(left) : \/ text[left[i]] \in E
                                       \/ ~L!PassedOver(text, left[i])}
           G == {i \in 1 .. Len(left) : \/ text[left[i]] \in E
                                       \/ ~PassedOver(text, left[i])}
           FromFirst(f) == IF f = {} THEN <<>>
                           ELSE SubSeq(left, CHOOSE i \in f : \A j \in f : i <= j, Len(left))
<1>2. F = G
  BY <1>1
<1>3. L!Skip(text, left, E) = FromFirst(F)
  BY DEF L!Skip
<1>4. Skip(text, left, E) = FromFirst(G)
  BY DEF Skip
<1> HIDE DEF F, G, FromFirst
<1> QED
  BY <1>2, <1>3, <1>4

(* What the first positions left spell.                                    *)
LEMMA SpellBarType ==
  ASSUME input \in Seq(Char), LeftBar \in Seq(1 .. Len(input)), NEW k \in 0 .. Len(LeftBar)
  PROVE  /\ SpellBar(k) \in Seq(Char) /\ Len(SpellBar(k)) = k
         /\ \A i \in 1 .. k : SpellBar(k)[i] = input[LeftBar[i]]
<1>1. k \in Nat /\ Len(LeftBar) \in Nat
  BY LenProperties
<1>2. ASSUME NEW i \in 1 .. k PROVE input[LeftBar[i]] \in Char
  <2>1. LeftBar[i] \in 1 .. Len(input)
    BY <1>1, ElementOfSeq
  <2> QED
    BY <2>1, ElementOfSeq
<1>3. SpellBar(k) \in Seq(Char)
  BY <1>1, <1>2, IsASeq DEF SpellBar
<1> QED
  BY <1>1, <1>3, LenProperties DEF SpellBar

(* The longest token, from its length and the character behind it.         *)
LEMMA LongestIs ==
  ASSUME input \in Seq(Char), LeftBar \in Seq(1 .. Len(input)),
         NEW k \in 0 .. Len(LeftBar), k <= MaxTokenLen,
         k > 0 => Kind(SpellBar(k)) # "none",
         \/ k = Len(LeftBar) \/ k = MaxTokenLen
         \/ Kind(SpellBar(k + 1)) = "none"
  PROVE  L!LongestToken = k
<1>1. k \in Nat /\ Len(LeftBar) \in Nat /\ MaxTokenLen \in Nat
  BY LenProperties, LimitsAssumption
<1> DEFINE lengths == {j \in 1 .. Len(LeftBar) : j <= MaxTokenLen
                                                 /\ Kind(SpellBar(j)) # "none"}
           Longest(f) == IF f = {} THEN 0 ELSE CHOOSE j \in f : \A i \in f : i <= j
<1>2. L!LongestToken = Longest(lengths)
  <2> DEFINE F == {j \in 1 .. Len(LeftBar) : j <= MaxTokenLen
                                             /\ L!Kind(L!Spelling(j)) # "none"}
  <2>1. \A j : L!Spelling(j) = SpellBar(j)
    BY DEF L!Spelling, SpellBar, LeftBar
  <2>2. F = lengths
    BY <2>1, KindSame
  <2>3. L!LongestToken = Longest(F)
    BY DEF L!LongestToken, LeftBar
  <2> HIDE DEF F, lengths, Longest
  <2> QED
    BY <2>2, <2>3
<1>3. ASSUME NEW j \in lengths PROVE j <= k
  <2> SUFFICES ASSUME j > k PROVE FALSE
    BY <1>1
  <2>1. /\ j \in 1 .. Len(LeftBar) /\ j <= MaxTokenLen /\ Kind(SpellBar(j)) # "none"
        /\ k + 1 \in 1 .. Len(LeftBar) /\ k + 1 <= j
    BY <1>1
  <2>2. Kind(SpellBar(k + 1)) = "none"
    BY <1>1, <2>1
  <2>3. j \in 0 .. Len(LeftBar) /\ k + 1 \in 0 .. Len(LeftBar) /\ k + 1 >= 1
    BY <2>1
  <2>4. /\ SpellBar(j) \in Seq(Char) /\ Len(SpellBar(j)) = j
        /\ \A i \in 1 .. j : SpellBar(j)[i] = input[LeftBar[i]]
    BY <2>3, SpellBarType
  <2>5. /\ SpellBar(k + 1) \in Seq(Char) /\ Len(SpellBar(k + 1)) = k + 1
        /\ \A i \in 1 .. k + 1 : SpellBar(k + 1)[i] = input[LeftBar[i]]
    BY <2>3, SpellBarType
  <2>6. PICK v : v = SpellBar(j)
    OBVIOUS
  <2>7. PICK w : w = SpellBar(k + 1)
    OBVIOUS
  <2>8. \A i \in 1 .. Len(w) : w[i] = v[i]
    <3>1. Len(w) = k + 1 /\ \A i \in 1 .. k + 1 : w[i] = input[LeftBar[i]]
      BY <2>5, <2>7
    <3>2. \A i \in 1 .. j : v[i] = input[LeftBar[i]]
      BY <2>4, <2>6
    <3>3. \A i \in 1 .. k + 1 : i \in 1 .. j
      BY ONLY <1>1, <2>1
    <3> QED
      BY ONLY <3>1, <3>2, <3>3
  <2>9. w \in Seq(Char) /\ v \in Seq(Char) /\ Len(w) >= 1 /\ Len(w) <= Len(v)
        /\ Kind(v) # "none" /\ Kind(w) = "none"
    BY <2>1, <2>2, <2>3, <2>4, <2>5, <2>6, <2>7
  <2> QED
    BY ONLY <2>8, <2>9, KindPrefix
<1>4. CASE k = 0
  <2>1. lengths = {}
    BY <1>1, <1>3, <1>4
  <2> QED
    BY <1>2, <1>4, <2>1
<1>5. CASE k > 0
  <2>1. k \in lengths
    BY <1>1, <1>5
  <2>2. \A j \in lengths : j \in Nat
    BY <1>1
  <2>3. \A i \in lengths : (\A j \in lengths : j <= i) => i = k
    BY <1>1, <1>3, <2>1, <2>2
  <2> HIDE DEF lengths
  <2>4. (CHOOSE j \in lengths : \A i \in lengths : i <= j) = k
    BY <1>3, <2>1, <2>3
  <2> QED
    BY <1>2, <2>1, <2>4
<1> QED
  BY <1>1, <1>4, <1>5

-----------------------------------------------------------------------------
(* A text that is left, s: the positions v and what is behind the first n. *)
Joined(text, v, n, s) ==
  /\ s \in Seq(1 .. Len(text)) /\ Len(s) = Len(v) + (Len(text) - n)
  /\ Len(v) \in 0 .. Len(s)
  /\ \A i \in 1 .. Len(v) : s[i] = v[i]
  /\ \A i \in 1 .. Len(text) - n : s[Len(v) + i] = n + i
  /\ SubSeq(s, 1, Len(v)) = v
  /\ \A m \in 0 .. Len(text) - n :
       SubSeq(s, Len(v) + m + 1, Len(s)) = From(text, n + m)

LEMMA ConcatFrom ==
  ASSUME NEW text \in Seq(Char), NEW v \in Seq(1 .. Len(text)), NEW n \in 0 .. Len(text)
  PROVE  Joined(text, v, n, v \o From(text, n))
<1> SUFFICES ASSUME NEW s, s = v \o From(text, n)
             PROVE  Joined(text, v, n, s)
  OBVIOUS
<1> DEFINE S == 1 .. Len(text)
<1>1. Len(text) \in Nat /\ Len(v) \in Nat /\ n \in Nat /\ n <= Len(text)
  BY LenProperties
<1>2. PICK f : f = From(text, n)
  OBVIOUS
<1>3. /\ Len(f) = Len(text) - n
      /\ \A i \in 1 .. Len(text) - n : f[i] = n + i
      /\ f = [i \in 1 .. Len(text) - n |-> n + i]
  BY <1>2, FromType DEF From
<1>4. f \in Seq(S)
  <2>1. Len(text) - n \in Nat /\ \A i \in 1 .. Len(text) - n : n + i \in S
    BY <1>1
  <2>2. [i \in 1 .. Len(text) - n |-> n + i] \in Seq(S)
    BY <2>1, IsASeq
  <2> QED
    BY <1>3, <2>2
<1>5. v \in Seq(S)
  OBVIOUS
<1> HIDE DEF S
<1>6. /\ s \in Seq(S) /\ Len(s) = Len(v) + Len(f)
      /\ \A i \in 1 .. Len(v) + Len(f) : s[i] = IF i <= Len(v) THEN v[i] ELSE f[i - Len(v)]
  BY <1>2, <1>4, <1>5, ConcatProperties
<1>7. \A i \in 1 .. Len(v) : s[i] = v[i]
  BY <1>1, <1>3, <1>6
<1>8. ASSUME NEW i \in 1 .. Len(text) - n PROVE s[Len(v) + i] = n + i
  <2>1. /\ Len(v) + i \in 1 .. Len(v) + Len(f) /\ ~(Len(v) + i <= Len(v))
        /\ (Len(v) + i) - Len(v) = i
    BY <1>1, <1>3
  <2> QED
    BY <1>3, <1>6, <2>1
<1>9. SubSeq(s, 1, Len(v)) = v
  <2>1. CASE Len(v) = 0
    BY <1>5, <2>1, SubSeqEmpty, EmptySeq
  <2>2. CASE Len(v) > 0
    <3>1. 1 \in 1 .. Len(v) /\ Len(v) \in 1 .. Len(v)
      BY <1>1, <2>2
    <3>2. SubSeq(v \o f, 1, Len(v)) = SubSeq(v, 1, Len(v))
      BY ONLY <1>4, <1>5, <3>1, SubSeqOfConcat1
    <3>3. SubSeq(v, 1, Len(v)) = v
      BY ONLY <1>5, SubSeqFull
    <3> QED
      BY <1>2, <3>2, <3>3
  <2> QED
    BY <1>1, <2>1, <2>2
<1>10. ASSUME NEW m \in 0 .. Len(text) - n
       PROVE  SubSeq(s, Len(v) + m + 1, Len(s)) = From(text, n + m)
  <2>1. PICK r : r = SubSeq(s, Len(v) + m + 1, Len(s))
    OBVIOUS
  <2>2. PICK g : g = From(text, n + m)
    OBVIOUS
  <2>3. PICK l : l = Len(v)
    OBVIOUS
  <2>4. PICK t : t = Len(text)
    OBVIOUS
  <2>5. /\ l \in Nat /\ t \in Nat /\ m \in Nat /\ m <= t - n /\ Len(s) = l + (t - n)
        /\ n \in Nat /\ n <= t
    BY <1>1, <1>3, <1>6, <2>3, <2>4
  <2>6. \A i \in (l + m + 1) .. (l + (t - n)) : i \in 1 .. Len(s)
    BY ONLY <2>5
  <2>7. \A i \in (l + m + 1) .. (l + (t - n)) : s[i] \in S
    BY ONLY <1>6, <2>6, ElementOfSeq
  <2>8. PICK a, b : a = l + m + 1 /\ b = l + (t - n)
    OBVIOUS
  <2>9. a \in Int /\ b \in Int /\ \A i \in a .. b : s[i] \in S
    BY ONLY <2>5, <2>7, <2>8
  <2>10. /\ r \in Seq(S)
         /\ Len(r) = IF a <= b THEN b - a + 1 ELSE 0
         /\ \A i \in 1 .. b - a + 1 : r[i] = s[a + i - 1]
    <3>1. r = SubSeq(s, a, b)
      BY <2>1, <2>3, <2>5, <2>8
    <3> QED
      BY ONLY <2>9, <3>1, SubSeqProperties
  <2>11. Len(r) = t - (n + m)
    BY ONLY <2>5, <2>8, <2>10
  <2>12. ASSUME NEW i \in 1 .. t - (n + m) PROVE r[i] = n + m + i
    <3>1. /\ i \in 1 .. b - a + 1
          /\ a + i - 1 = l + (m + i) /\ m + i \in 1 .. t - n
          /\ n + (m + i) = n + m + i
      BY <2>5, <2>8
    <3>2. s[l + (m + i)] = n + (m + i)
      BY ONLY <1>8, <2>3, <2>4, <3>1
    <3> QED
      BY <2>10, <3>1, <3>2
  <2>13. n + m \in 0 .. Len(text)
    BY ONLY <2>4, <2>5
  <2>14. /\ g \in Seq(Position) /\ Len(g) = t - (n + m)
         /\ \A i \in 1 .. t - (n + m) : g[i] = n + m + i
    BY <2>2, <2>4, <2>13, FromType
  <2>15. r \in Seq(Position)
    <3>1. S \subseteq Position
      BY <1>1 DEF S, Position
    <3>2. \A i \in 1 .. Len(r) : r[i] \in Position
      BY <2>10, <3>1, ElementOfSeq
    <3>3. r \in Seq(Position)
      BY <2>10, <3>1
    <3> QED
      BY <3>3
  <2>16. Len(r) = Len(g) /\ \A i \in 1 .. Len(r) : r[i] = g[i]
    BY ONLY <2>11, <2>12, <2>14
  <2>17. r = g
    BY ONLY <2>14, <2>15, <2>16, SeqEqual
  <2> QED
    BY <2>1, <2>2, <2>17
<1>11. Len(v) \in 0 .. Len(s)
  BY <1>1, <1>3, <1>6
<1>12. s \in Seq(1 .. Len(text))
  BY <1>6 DEF S
<1>13. Len(s) = Len(v) + (Len(text) - n)
  BY <1>3, <1>6
<1> QED
  BY ONLY <1>7, <1>8, <1>9, <1>10, <1>11, <1>12, <1>13 DEF Joined

-----------------------------------------------------------------------------
(* The steps of the Lexer, on what the tokenizer makes of its variables.   *)
TokensBar ==
  [i \in 1 .. Len(returned) |-> [token_type |-> returned[i].token_type,
                                 span |-> returned[i].span]]
OutcomeBar == CASE status = 0   -> "token"
                [] status = EOF -> "end"
                [] OTHER        -> "error"

LEMMA TakeTokenIs ==
  ASSUME NEW k, L!LongestToken = k, k > 0,
         NEW kind, kind = Kind(SpellBar(k)),
         NEW next, next = IF k < Len(LeftBar) THEN input[LeftBar[k + 1]] ELSE "end",
         NEW from, from = IF /\ kind \notin {"COMMA", "COLON"}
                             /\ SpellBar(k) # <<"cr", "lf">>
                             /\ next \in EofChars
                          THEN k + 2 ELSE k + 1,
         kind \in {"IDENTIFIER", "INT", "FLOAT"} =>
           next \in Delimiters \cup EofChars \cup {"end"},
         TokensBar' = Append(TokensBar, [token_type |-> kind,
                                         span |-> SubSeq(LeftBar, 1, k)]),
         LeftBar' = Skip(input, SubSeq(LeftBar, from, Len(LeftBar)), EofChars),
         OutcomeBar' = "token", input' = input
  PROVE  L!TakeToken
<1>1. L!Spelling(k) = SpellBar(k) /\ L!Kind(L!Spelling(k)) = kind
  BY KindSame DEF L!Spelling, SpellBar, LeftBar
<1>2. \A i : L!SkipFrom(i) = Skip(input, SubSeq(LeftBar, i, Len(LeftBar)), EofChars)
  BY SkipSame DEF L!SkipFrom, LeftBar
<1>3. LeftBar' = L!SkipFrom(from)
  BY <1>2
<1>4. L!Delimiters = Delimiters
  BY DEF L!Delimiters, Delimiters, L!Newlines, Newlines
<1> QED
  BY <1>1, <1>3, <1>4 DEF L!TakeToken, LeftBar, TokensBar, OutcomeBar

LEMMA RejectCharacterIs ==
  ASSUME NEW k, L!LongestToken = k, k < Len(LeftBar),
         NEW next, next = input[LeftBar[k + 1]], next \notin EofChars,
         k = 0 \/ /\ Kind(SpellBar(k)) \in {"IDENTIFIER", "INT", "FLOAT"}
                  /\ next \notin Delimiters,
         LeftBar' = Skip(input, SubSeq(LeftBar, 1, k) \o SubSeq(LeftBar, k + 2, Len(LeftBar)),
                         EofChars),
         OutcomeBar' = "error", UNCHANGED <<input, TokensBar>>
  PROVE  L!RejectCharacter
<1>1. L!Spelling(k) = SpellBar(k) /\ L!Kind(L!Spelling(k)) = Kind(SpellBar(k))
  BY KindSame DEF L!Spelling, SpellBar, LeftBar
<1>2. L!Delimiters = Delimiters
  BY DEF L!Delimiters, Delimiters, L!Newlines, Newlines
<1>3. LeftBar' = L!Skip(input, SubSeq(LeftBar, 1, k) \o SubSeq(LeftBar, k + 2, Len(LeftBar)),
                        EofChars)
  BY SkipSame
<1> QED
  BY <1>1, <1>2, <1>3 DEF L!RejectCharacter, LeftBar, TokensBar, OutcomeBar

LEMMA FindEndIs ==
  ASSUME LeftBar = <<>> \/ input[LeftBar[1]] \in EofChars,
         LeftBar' = IF LeftBar = <<>> THEN LeftBar
                    ELSE Skip(input, SubSeq(LeftBar, 2, Len(LeftBar)), EofChars),
         OutcomeBar' = "end", UNCHANGED <<input, TokensBar>>
  PROVE  L!FindEnd
<1>1. L!SkipFrom(2) = Skip(input, SubSeq(LeftBar, 2, Len(LeftBar)), EofChars)
  BY SkipSame DEF L!SkipFrom, LeftBar
<1> QED
  BY <1>1 DEF L!FindEnd, LeftBar, TokensBar, OutcomeBar

LEMMA ChangeFileIs ==
  ASSUME NEW n \in 0 .. Len(input), NEW k \in 0 .. Len(LeftBar), n <= Len(input'),
         SubSeq(input', 1, n) = SubSeq(input, 1, n),
         \A p \in n + 1 .. Len(input) :
           PassedOver(input, p) \/ \E i \in 1 .. Len(LeftBar) : LeftBar[i] = p,
         \A i \in 1 .. Len(LeftBar) : LeftBar[i] <= n <=> i <= k,
         LeftBar' = Skip(input', SubSeq(LeftBar, 1, k) \o From(input', n), EofChars),
         UNCHANGED <<TokensBar, OutcomeBar>>
  PROVE  L!ChangeFile
<1>1. \A p : L!PassedOver(input, p) <=> PassedOver(input, p)
  BY DEF L!PassedOver, PassedOver, L!InComment, InComment, L!Newlines, Newlines
<1>2. LeftBar' = L!Skip(input', SubSeq(LeftBar, 1, k) \o
                                [i \in 1 .. Len(input') - n |-> n + i], EofChars)
  BY SkipSame DEF From
<1> QED
  BY <1>1, <1>2 DEF L!ChangeFile, LeftBar, TokensBar, OutcomeBar

LEMMA StutterIs ==
  ASSUME LeftBar' = LeftBar, UNCHANGED <<input, returned, status>>
  PROVE  UNCHANGED <<input, LeftBar, TokensBar, OutcomeBar>>
BY DEF TokensBar, OutcomeBar

(* A token returned is a token more of the Lexer's.                        *)
LEMMA TokensExtend ==
  ASSUME TypeOK, NEW type \in TokenType, NEW span \in Seq(Position),
         ReturnToken(type, span)
  PROVE  /\ TokensBar' = Append(TokensBar, [token_type |-> type, span |-> span])
         /\ OutcomeBar' = "token"
<1> DEFINE Word == [token_type : TokenType, span : Seq(Position)]
           t == [token_type |-> type, span |-> span]
<1>1. /\ Len(returned) \in Nat /\ Len(returned') = Len(returned) + 1
      /\ returned'[Len(returned) + 1].span = span
      /\ returned'[Len(returned) + 1].token_type = type
      /\ \A i \in 1 .. Len(returned) : returned'[i] = returned[i]
  BY ReturnTokenExtends
<1>2. \A i \in 1 .. Len(returned) :
        [token_type |-> returned[i].token_type, span |-> returned[i].span] \in Word
  <2> SUFFICES ASSUME NEW i \in 1 .. Len(returned)
               PROVE  [token_type |-> returned[i].token_type,
                       span |-> returned[i].span] \in Word
    OBVIOUS
  <2>1. returned[i] \in Token
    BY ElementOfSeq DEF TypeOK
  <2> QED
    BY <2>1 DEF Token
<1>3. t \in Word
  OBVIOUS
<1>4. TokensBar \in Seq(Word) /\ Len(TokensBar) = Len(returned)
      /\ \A i \in 1 .. Len(returned) :
           TokensBar[i] = [token_type |-> returned[i].token_type, span |-> returned[i].span]
  <2>1. TokensBar \in Seq(Word)
    BY <1>1, <1>2, IsASeq DEF TokensBar
  <2>2. DOMAIN TokensBar = 1 .. Len(returned)
    BY DEF TokensBar
  <2>3. Len(TokensBar) = Len(returned)
    BY <1>1, <2>1, <2>2, LenProperties
  <2> QED
    BY <2>1, <2>3 DEF TokensBar
<1> HIDE DEF Word
<1>5. PICK a : a = Append(TokensBar, t)
  OBVIOUS
<1>6. /\ a \in Seq(Word) /\ Len(a) = Len(returned) + 1
      /\ a[Len(returned) + 1] = t
      /\ \A i \in 1 .. Len(returned) : a[i] = TokensBar[i]
  BY <1>3, <1>4, <1>5, AppendProperties
<1>7. PICK b : b = TokensBar'
  OBVIOUS
<1>8. b = [i \in 1 .. Len(returned) + 1 |-> [token_type |-> returned'[i].token_type,
                                             span |-> returned'[i].span]]
  BY <1>1, <1>7 DEF TokensBar
<1>9. \A i \in 1 .. Len(returned) + 1 : b[i] = a[i]
  <2> SUFFICES ASSUME NEW i \in 1 .. Len(returned) + 1 PROVE b[i] = a[i]
    OBVIOUS
  <2>1. CASE i = Len(returned) + 1
    BY <1>1, <1>6, <1>8, <2>1
  <2>2. CASE i # Len(returned) + 1
    <3>1. i \in 1 .. Len(returned)
      BY <1>1, <2>2
    <3>2. returned'[i] = returned[i]
          /\ a[i] = [token_type |-> returned[i].token_type, span |-> returned[i].span]
      BY <1>1, <1>4, <1>6, <3>1
    <3> QED
      BY <1>8, <3>2
  <2> QED
    BY <2>1, <2>2
<1>10. a = [i \in 1 .. Len(returned) + 1 |-> a[i]]
  BY <1>1, <1>6, LenProperties
<1>11. b = [i \in 1 .. Len(returned) + 1 |-> a[i]]
  BY ONLY <1>8, <1>9
<1>12. OutcomeBar' = "token"
  BY DEF ReturnToken, OutcomeBar, EOF
<1> QED
  BY <1>5, <1>7, <1>10, <1>11, <1>12

-----------------------------------------------------------------------------
(* What a sequence of positions spells.                                    *)
Spell(s) == [i \in 1 .. Len(s) |-> input[s[i]]]

LEMMA SpellType ==
  ASSUME input \in Seq(Char), NEW s \in Seq(1 .. Len(input))
  PROVE  /\ Spell(s) \in Seq(Char) /\ Len(Spell(s)) = Len(s)
         /\ \A i \in 1 .. Len(s) : Spell(s)[i] = input[s[i]]
<1>1. Len(s) \in Nat
  BY LenProperties
<1>2. ASSUME NEW i \in 1 .. Len(s) PROVE input[s[i]] \in Char
  <2>1. s[i] \in 1 .. Len(input)
    BY ElementOfSeq
  <2> QED
    BY <2>1, ElementOfSeq
<1>3. Spell(s) \in Seq(Char)
  BY <1>1, <1>2, IsASeq DEF Spell
<1> QED
  BY <1>1, <1>3, LenProperties DEF Spell

(* The word w cannot go on with the character c.                           *)
EndsBefore(w, c) ==
  \A v \in Seq(Char) : Extends(v, w) /\ v[Len(w) + 1] = c => Kind(v) = "none"

(* What is left begins with v, and the longest token is v.                 *)
LEMMA LongestBegins ==
  ASSUME input \in Seq(Char), NEW v \in Seq(1 .. Len(input)), NEW n \in 0 .. Len(input),
         LeftBar = v \o From(input, n), Len(v) <= MaxTokenLen,
         v # <<>> => Kind(Spell(v)) # "none",
         \/ n = Len(input) \/ Len(v) = MaxTokenLen
         \/ EndsBefore(Spell(v), input[n + 1])
  PROVE  L!LongestToken = Len(v) /\ SpellBar(Len(v)) = Spell(v)
<1>1. /\ LeftBar \in Seq(1 .. Len(input)) /\ Len(LeftBar) = Len(v) + (Len(input) - n)
      /\ Len(v) \in 0 .. Len(LeftBar)
      /\ \A i \in 1 .. Len(v) : LeftBar[i] = v[i]
      /\ \A i \in 1 .. Len(input) - n : LeftBar[Len(v) + i] = n + i
  <2>1. Joined(input, v, n, LeftBar)
    BY ConcatFrom
  <2> QED
    BY ONLY <2>1 DEF Joined
<1>2. Len(input) \in Nat /\ Len(v) \in Nat /\ (v = <<>> <=> Len(v) = 0)
  BY LenProperties, EmptySeq
<1>3. SpellBar(Len(v)) = Spell(v)
  BY <1>1 DEF SpellBar, Spell
<1>4. ASSUME n < Len(input), EndsBefore(Spell(v), input[n + 1])
      PROVE  Kind(SpellBar(Len(v) + 1)) = "none"
  <2>1. PICK u : u = SpellBar(Len(v) + 1)
    OBVIOUS
  <2>2. PICK w : w = Spell(v)
    OBVIOUS
  <2>3. Len(v) + 1 \in 0 .. Len(LeftBar)
    BY <1>1, <1>2, <1>4
  <2>4. /\ u \in Seq(Char) /\ Len(u) = Len(v) + 1
        /\ \A i \in 1 .. Len(v) + 1 : u[i] = input[LeftBar[i]]
    BY <1>1, <2>1, <2>3, SpellBarType
  <2>5. /\ Len(w) = Len(v) /\ \A i \in 1 .. Len(v) : w[i] = input[v[i]]
    BY <2>2, SpellType
  <2>6. Extends(u, w)
    BY <1>1, <1>2, <2>4, <2>5 DEF Extends
  <2>7. LeftBar[Len(v) + 1] = n + 1
    <3>1. 1 \in 1 .. Len(input) - n
      BY <1>2, <1>4
    <3> QED
      BY <1>1, <3>1
  <2>8. u[Len(w) + 1] = input[n + 1]
    <3>1. Len(v) + 1 \in 1 .. Len(v) + 1
      BY <1>2
    <3>2. u[Len(v) + 1] = input[LeftBar[Len(v) + 1]]
      BY <2>4, <3>1
    <3> QED
      BY ONLY <2>5, <2>7, <3>2
  <2>9. EndsBefore(w, input[n + 1])
    BY <1>4, <2>2
  <2> QED
    BY <2>1, <2>4, <2>6, <2>8, <2>9 DEF EndsBefore
<1>5. Len(v) > 0 => Kind(SpellBar(Len(v))) # "none"
  BY <1>2, <1>3
<1>6. \/ Len(v) = Len(LeftBar) \/ Len(v) = MaxTokenLen
      \/ Kind(SpellBar(Len(v) + 1)) = "none"
  <2>1. CASE n = Len(input)
    BY <1>1, <1>2, <2>1
  <2>2. CASE n # Len(input)
    BY <1>2, <1>4, <2>2
  <2> QED
    BY <2>1, <2>2
<1>7. L!LongestToken = Len(v)
  <2>1. PICK k : k = Len(v)
    OBVIOUS
  <2>2. /\ k \in 0 .. Len(LeftBar) /\ k <= MaxTokenLen
        /\ k > 0 => Kind(SpellBar(k)) # "none"
        /\ \/ k = Len(LeftBar) \/ k = MaxTokenLen
           \/ Kind(SpellBar(k + 1)) = "none"
    BY <1>1, <1>5, <1>6, <2>1
  <2>3. L!LongestToken = k
    BY ONLY <1>1, <2>2, input \in Seq(Char), LongestIs, LimitsAssumption
  <2> QED
    BY <2>1, <2>3
<1> QED
  BY <1>3, <1>7

(* A token cut off what is left: v, with the text behind n after it.       *)
LEMMA TakesToken ==
  ASSUME TypeOK, NEW v \in Seq(1 .. Len(input)), v # <<>>, Len(v) <= MaxTokenLen,
         NEW n \in 0 .. Len(input), LeftBar = v \o From(input, n),
         NEW type \in TokenType, Kind(Spell(v)) = type, ReturnToken(type, v),
         \/ n = Len(input) \/ Len(v) = MaxTokenLen
         \/ EndsBefore(Spell(v), input[n + 1]),
         n < Len(input) /\ type \in {"IDENTIFIER", "INT", "FLOAT"} =>
           input[n + 1] \in Delimiters \cup EofChars,
         NEW m, m = IF /\ type \notin {"COMMA", "COLON"}
                       /\ Spell(v) # <<"cr", "lf">>
                       /\ n < Len(input) /\ input[n + 1] \in EofChars
                    THEN n + 1 ELSE n,
         input' = input, LeftBar' = Skip(input, From(input, m), EofChars)
  PROVE  L!TakeToken
<1> DEFINE k == Len(v)
           next == IF k < Len(LeftBar) THEN input[LeftBar[k + 1]] ELSE "end"
           from == IF /\ type \notin {"COMMA", "COLON"}
                      /\ SpellBar(k) # <<"cr", "lf">>
                      /\ next \in EofChars
                   THEN k + 2 ELSE k + 1
<1>1. input \in Seq(Char) /\ Len(input) \in Nat /\ k \in Nat /\ n \in Nat /\ n <= Len(input)
  BY LenProperties DEF TypeOK
<1>2. Joined(input, v, n, LeftBar)
  BY <1>1, ConcatFrom
<1>3. L!LongestToken = k /\ SpellBar(k) = Spell(v)
  BY <1>1, LongestBegins DEF TokenType
<1>4. k > 0
  BY <1>1, EmptySeq
<1>5. /\ k < Len(LeftBar) <=> n < Len(input)
      /\ n < Len(input) => next = input[n + 1]
      /\ n = Len(input) => next = "end"
  <2>1. Len(LeftBar) = k + (Len(input) - n)
        /\ \A i \in 1 .. Len(input) - n : LeftBar[k + i] = n + i
    BY <1>2 DEF Joined
  <2>2. k < Len(LeftBar) <=> n < Len(input)
    BY <1>1, <2>1
  <2>3. n < Len(input) => LeftBar[k + 1] = n + 1
    <3>1. n < Len(input) => 1 \in 1 .. Len(input) - n
      BY <1>1
    <3> QED
      BY <2>1, <3>1
  <2> QED
    BY <2>2, <2>3
<1>6. type \in {"IDENTIFIER", "INT", "FLOAT"} =>
        next \in Delimiters \cup EofChars \cup {"end"}
  BY <1>1, <1>5
<1>7. "end" \notin EofChars
  BY DEF EofChars
<1>8. from = (m - n) + k + 1 /\ m \in n .. Len(input)
  BY <1>1, <1>3, <1>5, <1>7
<1>9. SubSeq(LeftBar, from, Len(LeftBar)) = From(input, m)
  <2>1. PICK d : d = m - n
    OBVIOUS
  <2>2. d \in 0 .. Len(input) - n /\ n + d = m /\ k + d + 1 = from
    BY <1>1, <1>8, <2>1
  <2>3. SubSeq(LeftBar, k + d + 1, Len(LeftBar)) = From(input, n + d)
    BY <1>2, <2>2 DEF Joined
  <2> QED
    BY <2>2, <2>3
<1>10. SubSeq(LeftBar, 1, k) = v
  BY <1>2 DEF Joined
<1>11. v \in Seq(Position)
  <2>1. \A i \in 1 .. Len(v) : v[i] \in 1 .. Len(input)
    BY ElementOfSeq
  <2>2. \A i \in 1 .. Len(v) : v[i] \in Position
    BY <1>1, <2>1 DEF Position
  <2>3. v \in Seq(1 .. Len(input))
    OBVIOUS
  <2> QED
    BY <2>2, <2>3
<1>12. /\ TokensBar' = Append(TokensBar, [token_type |-> type,
                                          span |-> SubSeq(LeftBar, 1, k)])
       /\ OutcomeBar' = "token"
  BY <1>10, <1>11, TokensExtend
<1>13. LeftBar' = Skip(input, SubSeq(LeftBar, from, Len(LeftBar)), EofChars)
  BY <1>9
<1>14. Kind(SpellBar(k)) = type
  BY <1>3
<1>15. PICK kk : kk = k
  OBVIOUS
<1>16. PICK nx : nx = next
  OBVIOUS
<1>17. PICK fr : fr = from
  OBVIOUS
<1>18. /\ L!LongestToken = kk /\ kk > 0 /\ type = Kind(SpellBar(kk))
       /\ nx = IF kk < Len(LeftBar) THEN input[LeftBar[kk + 1]] ELSE "end"
       /\ fr = IF /\ type \notin {"COMMA", "COLON"}
                  /\ SpellBar(kk) # <<"cr", "lf">>
                  /\ nx \in EofChars
               THEN kk + 2 ELSE kk + 1
  BY <1>3, <1>4, <1>14, <1>15, <1>16, <1>17
<1>19. type \in {"IDENTIFIER", "INT", "FLOAT"} =>
         nx \in Delimiters \cup EofChars \cup {"end"}
  BY <1>6, <1>16
<1>20. TokensBar' = Append(TokensBar, [token_type |-> type, span |-> SubSeq(LeftBar, 1, kk)])
  BY <1>12, <1>15
<1>21. LeftBar' = Skip(input, SubSeq(LeftBar, fr, Len(LeftBar)), EofChars)
  BY <1>13, <1>17
<1> QED
  BY ONLY <1>12, <1>18, <1>19, <1>20, <1>21, input' = input, TakeTokenIs

(* A character that no token can take, behind v, is left out.              *)
LEMMA RejectsCharacter ==
  ASSUME TypeOK, NEW v \in Seq(1 .. Len(input)), Len(v) <= MaxTokenLen,
         NEW n \in 0 .. Len(input), n < Len(input), LeftBar = v \o From(input, n),
         Len(v) = MaxTokenLen \/ EndsBefore(Spell(v), input[n + 1]),
         v = <<>> \/ /\ Kind(Spell(v)) \in {"IDENTIFIER", "INT", "FLOAT"}
                     /\ input[n + 1] \notin Delimiters,
         input[n + 1] \notin EofChars,
         input' = input, UNCHANGED returned, status' \in 1 .. 255,
         LeftBar' = Skip(input, v \o From(input, n + 1), EofChars)
  PROVE  L!RejectCharacter
<1>1. input \in Seq(Char) /\ Len(input) \in Nat /\ Len(v) \in Nat /\ n \in Nat
      /\ (v = <<>> <=> Len(v) = 0)
  BY LenProperties, EmptySeq DEF TypeOK
<1>2. Joined(input, v, n, LeftBar)
  BY <1>1, ConcatFrom
<1>3. L!LongestToken = Len(v) /\ SpellBar(Len(v)) = Spell(v)
  BY <1>1, LongestBegins
<1>4. Len(v) < Len(LeftBar) /\ LeftBar[Len(v) + 1] = n + 1
  <2>1. Len(LeftBar) = Len(v) + (Len(input) - n)
        /\ \A i \in 1 .. Len(input) - n : LeftBar[Len(v) + i] = n + i
    BY <1>2 DEF Joined
  <2>2. 1 \in 1 .. Len(input) - n
    BY <1>1
  <2> QED
    BY <1>1, <2>1, <2>2
<1>5. SubSeq(LeftBar, 1, Len(v)) = v
      /\ SubSeq(LeftBar, Len(v) + 2, Len(LeftBar)) = From(input, n + 1)
  <2>1. /\ SubSeq(LeftBar, 1, Len(v)) = v
        /\ \A m \in 0 .. Len(input) - n :
             SubSeq(LeftBar, Len(v) + m + 1, Len(LeftBar)) = From(input, n + m)
    BY <1>2 DEF Joined
  <2>2. 1 \in 0 .. Len(input) - n /\ Len(v) + 1 + 1 = Len(v) + 2
    BY <1>1
  <2>3. SubSeq(LeftBar, Len(v) + 1 + 1, Len(LeftBar)) = From(input, n + 1)
    BY <2>1, <2>2
  <2> QED
    BY <2>1, <2>2, <2>3
<1>6. OutcomeBar' = "error" /\ UNCHANGED TokensBar
  <2>1. status' # 0 /\ status' # EOF
    BY ONLY status' \in 1 .. 255 DEF EOF
  <2>2. OutcomeBar' = "error"
    BY ONLY <2>1 DEF OutcomeBar
  <2>3. UNCHANGED TokensBar
    BY DEF TokensBar
  <2> QED
    BY <2>2, <2>3
<1>7. PICK k : k = Len(v)
  OBVIOUS
<1>8. PICK next : next = input[LeftBar[k + 1]]
  OBVIOUS
<1>9. L!LongestToken = k /\ k < Len(LeftBar) /\ next \notin EofChars
  BY <1>3, <1>4, <1>7, <1>8
<1>10. k = 0 \/ /\ Kind(SpellBar(k)) \in {"IDENTIFIER", "INT", "FLOAT"}
                /\ next \notin Delimiters
  BY <1>1, <1>3, <1>4, <1>7, <1>8
<1>11. LeftBar' = Skip(input, SubSeq(LeftBar, 1, k) \o SubSeq(LeftBar, k + 2, Len(LeftBar)),
                       EofChars)
  BY <1>5, <1>7
<1> QED
  BY ONLY <1>6, <1>8, <1>9, <1>10, <1>11, input' = input, RejectCharacterIs

-----------------------------------------------------------------------------
(* Where words end.                                                        *)
LEMMA WordEnds ==
  ASSUME NEW w \in Seq(Char), Len(w) >= 1, NEW c, Kind(w) # "none",
         Kind(w) \in {"IDENTIFIER", "INT", "FLOAT"} => \A t : ~Grows(Kind(w), c, t),
         Kind(w) = "NEWLINE" => Len(w) = 2 \/ ~(w[1] = "cr" /\ c = "lf")
  PROVE  EndsBefore(w, c)
<1> SUFFICES ASSUME NEW v \in Seq(Char), Extends(v, w), v[Len(w) + 1] = c
             PROVE  Kind(v) = "none"
  BY DEF EndsBefore
<1>1. /\ /\ Kind(w) \in {"IDENTIFIER", "INT", "FLOAT"}
         /\ \A s : ~Grows(Kind(w), c, s)
         => Kind(v) = "none"
      /\ IsBreak(w) /\ ~(w[1] = "cr" /\ c = "lf") => Kind(v) = "none"
      /\ IsBreak(w) /\ Len(w) = 2 => Kind(v) = "none"
      /\ Kind(w) \in {"COMMA", "COLON"} => Kind(v) = "none"
  BY KindGrows
<1>2. /\ Kind(w) = "NEWLINE" <=> IsBreak(w)
      /\ Kind(w) \in {"IDENTIFIER", "INT", "FLOAT", "COMMA", "COLON", "NEWLINE", "none"}
  BY KindIs
<1> QED
  BY <1>1, <1>2

LEMMA EmptyEnds ==
  ASSUME NEW w \in Seq(Char), w = <<>>, NEW c, c \notin {"comma", "colon"},
         \A type : ~Begins(c, type)
  PROVE  EndsBefore(w, c)
<1> SUFFICES ASSUME NEW v \in Seq(Char), Extends(v, w), v[Len(w) + 1] = c
             PROVE  Kind(v) = "none"
  BY DEF EndsBefore
<1>1. Len(w) = 0
  BY EmptySeq
<1>2. Len(v) = 1 /\ v[1] = c
  BY <1>1 DEF Extends
<1>3. c \notin {"alpha", "digit", "cr", "lf", "comma", "colon"}
  BY DEF Begins, IsNewline
<1>4. ~IsWord(v) /\ ~IsInt(v) /\ ~IsFloat(v)
  BY <1>2, <1>3 DEF IsWord, IsInt, IsFloat, AllIn
<1>5. ~IsMark(v, "comma") /\ ~IsMark(v, "colon") /\ ~IsBreak(v)
  BY <1>2, <1>3 DEF IsMark, IsBreak
<1> QED
  BY <1>4, <1>5, KindIs

(* A character alone spells a token that begins with it.                   *)
LEMMA KindAlone ==
  ASSUME NEW w \in Seq(Char), Len(w) = 1, NEW type
  PROVE  /\ Begins(w[1], type) => Kind(w) = type
         /\ w[1] = "comma" => Kind(w) = "COMMA"
         /\ w[1] = "colon" => Kind(w) = "COLON"
<1>1. /\ w[1] = "alpha" => IsWord(w)
      /\ w[1] = "digit" => IsInt(w)
  BY DEF IsWord, IsInt, AllIn
<1>2. /\ w[1] \in {"cr", "lf"} => IsBreak(w)
      /\ \A c : w[1] = c => IsMark(w, c)
  BY DEF IsBreak, IsMark
<1> QED
  BY <1>1, <1>2, KindIs DEF Begins, IsNewline

-----------------------------------------------------------------------------
(* detected_token_type is the type of what the token under construction    *)
(* spells.                                                                 *)
KindOK == token # <<>> => Kind(Spell(token)) = detected_token_type

LEMMA SeqOf ==
  ASSUME NEW S, NEW T, NEW s \in Seq(S), \A i \in 1 .. Len(s) : s[i] \in T
  PROVE  s \in Seq(T)
OBVIOUS

LEMMA TokenPositions ==
  ASSUME TypeOK, HandOK, InOrder
  PROVE  /\ token \in Seq(1 .. Settled) /\ token \in Seq(1 .. Len(input))
         /\ \A i \in 1 .. Len(token) : token[i] \in 1 .. Settled
         /\ Settled \in Nat /\ Len(input) \in Nat
<1>1. Settled \in Nat /\ Len(input) \in Nat /\ Settled <= Len(input)
  BY SettledType, LenProperties DEF TypeOK
<1>2. ASSUME NEW i \in 1 .. Len(token) PROVE token[i] \in 1 .. Settled
  <2>1. token[i] \in Position /\ token[i] \in Elements(token)
    BY ElementOfSeq DEF TypeOK, Elements
  <2> QED
    BY <1>1, <2>1 DEF InOrder, Ordered, Within, Position
<1>3. \A i \in 1 .. Len(token) : token[i] \in 1 .. Len(input)
  BY <1>1, <1>2
<1>4. token \in Seq(Position)
  BY DEF TypeOK
<1>5. token \in Seq(1 .. Settled) /\ token \in Seq(1 .. Len(input))
  <2>1. PICK S : S = 1 .. Settled
    OBVIOUS
  <2>2. PICK T : T = 1 .. Len(input)
    OBVIOUS
  <2>3. /\ \A i \in 1 .. Len(token) : token[i] \in S
        /\ \A i \in 1 .. Len(token) : token[i] \in T
    BY ONLY <1>2, <1>3, <2>1, <2>2
  <2>4. token \in Seq(S) /\ token \in Seq(T)
    BY ONLY <1>4, <2>3, SeqOf
  <2> QED
    BY ONLY <2>1, <2>2, <2>4
<1> QED
  BY <1>1, <1>2, <1>5

(* What a token and the next character spell.                              *)
LEMMA SpellAppend ==
  ASSUME input \in Seq(Char), NEW s \in Seq(1 .. Len(input)), NEW p \in 1 .. Len(input)
  PROVE  /\ Append(s, p) \in Seq(1 .. Len(input)) /\ Len(Append(s, p)) = Len(s) + 1
         /\ Spell(Append(s, p)) \in Seq(Char)
         /\ Extends(Spell(Append(s, p)), Spell(s))
         /\ Spell(Append(s, p))[Len(s) + 1] = input[p]
         /\ Len(Spell(s)) = Len(s)
<1>1. PICK a : a = Append(s, p)
  OBVIOUS
<1>2. PICK P : P = 1 .. Len(input)
  OBVIOUS
<1>3. s \in Seq(P) /\ p \in P
  BY <1>2
<1>4. /\ a \in Seq(P) /\ Len(a) = Len(s) + 1 /\ Len(s) \in Nat
      /\ a[Len(s) + 1] = p /\ \A i \in 1 .. Len(s) : a[i] = s[i]
  BY <1>1, <1>3, AppendProperties, LenProperties
<1>5. a \in Seq(1 .. Len(input))
  BY <1>2, <1>4
<1>6. PICK v : v = Spell(a)
  OBVIOUS
<1>7. PICK w : w = Spell(s)
  OBVIOUS
<1>8. /\ v \in Seq(Char) /\ Len(v) = Len(a)
      /\ \A i \in 1 .. Len(a) : v[i] = input[a[i]]
  BY <1>5, <1>6, SpellType
<1>9. Len(w) = Len(s) /\ \A i \in 1 .. Len(s) : w[i] = input[s[i]]
  BY <1>7, SpellType
<1>10. Extends(v, w)
  <2>1. \A i \in 1 .. Len(s) : i \in 1 .. Len(a)
    BY <1>4
  <2> QED
    BY <1>4, <1>8, <1>9, <2>1 DEF Extends
<1>11. v[Len(s) + 1] = input[p]
  BY <1>4, <1>8
<1> QED
  BY <1>1, <1>4, <1>5, <1>6, <1>7, <1>8, <1>9, <1>10, <1>11

-----------------------------------------------------------------------------
(* What is passed over, in the words of the tokenizer's invariant.         *)
LEMMA PassedIs ==
  ASSUME NEW p
  PROVE  /\ PassedOver(input, p) <=> input[p] = "space" \/ Commented(p)
         /\ input[p] \in EofChars <=> ReadsAsEof(p)
BY LimitsAssumption
DEF PassedOver, InComment, Commented, IsNewline, Newlines, EofChars, ReadsAsEof

(* The character in hand is the first behind what is settled, and passed   *)
(* over exactly when the loop body skips it.                               *)
LEMMA InHand ==
  ASSUME TypeOK, HandOK, CommentOK, pc = "dispatch", cur # EOF
  PROVE  /\ cur = Consumed /\ Start = Settled /\ cur = Start + 1 /\ Start \in Nat
         /\ cur \in 1 .. Len(input) /\ input[cur] \notin EofChars
         /\ TextInHand => Stops(input, cur, EofChars)
         /\ Skips => ~Stops(input, cur, EofChars)
<1>1. /\ Consumed \in Nat /\ Consumed <= fread_pos /\ fread_pos \in 0 .. Len(input)
      /\ Settled \in Nat /\ Len(input) \in Nat
  BY SettledType, LenProperties DEF TypeOK
<1>2. cur = Consumed /\ Settled = Consumed - 1 /\ Start = Settled
  BY <1>1 DEF HandOK, Settled, Start
<1>3. cur = Start + 1 /\ cur \in 1 .. Len(input)
  BY <1>1, <1>2
<1>4. ~ReadsAsEof(cur)
  BY <1>1, <1>2 DEF HandOK, ReadsAsEof
<1>5. Commented(cur) <=> /\ Commented(Settled) \/ input[cur] = "semi"
                         /\ ~IsNewline(input[cur])
  BY <1>1, <1>2, <1>3, CommentedNext
<1>6. /\ is_comment => Commented(Settled)
      /\ Commented(Settled) => is_comment \/ IsNewline(input[cur])
  BY <1>2 DEF CommentOK
<1>7. input[cur] \notin EofChars
  BY <1>4, PassedIs
<1>8. TextInHand => Stops(input, cur, EofChars)
  BY <1>5, <1>6, PassedIs DEF TextInHand, Stops
<1>9. Skips => ~Stops(input, cur, EofChars)
  <2>1. Skips => \/ is_comment /\ ~IsNewline(input[cur])
                 \/ input[cur] = "space"
                 \/ input[cur] = "semi"
    BY DEF Skips
  <2>2. ASSUME input[cur] = "semi" PROVE ~IsNewline(input[cur])
    BY <2>2 DEF IsNewline
  <2> QED
    BY <1>5, <1>6, <1>7, <2>1, <2>2, PassedIs DEF Stops
<1> QED
  BY <1>1, <1>2, <1>3, <1>7, <1>8, <1>9

(* What is left: nothing of it is skipped when a token is under            *)
(* construction.                                                           *)
LEMMA LeftBarIs ==
  ASSUME TypeOK, HandOK, EofInHand, InOrder, Accounted
  PROVE  LeftBar = IF token = <<>> THEN Skip(input, From(input, Start), EofChars)
                                   ELSE token \o From(input, Start)
<1>1. Left = token \o From(input, Start)
  BY LeftIs
<1>2. Start \in 0 .. Len(input) /\ input \in Seq(Char) /\ Len(input) \in Nat
  BY StartType DEF TypeOK
<1>3. CASE token = <<>>
  <2>1. From(input, Start) \in Seq(Position)
    BY <1>2, FromType
  <2>2. <<>> \o From(input, Start) = From(input, Start)
    BY <2>1, ConcatEmptySeq
  <2> QED
    BY <1>1, <1>3, <2>2 DEF LeftBar
<1>4. CASE token # <<>>
  <2>1. token \in Seq(1 .. Len(input)) /\ Len(token) >= 1 /\ token[1] \in 1 .. Settled
        /\ 1 \in 1 .. Len(token)
    <3>1. Len(token) \in Nat /\ Len(token) # 0
      BY <1>4, LenProperties, EmptySeq DEF TypeOK
    <3> QED
      BY <3>1, TokenPositions
  <2>2. Joined(input, token, Start, Left)
    BY <1>1, <1>2, <2>1, ConcatFrom
  <2>3. Left \in Seq(1 .. Len(input)) /\ Len(Left) >= 1 /\ Left[1] = token[1]
    <3>1. /\ Left \in Seq(1 .. Len(input)) /\ Len(token) \in 0 .. Len(Left)
          /\ \A i \in 1 .. Len(token) : Left[i] = token[i]
      BY <2>2 DEF Joined
    <3>2. Len(Left) \in Nat
      BY <3>1, LenProperties
    <3> QED
      BY <2>1, <3>1, <3>2
  <2>4. token[1] \in Kept
    BY <2>1 DEF Kept, Elements
  <2>5. ~(Blank(token[1]) \/ Commented(token[1]))
    BY <2>1, <2>4 DEF Accounted
  <2>6. Stops(input, Left[1], EofChars)
    BY <2>3, <2>5, PassedIs DEF Blank, Stops
  <2>7. PICK s : s = Left
    OBVIOUS
  <2>8. s \in Seq(1 .. Len(input)) /\ Len(s) >= 1 /\ Stops(input, s[1], EofChars)
    BY <2>3, <2>6, <2>7
  <2>9. Skip(input, s, EofChars) = s
    BY ONLY <2>8, SkipNone
  <2> QED
    BY <1>1, <1>4, <2>7, <2>9 DEF LeftBar
<1> QED
  BY <1>3, <1>4

(* The same after a step.                                                  *)
LEMMA LeftNext ==
  (TypeOK /\ HandOK /\ EofInHand)' => (Left = token \o From(input, Start))'
<1>1. TypeOK /\ HandOK /\ EofInHand => Left = token \o From(input, Start)
  BY LeftIs
<1> QED
  BY <1>1, PTL

(* When no token is under construction after a step.                       *)
LEMMA LeftBarNext ==
  /\ (TypeOK /\ HandOK /\ EofInHand)'
  /\ token' = <<>>
  => LeftBar' = Skip(input', From(input', Start'), EofChars)
<1>1. TypeOK /\ HandOK /\ EofInHand =>
        /\ Left = token \o From(input, Start)
        /\ From(input, Start) \in Seq(Position)
  BY LeftIs, StartType, FromType DEF TypeOK
<1>2. (TypeOK /\ HandOK /\ EofInHand)' =>
        (/\ Left = token \o From(input, Start)
         /\ From(input, Start) \in Seq(Position))'
  BY <1>1, PTL
<1> SUFFICES ASSUME (TypeOK /\ HandOK /\ EofInHand)', token' = <<>>
             PROVE  LeftBar' = Skip(input', From(input', Start'), EofChars)
  OBVIOUS
<1>3. PICK f : f = From(input', Start')
  OBVIOUS
<1>4. Left' = <<>> \o f /\ f \in Seq(Position)
  BY <1>2, <1>3 DEF From
<1>5. Left' = f
  BY <1>4, ConcatEmptySeq
<1> QED
  BY <1>3, <1>5 DEF LeftBar

-----------------------------------------------------------------------------
(* The types of the words are kept, in every step.                         *)
LEMMA KindStep ==
  ASSUME TypeOK, TokenStateOK, HandOK, InOrder, KindOK, TokenizerStep
  PROVE  KindOK'
<1>1. /\ token \in Seq(1 .. Settled) /\ token \in Seq(1 .. Len(input))
      /\ \A i \in 1 .. Len(token) : token[i] \in 1 .. Settled
      /\ Settled \in Nat /\ Settled <= fread_pos /\ fread_pos \in Nat
      /\ input \in Seq(Char)
  BY TokenPositions, SettledType DEF TypeOK
<1>2. ASSUME UNCHANGED <<token, detected_token_type>>,
             \A i \in 1 .. Len(token) : input'[token[i]] = input[token[i]]
      PROVE  KindOK'
  <2>1. Spell(token)' = Spell(token)
    BY <1>2 DEF Spell
  <2> QED
    BY <1>2, <2>1 DEF KindOK
<1>3. CASE Waits
  <2>1. \A i \in 1 .. Len(token) : input'[token[i]] = input[token[i]]
    BY <1>1, <1>3 DEF Waits
  <2> QED
    BY <1>2, <1>3, <2>1 DEF Waits
<1>4. CASE Took
  BY <1>2, <1>4 DEF Took
<1>5. CASE Dispatched
  <2>1. input' = input
    BY <1>5 DEF Dispatched, stream_vars
  <2>2. ASSUME UNCHANGED token_vars PROVE KindOK'
    BY <1>2, <2>1, <2>2 DEF token_vars
  <2>3. ASSUME token' = <<>> PROVE KindOK'
    BY <2>3 DEF KindOK
  <2>4. CASE EndsAtEof
    BY <2>2, <2>3, <2>4 DEF EndsAtEof, Returns, EmptyStays, ReturnToken, token_vars
  <2>5. CASE Skips
    BY <2>2, <2>3, <2>5 DEF Skips, Returns, EmptyStays, ReturnToken, token_vars
  <2>6. CASE PutsBack
    BY <2>2, <2>3, <2>6 DEF PutsBack, Returns, EmptyStays, ReturnToken, token_vars
  <2>7. CASE Joins
    BY <2>3, <2>7 DEF Joins, ReturnToken
  <2>8. CASE Rejects
    BY <2>2, <2>8 DEF Rejects
  <2>9. CASE cur # EOF /\ Keeps
    <3>1. cur \in 1 .. Len(input)
      BY <1>5, <2>9, DispatchSettled, SettledType, LenProperties DEF TypeOK
    <3>2. token' = Append(token, cur)
      BY <2>9 DEF Keeps
    <3>3. PICK v : v = Spell(Append(token, cur))
      OBVIOUS
    <3>4. PICK w : w = Spell(token)
      OBVIOUS
    <3>5. /\ v \in Seq(Char) /\ Extends(v, w) /\ v[Len(token) + 1] = input[cur]
          /\ Len(w) = Len(token) /\ w \in Seq(Char) /\ Len(token) \in Nat
      BY <1>1, <3>1, <3>3, <3>4, SpellAppend, SpellType, LenProperties
    <3>6. Spell(token)' = v
      BY <2>1, <3>2, <3>3 DEF Spell
    <3>7. CASE token = <<>>
      <4>1. Len(v) = 1 /\ v[1] = input[cur]
        BY <3>5, <3>7, EmptySeq DEF Extends
      <4>2. Begins(v[1], detected_token_type')
        BY <2>9, <3>7, <4>1 DEF Keeps
      <4> QED
        BY <3>5, <3>6, <4>1, <4>2, KindAlone DEF KindOK
    <3>8. CASE token # <<>>
      <4>1. Len(w) >= 1
        BY <3>5, <3>8, EmptySeq, <1>1
      <4>2. Grows(detected_token_type, input[cur], detected_token_type')
            /\ Kind(w) = detected_token_type
        BY <2>9, <3>4, <3>8 DEF Keeps, KindOK
      <4>3. PICK c, t : c = input[cur] /\ t = detected_token_type'
        OBVIOUS
      <4>4. c = v[Len(w) + 1] /\ Grows(Kind(w), c, t)
        BY <3>5, <4>2, <4>3
      <4>5. Kind(v) = t
        BY ONLY <3>5, <4>1, <4>4, KindGrows
      <4> QED
        BY <3>6, <4>3, <4>5 DEF KindOK
    <3> QED
      BY <3>7, <3>8
  <2> QED
    BY <1>5, <2>4, <2>5, <2>6, <2>7, <2>8, <2>9 DEF Dispatched
<1> QED
  BY <1>3, <1>4, <1>5 DEF TokenizerStep

(* A fetch tells EOF from a character that reads as EOF by buf_len, and    *)
(* leaves what is left as it is.                                           *)
LEMMA FetchStart ==
  ASSUME ~ShortReads, TypeOK, HandOK, Fetch
  PROVE  EofInHand' /\ Start' = Start
<1>1. Took
  BY FetchTakes
<1>2. Consumed \in Nat /\ Settled \in Nat /\ pc = "fetch" /\ Start = Settled
      /\ pc' = "dispatch" /\ input' = input
  BY <1>1, SettledType DEF Took, Start
<1>3. cur' = EOF => /\ buf_len' \in Nat
                    /\ Consumed' = IF buf_len' = 0 THEN Consumed ELSE Consumed + 1
  <2>1. CASE TakeLastChar
    BY <1>1, <1>2, <2>1, SettledType DEF Took, HandOK, TakeLastChar, EOF, NO_LAST_CHAR
  <2>2. CASE TakeBuffered
    <3>1. buf_idx \in Nat /\ buf_len \in Nat /\ fread_pos \in Nat /\ buf_len <= fread_pos
      BY LimitsAssumption DEF TypeOK, Least
    <3> QED
      BY <2>2, <3>1 DEF TakeBuffered, Consumed
  <2>3. CASE GrabBuffer
    <3>1. /\ buf_idx \in Nat /\ buf_len \in Nat /\ fread_pos \in Nat
          /\ Len(input) - fread_pos \in Nat
      BY LimitsAssumption, LenProperties DEF TypeOK, Least
    <3>2. PICK n \in FreadCounts :
            /\ fread_pos' = fread_pos + n
            /\ buf_len' = n
            /\ \/ n = 0 /\ buf_idx' = 0
               \/ n > 0 /\ buf_idx' = 1
      BY <2>3 DEF GrabBuffer
    <3>3. n \in Nat
      BY <3>1, LimitsAssumption DEF FreadCounts, Least
    <3> QED
      BY <2>3, <3>1, <3>2, <3>3 DEF GrabBuffer, Consumed
  <2> QED
    BY <2>1, <2>2, <2>3 DEF Fetch
<1>4. CASE cur' # EOF
  BY <1>1, <1>2, <1>4 DEF Took, EofInHand, Start
<1>5. CASE cur' = EOF
  <2>1. \/ /\ Consumed' = Settled + 1 /\ Settled = Consumed /\ Settled' = Consumed'
           /\ CharSigned /\ input[Consumed'] = "xff"
        \/ /\ Settled' = Settled /\ Settled = Consumed
           /\ Consumed' = Consumed /\ Consumed = Len(input)
    BY <1>1, <1>5 DEF Took
  <2>2. CASE buf_len' = 0
    <3>1. Consumed' = Consumed
      BY <1>3, <1>5, <2>2
    <3>2. Settled' = Settled /\ Consumed' = Len(input)
      BY <1>2, <2>1, <3>1
    <3> QED
      BY <1>2, <1>5, <2>2, <3>2 DEF EofInHand, Start
  <2>3. CASE buf_len' # 0
    <3>1. Consumed' = Consumed + 1 /\ buf_len' > 0
      BY <1>3, <1>5, <2>3
    <3>2. Consumed' - 1 = Settled /\ CharSigned /\ input[Consumed'] = "xff"
          /\ Consumed' >= 1
      BY <1>2, <2>1, <3>1
    <3>3. EofInHand'
      BY <1>2, <2>3, <3>2 DEF EofInHand, ReadsAsEof
    <3>4. Start' = Consumed' - 1
      BY <1>2, <1>5, <3>1 DEF Start
    <3> QED
      BY <1>2, <3>2, <3>3, <3>4
  <2> QED
    BY <2>2, <2>3
<1> QED
  BY <1>4, <1>5

-----------------------------------------------------------------------------
(* Passes through the loop body, as steps of the Lexer                     *)

RefInv == TypeOK /\ TokenStateOK /\ TextInv /\ EofInHand /\ KindOK

LEMMA AfterDispatch ==
  ASSUME RefInv, Dispatched
  PROVE  /\ EofInHand' /\ input' = input /\ last_char = NO_LAST_CHAR
         /\ Start' = IF last_char' = NO_LAST_CHAR THEN Consumed ELSE Consumed - 1
         /\ Consumed \in 0 .. Len(input) /\ Len(input) \in Nat
         /\ Start \in 0 .. Len(input) /\ input \in Seq(Char)
<1>1. pc' # "dispatch"
  BY DEF Dispatched
<1>2. /\ input' = input /\ last_char = NO_LAST_CHAR
      /\ Settled' = IF last_char' = NO_LAST_CHAR THEN Consumed ELSE Consumed - 1
  BY DispatchSettled DEF RefInv, TextInv
<1>3. /\ Consumed \in 0 .. Len(input) /\ Len(input) \in Nat
      /\ Start \in 0 .. Len(input) /\ input \in Seq(Char)
  BY StartType DEF RefInv, TextInv, TypeOK
<1> QED
  BY <1>1, <1>2, <1>3 DEF EofInHand, Start

(* The token under construction as a word.                                 *)
LEMMA TokenWord ==
  ASSUME RefInv, token # <<>>
  PROVE  /\ token \in Seq(1 .. Len(input)) /\ Len(token) <= MaxTokenLen
         /\ detected_token_type \in {"IDENTIFIER", "INT", "FLOAT", "NEWLINE"}
         /\ detected_token_type \in TokenType
         /\ Kind(Spell(token)) = detected_token_type
         /\ Spell(token) \in Seq(Char) /\ Len(Spell(token)) = Len(token)
         /\ Len(token) >= 1 /\ Spell(token)[1] = input[token[1]]
         /\ detected_token_type = "NEWLINE" => Len(token) = 1
         /\ Spell(token) # <<"cr", "lf">>
<1>1. /\ token \in Seq(1 .. Len(input)) /\ Len(token) <= MaxTokenLen
      /\ input \in Seq(Char) /\ Len(token) \in Nat
  BY TokenPositions, LenProperties DEF RefInv, TextInv, TypeOK
<1>2. Len(token) >= 1
  BY <1>1, EmptySeq
<1>3. /\ Spell(token) \in Seq(Char) /\ Len(Spell(token)) = Len(token)
      /\ Spell(token)[1] = input[token[1]]
  BY <1>1, <1>2, SpellType
<1>4. /\ detected_token_type \in {"IDENTIFIER", "INT", "FLOAT", "NEWLINE"}
      /\ detected_token_type \in TokenType
      /\ detected_token_type = "NEWLINE" => Len(token) = 1
      /\ Kind(Spell(token)) = detected_token_type
  BY DEF RefInv, TokenStateOK, TypeOK, TokenType, KindOK
<1>5. Spell(token) # <<"cr", "lf">>
  <2>1. PICK w : w = Spell(token)
    OBVIOUS
  <2>2. w \in Seq(Char) /\ Len(w) = Len(token)
        /\ (Kind(w) = "NEWLINE" => Len(token) = 1)
    BY <1>3, <1>4, <2>1
  <2>3. w = <<"cr", "lf">> => Len(w) = 2 /\ IsBreak(w)
    BY <2>2, Short DEF IsBreak
  <2>4. IsBreak(w) => Kind(w) = "NEWLINE"
    BY <2>2, KindIs
  <2> QED
    BY <2>1, <2>2, <2>3, <2>4
<1> QED
  BY <1>1, <1>2, <1>3, <1>4, <1>5

(* A pass that returns the token under construction.                       *)
LEMMA ReturnsTakes ==
  ASSUME RefInv, TypeOK', HandOK', Dispatched, Returns,
         \/ Start = Len(input) \/ EndsBefore(Spell(token), input[Start + 1]),
         Start < Len(input) /\ detected_token_type # "NEWLINE" =>
           input[Start + 1] \in Delimiters \cup EofChars,
         NEW m, m = IF Start < Len(input) /\ input[Start + 1] \in EofChars
                    THEN Start + 1 ELSE Start,
         Skip(input, From(input, Start'), EofChars) = Skip(input, From(input, m), EofChars)
  PROVE  L!TakeToken
<1>1. /\ EofInHand' /\ input' = input /\ Start \in 0 .. Len(input)
  BY AfterDispatch
<1>2. token # <<>> /\ ReturnToken(detected_token_type, token) /\ token' = <<>>
  BY DEF Returns, ReturnToken
<1>3. LeftBar' = Skip(input, From(input, m), EofChars)
  BY <1>1, <1>2, LeftBarNext
<1>4. LeftBar = token \o From(input, Start)
  BY <1>2, LeftBarIs DEF RefInv, TextInv
<1>5. /\ token \in Seq(1 .. Len(input)) /\ Len(token) <= MaxTokenLen
      /\ detected_token_type \in {"IDENTIFIER", "INT", "FLOAT", "NEWLINE"}
      /\ detected_token_type \in TokenType
      /\ Kind(Spell(token)) = detected_token_type
      /\ Spell(token) # <<"cr", "lf">>
  BY <1>2, TokenWord
<1>6. PICK v, n, type : v = token /\ n = Start /\ type = detected_token_type
  OBVIOUS
<1>7. TypeOK /\ v \in Seq(1 .. Len(input)) /\ v # <<>> /\ Len(v) <= MaxTokenLen
  BY <1>2, <1>5, <1>6 DEF RefInv
<1>8. n \in 0 .. Len(input) /\ LeftBar = v \o From(input, n)
  BY <1>1, <1>4, <1>6
<1>9. type \in TokenType /\ Kind(Spell(v)) = type /\ ReturnToken(type, v)
  BY <1>2, <1>5, <1>6
<1>10. \/ n = Len(input) \/ Len(v) = MaxTokenLen
       \/ EndsBefore(Spell(v), input[n + 1])
  BY <1>6
<1>11. n < Len(input) /\ type \in {"IDENTIFIER", "INT", "FLOAT"} =>
         input[n + 1] \in Delimiters \cup EofChars
  BY <1>6
<1>12. m = IF /\ type \notin {"COMMA", "COLON"}
              /\ Spell(v) # <<"cr", "lf">>
              /\ n < Len(input) /\ input[n + 1] \in EofChars
           THEN n + 1 ELSE n
  BY <1>5, <1>6
<1> QED
  BY ONLY <1>1, <1>3, <1>7, <1>8, <1>9, <1>10, <1>11, <1>12, TakesToken

(* At EOF the token ends, or the end is found.                             *)
LEMMA EndRefines ==
  ASSUME RefInv, TypeOK', HandOK', Dispatched, EndsAtEof
  PROVE  L!TakeToken \/ L!FindEnd
<1>1. /\ EofInHand' /\ input' = input /\ Start' = Consumed
      /\ Consumed \in 0 .. Len(input) /\ Len(input) \in Nat
      /\ Start \in 0 .. Len(input) /\ input \in Seq(Char)
  BY AfterDispatch DEF EndsAtEof
<1>2. pc = "dispatch" /\ cur = EOF /\ buf_len \in Nat /\ Settled = Consumed
  BY DispatchSettled DEF Dispatched, EndsAtEof, RefInv, TextInv, TypeOK, Least
<1>3. \/ Start = Len(input) /\ Consumed = Len(input)
      \/ /\ Start = Consumed - 1 /\ Consumed >= 1
         /\ CharSigned /\ input[Consumed] = "xff" /\ input[Consumed] \in EofChars
  BY <1>2 DEF RefInv, EofInHand, Start, ReadsAsEof, EofChars
<1>4. CASE Returns
  <2>1. token # <<>>
    BY <1>4 DEF Returns
  <2>2. PICK m : m = IF Start < Len(input) /\ input[Start + 1] \in EofChars
                     THEN Start + 1 ELSE Start
    OBVIOUS
  <2>3. m = Start'
    <3>1. CASE Start = Len(input) /\ Consumed = Len(input)
      BY <1>1, <2>2, <3>1
    <3>2. CASE /\ Start = Consumed - 1 /\ Consumed >= 1
               /\ input[Consumed] \in EofChars
      <4>1. Start + 1 = Consumed /\ Start < Len(input)
        BY <1>1, <3>2
      <4> QED
        BY <1>1, <2>2, <3>2, <4>1
    <3> QED
      BY <1>3, <3>1, <3>2
  <2>4. \/ Start = Len(input)
        \/ input[Start + 1] = "xff" /\ input[Start + 1] \in EofChars
    <3>1. Start = Consumed - 1 => Start + 1 = Consumed
      BY <1>1
    <3> QED
      BY <1>3, <3>1
  <2>5. ASSUME input[Start + 1] = "xff"
        PROVE  EndsBefore(Spell(token), input[Start + 1])
    <3>1. PICK w, c : w = Spell(token) /\ c = input[Start + 1]
      OBVIOUS
    <3>2. /\ w \in Seq(Char) /\ Len(w) >= 1
          /\ Kind(w) \in {"IDENTIFIER", "INT", "FLOAT", "NEWLINE"} /\ c = "xff"
      BY <2>1, <2>5, <3>1, TokenWord
    <3>3. \A t : ~Grows(Kind(w), c, t)
      BY ONLY <3>2 DEF Grows
    <3>4. EndsBefore(w, c)
      BY ONLY <3>2, <3>3, WordEnds
    <3> QED
      BY <3>1, <3>4
  <2>6. Start < Len(input) /\ detected_token_type # "NEWLINE" =>
           input[Start + 1] \in Delimiters \cup EofChars
    BY <1>1, <2>4
  <2>7. \/ Start = Len(input) \/ EndsBefore(Spell(token), input[Start + 1])
    BY <2>4, <2>5
  <2>8. Skip(input, From(input, Start'), EofChars) = Skip(input, From(input, m), EofChars)
    BY <2>3
  <2>9. L!TakeToken
    BY ONLY <1>4, <2>2, <2>6, <2>7, <2>8, ReturnsTakes, RefInv, TypeOK', HandOK', Dispatched
  <2> QED
    BY <2>9
<1>5. CASE EmptyStays /\ status' = EOF
  <2>1. token = <<>> /\ token' = <<>> /\ UNCHANGED returned
    BY <1>2, <1>5, DispatchSettled
    DEF EmptyStays, token_vars
  <2>2. LeftBar = Skip(input, From(input, Start), EofChars)
    BY <2>1, LeftBarIs DEF RefInv, TextInv
  <2>3. LeftBar' = Skip(input, From(input, Consumed), EofChars)
    BY <1>1, <2>1, LeftBarNext
  <2>4. OutcomeBar' = "end" /\ UNCHANGED <<input, TokensBar>>
    <3>1. OutcomeBar' = "end"
      BY <1>5 DEF OutcomeBar, EOF
    <3>2. UNCHANGED TokensBar
      BY <2>1 DEF TokensBar
    <3> QED
      BY <1>1, <3>1, <3>2
  <2>5. CASE Start = Len(input) /\ Consumed = Len(input)
    <3>1. /\ From(input, Start) \in Seq(Position) /\ Len(From(input, Start)) = 0
      BY <1>1, <2>5, FromType
    <3>2. From(input, Start) = <<>>
      BY <3>1, EmptySeq
    <3>3. LeftBar = <<>>
      BY <2>2, <3>2, EmptySeq DEF Skip
    <3>4. LeftBar' = LeftBar
      BY <2>2, <2>3, <2>5
    <3> QED
      BY ONLY <2>4, <3>3, <3>4, FindEndIs
  <2>6. CASE /\ Start = Consumed - 1 /\ Consumed >= 1
             /\ input[Consumed] \in EofChars
    <3>1. /\ From(input, Start) \in Seq(Position)
          /\ Len(From(input, Start)) = Len(input) - Start
          /\ \A i \in 1 .. Len(input) - Start : From(input, Start)[i] = Start + i
      BY <1>1, FromType
    <3>2. PICK f : f = From(input, Start)
      OBVIOUS
    <3>3. Len(f) >= 1 /\ f[1] = Consumed /\ f \in Seq(Position) /\ f # <<>>
      BY <1>1, <2>6, <3>1, <3>2, EmptySeq
    <3>4. Stops(input, f[1], EofChars)
      BY <2>6, <3>3 DEF Stops
    <3>5. Skip(input, f, EofChars) = f
      BY ONLY <3>3, <3>4, SkipNone
    <3>6. LeftBar = f
      BY <2>2, <3>2, <3>5
    <3>7. SubSeq(LeftBar, 2, Len(LeftBar)) = From(input, Consumed)
      <4>1. 1 \in 0 .. Len(input) - Start /\ Start + 1 = Consumed
            /\ 1 + 1 = 2
        BY <1>1, <2>6
      <4>2. SubSeq(From(input, Start), 1 + 1, Len(input) - Start) = From(input, Start + 1)
        BY ONLY <1>1, <4>1, FromRest
      <4> QED
        BY <3>1, <3>2, <3>6, <4>1, <4>2
    <3>8. LeftBar' = Skip(input, SubSeq(LeftBar, 2, Len(LeftBar)), EofChars)
      BY <2>3, <3>7
    <3>9. LeftBar # <<>> /\ input[LeftBar[1]] \in EofChars
      BY <2>6, <3>3, <3>6
    <3> QED
      BY ONLY <2>4, <3>8, <3>9, FindEndIs
  <2> QED
    BY <1>3, <2>5, <2>6
<1> QED
  BY <1>4, <1>5 DEF EndsAtEof

(* A character passed over ends the token, or changes nothing.             *)
LEMMA SkipsRefines ==
  ASSUME RefInv, TypeOK', HandOK', Dispatched, cur # EOF, Skips
  PROVE  L!TakeToken \/ UNCHANGED <<input, LeftBar, TokensBar, OutcomeBar>>
<1>1. /\ EofInHand' /\ input' = input /\ Start' = Consumed
      /\ Len(input) \in Nat /\ Start \in 0 .. Len(input) /\ input \in Seq(Char)
  BY AfterDispatch DEF Skips
<1>2. /\ cur = Consumed /\ cur = Start + 1 /\ cur \in 1 .. Len(input)
      /\ input[cur] \notin EofChars /\ ~Stops(input, cur, EofChars)
  BY InHand DEF RefInv, TextInv, Dispatched
<1>3. Skip(input, From(input, Start'), EofChars) = Skip(input, From(input, Start), EofChars)
  <2>1. PICK a, b : a = Start /\ b = Start'
    OBVIOUS
  <2>2. a \in 0 .. Len(input) /\ b = a + 1 /\ b = cur
    BY <1>1, <1>2, <2>1
  <2>3. b \in a .. Len(input) /\ \A p \in a + 1 .. b : p = cur
    BY ONLY <1>1, <1>2, <2>2
  <2>4. \A p \in a + 1 .. b : ~Stops(input, p, EofChars)
    BY ONLY <1>2, <2>3
  <2>5. Skip(input, From(input, a), EofChars) = Skip(input, From(input, b), EofChars)
    BY ONLY <1>1, <2>2, <2>3, <2>4, SkipDrop
  <2> QED
    BY ONLY <2>1, <2>5
<1>4. CASE ~is_comment /\ Returns
  <2>1. input[cur] \in {"space", "semi"} /\ input[Start + 1] = input[cur]
    BY <1>2, <1>4 DEF Skips
  <2>2. PICK m : m = IF Start < Len(input) /\ input[Start + 1] \in EofChars
                     THEN Start + 1 ELSE Start
    OBVIOUS
  <2>3. m = Start
    BY <1>2, <2>1, <2>2
  <2>4. EndsBefore(Spell(token), input[Start + 1])
    <3>1. PICK w, c : w = Spell(token) /\ c = input[Start + 1]
      OBVIOUS
    <3>2. /\ w \in Seq(Char) /\ Len(w) >= 1
          /\ Kind(w) \in {"IDENTIFIER", "INT", "FLOAT", "NEWLINE"} /\ c \in {"space", "semi"}
      BY <1>4, <2>1, <3>1, TokenWord DEF Returns
    <3>3. \A t : ~Grows(Kind(w), c, t)
      BY ONLY <3>2 DEF Grows
    <3>4. EndsBefore(w, c)
      BY ONLY <3>2, <3>3, WordEnds
    <3> QED
      BY <3>1, <3>4
  <2>5. Start < Len(input) /\ detected_token_type # "NEWLINE" =>
           input[Start + 1] \in Delimiters \cup EofChars
    BY <2>1 DEF Delimiters
  <2>6. \/ Start = Len(input) \/ EndsBefore(Spell(token), input[Start + 1])
    BY <2>4
  <2>7. Skip(input, From(input, Start'), EofChars) = Skip(input, From(input, m), EofChars)
    BY <1>3, <2>3
  <2>8. L!TakeToken
    BY ONLY <1>4, <2>2, <2>5, <2>6, <2>7, ReturnsTakes, RefInv, TypeOK', HandOK', Dispatched
  <2> QED
    BY <2>8
<1>5. CASE EmptyStays /\ UNCHANGED status
  <2>1. token = <<>> /\ token' = <<>> /\ UNCHANGED returned
    BY <1>5 DEF EmptyStays, token_vars
  <2>2. LeftBar = Skip(input, From(input, Start), EofChars)
    BY <2>1, LeftBarIs DEF RefInv, TextInv
  <2>3. LeftBar' = Skip(input, From(input, Start'), EofChars)
    BY <1>1, <2>1, LeftBarNext
  <2>4. LeftBar' = LeftBar
    BY <1>3, <2>2, <2>3
  <2> QED
    BY <1>1, <1>5, <2>1, <2>4, StutterIs
<1> QED
  BY <1>4, <1>5 DEF Skips

(* So does a character put back.                                           *)
LEMMA PutsBackRefines ==
  ASSUME RefInv, TypeOK', HandOK', Dispatched, cur # EOF, PutsBack
  PROVE  L!TakeToken \/ UNCHANGED <<input, LeftBar, TokensBar, OutcomeBar>>
<1>1. /\ cur = Consumed /\ cur = Start + 1 /\ cur \in 1 .. Len(input)
      /\ input[cur] \notin EofChars
  BY InHand DEF RefInv, TextInv, Dispatched
<1>2. /\ EofInHand' /\ input' = input /\ Start' = Start
      /\ Len(input) \in Nat /\ Start \in 0 .. Len(input) /\ input \in Seq(Char)
  <2>1. last_char' # NO_LAST_CHAR
    BY <1>1 DEF PutsBack, NO_LAST_CHAR
  <2> QED
    BY <1>1, <2>1, AfterDispatch
<1>3. CASE ~is_comment /\ Returns
  <2>1. /\ detected_token_type # "NEWLINE" =>
             input[cur] \in {"cr", "lf", "comma", "colon"}
        /\ detected_token_type = "NEWLINE" =>
             ~(input[cur] = "lf" /\ input[token[1]] = "cr")
    BY <1>3 DEF PutsBack
  <2>2. PICK m : m = IF Start < Len(input) /\ input[Start + 1] \in EofChars
                     THEN Start + 1 ELSE Start
    OBVIOUS
  <2>3. m = Start /\ input[Start + 1] = input[cur]
    BY <1>1, <2>2
  <2>4. EndsBefore(Spell(token), input[Start + 1])
    <3>1. PICK w, c : w = Spell(token) /\ c = input[Start + 1]
      OBVIOUS
    <3>2. /\ w \in Seq(Char) /\ Len(w) >= 1 /\ Kind(w) = detected_token_type
          /\ Kind(w) \in {"IDENTIFIER", "INT", "FLOAT", "NEWLINE"}
          /\ w[1] = input[token[1]]
      BY <1>3, <3>1, TokenWord DEF Returns
    <3>3. /\ Kind(w) # "NEWLINE" => c \in {"cr", "lf", "comma", "colon"}
          /\ Kind(w) = "NEWLINE" => ~(w[1] = "cr" /\ c = "lf")
      BY <2>1, <2>3, <3>1, <3>2
    <3>4. Kind(w) \in {"IDENTIFIER", "INT", "FLOAT"} => \A t : ~Grows(Kind(w), c, t)
      BY ONLY <3>3 DEF Grows
    <3>5. EndsBefore(w, c)
      BY ONLY <3>2, <3>3, <3>4, WordEnds
    <3> QED
      BY <3>1, <3>5
  <2>5. Start < Len(input) /\ detected_token_type # "NEWLINE" =>
           input[Start + 1] \in Delimiters \cup EofChars
    BY <2>1, <2>3 DEF Delimiters, Newlines
  <2>6. \/ Start = Len(input) \/ EndsBefore(Spell(token), input[Start + 1])
    BY <2>4
  <2>7. Skip(input, From(input, Start'), EofChars) = Skip(input, From(input, m), EofChars)
    BY <1>2, <2>3
  <2>8. L!TakeToken
    BY ONLY <1>3, <2>2, <2>5, <2>6, <2>7, ReturnsTakes, RefInv, TypeOK', HandOK', Dispatched
  <2> QED
    BY <2>8
<1>4. CASE EmptyStays /\ UNCHANGED status
  <2>1. token = <<>> /\ token' = <<>> /\ UNCHANGED returned
    BY <1>4 DEF EmptyStays, token_vars
  <2>2. LeftBar = Skip(input, From(input, Start), EofChars)
    BY <2>1, LeftBarIs DEF RefInv, TextInv
  <2>3. LeftBar' = Skip(input, From(input, Start'), EofChars)
    BY <1>2, <2>1, LeftBarNext
  <2>4. LeftBar' = LeftBar
    BY <1>2, <2>2, <2>3
  <2> QED
    BY <1>2, <1>4, <2>1, <2>4, StutterIs
<1> QED
  BY <1>3, <1>4 DEF PutsBack

(* Text in hand is the next of what is left, behind the token.             *)
LEMMA TextLeft ==
  ASSUME RefInv, Dispatched, cur # EOF, TextInHand
  PROVE  /\ LeftBar = token \o From(input, Start)
         /\ token \o From(input, Start) = Append(token, cur) \o From(input, cur)
<1>1. /\ Len(input) \in Nat /\ Start \in 0 .. Len(input) /\ input \in Seq(Char)
      /\ token \in Seq(Position)
  BY AfterDispatch DEF RefInv, TypeOK
<1>2. /\ cur = Start + 1 /\ cur \in 1 .. Len(input) /\ cur \in 0 .. Len(input)
      /\ Stops(input, cur, EofChars)
  BY InHand DEF RefInv, TextInv, Dispatched
<1>3. PICK f, g : f = From(input, cur) /\ g = From(input, Start)
  OBVIOUS
<1>4. f \in Seq(Position)
  BY ONLY <1>1, <1>2, <1>3, FromType
<1>5. g \in Seq(Position) /\ Len(g) >= 1 /\ g[1] = cur
  <2>1. g \in Seq(Position) /\ Len(g) = Len(input) - Start
        /\ \A i \in 1 .. Len(input) - Start : g[i] = Start + i
    BY ONLY <1>1, <1>3, FromType
  <2>2. 1 \in 1 .. Len(input) - Start
    BY ONLY <1>1, <1>2
  <2> QED
    BY ONLY <1>1, <1>2, <2>1, <2>2
<1>6. LeftBar = token \o g
  <2>1. CASE token # <<>>
    BY <1>3, <2>1, LeftBarIs DEF RefInv, TextInv
  <2>2. CASE token = <<>>
    <3>1. LeftBar = Skip(input, g, EofChars)
      BY <1>3, <2>2, LeftBarIs DEF RefInv, TextInv
    <3>2. Skip(input, g, EofChars) = g
      BY ONLY <1>2, <1>5, SkipNone
    <3>3. <<>> \o g = g
      BY ONLY <1>5, ConcatEmptySeq
    <3> QED
      BY ONLY <2>2, <3>1, <3>2, <3>3
  <2> QED
    BY ONLY <2>1, <2>2
<1>7. PICK t, e : t = token /\ e = <<cur>>
  OBVIOUS
<1>8. e \o f = g
  <2>1. <<cur>> \o From(input, cur) = From(input, cur - 1)
    BY ONLY <1>1, <1>2, FromCons
  <2>2. cur - 1 = Start
    BY ONLY <1>1, <1>2
  <2> QED
    BY ONLY <1>3, <1>7, <2>1, <2>2
<1>9. t \in Seq(Position) /\ e \in Seq(Position) /\ Append(token, cur) = t \o e
  <2>1. cur \in Position
    BY ONLY <1>2 DEF Position
  <2>2. <<cur>> \in Seq(Position) /\ Append(token, cur) = token \o <<cur>>
    BY ONLY <1>1, <2>1, AppendIsConcat
  <2> QED
    BY ONLY <1>1, <1>7, <2>2
<1>10. t \o e \o f = t \o (e \o f)
  BY ONLY <1>4, <1>9, ConcatAssociative
<1> QED
  BY ONLY <1>3, <1>6, <1>7, <1>8, <1>9, <1>10

(* A character kept is left as it was, now within the token.               *)
LEMMA KeepsRefines ==
  ASSUME RefInv, TypeOK', HandOK', Dispatched, cur # EOF, Keeps
  PROVE  UNCHANGED <<input, LeftBar, TokensBar, OutcomeBar>>
<1>1. EofInHand' /\ input' = input /\ Start' = Consumed
  BY AfterDispatch DEF Keeps
<1>2. cur = Consumed
  BY InHand DEF RefInv, TextInv, Dispatched
<1>3. Left = Append(token, cur) \o From(input, cur)
  BY LeftIs, TextLeft DEF RefInv, TextInv, Keeps
<1>4. Left' = token' \o From(input', Start')
  BY <1>1, LeftNext
<1>5. Left' = Left
  BY <1>1, <1>2, <1>3, <1>4 DEF Keeps
<1>6. LeftBar' = LeftBar /\ UNCHANGED <<input, returned, status>>
  BY <1>1, <1>5 DEF LeftBar, EofChars, Keeps, result_vars
<1> QED
  BY ONLY <1>6, StutterIs

(* A character that completes the token is the last of what is cut off.    *)
LEMMA JoinsRefines ==
  ASSUME RefInv, TypeOK', HandOK', Dispatched, cur # EOF, Joins
  PROVE  L!TakeToken
<1>1. /\ EofInHand' /\ input' = input /\ Start' = Consumed
      /\ Len(input) \in Nat /\ input \in Seq(Char)
  BY AfterDispatch DEF Joins
<1>2. cur = Consumed /\ cur \in 1 .. Len(input) /\ cur \in 0 .. Len(input)
  BY InHand DEF RefInv, TextInv, Dispatched
<1>3. PICK type \in {"COMMA", "COLON", "NEWLINE"} :
        ReturnToken(type, Append(token, cur)) /\ Completes(type)
  BY DEF Joins
<1>4. PICK v, w : v = Append(token, cur) /\ w = Spell(v)
  OBVIOUS
<1>5. token \in Seq(1 .. Len(input)) /\ Len(token) \in Nat
      /\ (token = <<>> <=> Len(token) = 0)
  BY TokenPositions, LenProperties, EmptySeq DEF RefInv, TextInv
<1>6. /\ v \in Seq(1 .. Len(input)) /\ Len(v) = Len(token) + 1
      /\ w \in Seq(Char) /\ w[Len(token) + 1] = input[cur] /\ Extends(w, Spell(token))
      /\ Len(Spell(token)) = Len(token)
  BY ONLY <1>1, <1>2, <1>4, <1>5, SpellAppend
<1>7. Len(w) = Len(v)
  BY ONLY <1>1, <1>4, <1>6, SpellType
<1>8. LeftBar = v \o From(input, cur)
  BY <1>4, TextLeft DEF Joins
<1>9. LeftBar' = Skip(input, From(input, cur), EofChars)
  <2>1. token' = <<>>
    BY <1>3 DEF ReturnToken
  <2> QED
    BY <1>1, <1>2, <2>1, LeftBarNext
<1>10. ASSUME type = "NEWLINE"
       PROVE  Kind(w) = type /\ Len(w) = 2 /\ w = <<"cr", "lf">>
  <2>1. Len(token) = 1 /\ input[token[1]] = "cr" /\ input[cur] = "lf"
    BY <1>3, <1>10 DEF Completes
  <2>2. Spell(token)[1] = "cr"
    <3>1. 1 \in 1 .. Len(token)
      BY <2>1
    <3> QED
      BY ONLY <1>1, <1>5, <2>1, <3>1, SpellType
  <2>3. Len(w) = 2 /\ w[1] = "cr" /\ w[2] = "lf"
    <3>1. 1 \in 1 .. Len(Spell(token))
      BY <1>6, <2>1
    <3>2. w[1] = "cr"
      BY ONLY <1>6, <2>2, <3>1 DEF Extends
    <3>3. w[1 + 1] = "lf" /\ Len(w) = 1 + 1
      BY ONLY <1>6, <1>7, <2>1
    <3> QED
      BY ONLY <3>2, <3>3
  <2>4. w = <<"cr", "lf">>
    BY ONLY <1>6, <2>3, Short
  <2>5. Kind(w) = type
    <3>1. IsBreak(w)
      BY ONLY <2>3 DEF IsBreak
    <3> QED
      BY ONLY <1>6, <1>10, <3>1, KindIs
  <2> QED
    BY ONLY <2>3, <2>4, <2>5
<1>11. ASSUME type # "NEWLINE"
       PROVE  Kind(w) = type /\ Len(w) = 1
  <2>1. token = <<>> /\ \/ type = "COMMA" /\ input[cur] = "comma"
                        \/ type = "COLON" /\ input[cur] = "colon"
    BY <1>3, <1>11 DEF Completes
  <2>2. Len(w) = 1 /\ w[1] = input[cur]
    BY ONLY <1>5, <1>6, <1>7, <2>1
  <2>3. Kind(w) = type
    BY ONLY <1>6, <2>1, <2>2, KindAlone
  <2> QED
    BY <2>2, <2>3
<1>12. Kind(Spell(v)) = type /\ type \in TokenType /\ type \in {"COMMA", "COLON", "NEWLINE"}
  BY <1>4, <1>10, <1>11 DEF TokenType
<1>13. Len(v) <= MaxTokenLen /\ v # <<>>
  BY <1>7, <1>10, <1>11, EmptySeq, LimitsAssumption
<1>14. cur = Len(input) \/ EndsBefore(Spell(v), input[cur + 1])
  <2>1. PICK c : c = input[cur + 1]
    OBVIOUS
  <2>2. /\ Kind(w) \in {"COMMA", "COLON", "NEWLINE"} /\ Len(w) >= 1
        /\ Kind(w) = "NEWLINE" => Len(w) = 2
    BY <1>10, <1>11
  <2>3. EndsBefore(w, c)
    BY ONLY <1>6, <2>2, WordEnds
  <2> QED
    BY <1>4, <2>1, <2>3
<1>15. PICK m : m = IF /\ type \notin {"COMMA", "COLON"}
                       /\ Spell(v) # <<"cr", "lf">>
                       /\ cur < Len(input) /\ input[cur + 1] \in EofChars
                    THEN cur + 1 ELSE cur
  OBVIOUS
<1>16. m = cur
  BY <1>4, <1>10, <1>12, <1>15
<1>17. ReturnToken(type, v) /\ TypeOK
  BY <1>3, <1>4 DEF RefInv
<1>18. cur < Len(input) /\ type \in {"IDENTIFIER", "INT", "FLOAT"} =>
         input[cur + 1] \in Delimiters \cup EofChars
  BY <1>12
<1>19. LeftBar' = Skip(input, From(input, m), EofChars) /\ input' = input
  BY <1>1, <1>9, <1>16
<1> QED
  BY ONLY <1>2, <1>6, <1>8, <1>12, <1>13, <1>14, <1>15, <1>17, <1>18, <1>19, TakesToken

(* A character that no token can take is left out.                         *)
LEMMA RejectsRefines ==
  ASSUME RefInv, TypeOK', HandOK', Dispatched, cur # EOF, Rejects
  PROVE  L!RejectCharacter
<1>1. /\ EofInHand' /\ input' = input /\ Start' = Consumed
      /\ Len(input) \in Nat /\ input \in Seq(Char) /\ Start \in 0 .. Len(input)
  BY AfterDispatch DEF Rejects
<1>2. /\ cur = Consumed /\ cur = Start + 1 /\ cur \in 1 .. Len(input)
      /\ input[cur] \notin EofChars
  BY InHand DEF RefInv, TextInv, Dispatched
<1>3. LeftBar = token \o From(input, Start)
  BY TextLeft DEF Rejects
<1>4. token' = token /\ UNCHANGED returned /\ status' \in 1 .. 255
  BY DEF Rejects, token_vars
<1>5. LeftBar' = Skip(input, token \o From(input, Start + 1), EofChars)
  <2>1. Left' = token' \o From(input', Start')
    BY <1>1, LeftNext
  <2> QED
    BY <1>1, <1>2, <1>4, <2>1 DEF LeftBar, EofChars
<1>6. /\ token \in Seq(1 .. Len(input)) /\ Len(token) <= MaxTokenLen
      /\ Len(token) \in Nat
  BY TokenPositions, LenProperties DEF RefInv, TextInv, TypeOK
<1>7. PICK w, c : w = Spell(token) /\ c = input[Start + 1]
  OBVIOUS
<1>8. w \in Seq(Char) /\ Len(w) = Len(token)
  BY ONLY <1>1, <1>6, <1>7, SpellType
<1>9. /\ c = input[cur] /\ c \notin EofChars
      /\ c \notin {"cr", "lf", "comma", "colon", "space", "semi"}
  BY <1>2, <1>7 DEF Rejects, TextInHand
<1>10. /\ Len(token) = MaxTokenLen \/ EndsBefore(w, c)
       /\ token = <<>> \/ Kind(w) \in {"IDENTIFIER", "INT", "FLOAT"}
  <2>1. CASE token = <<>>
    <3>1. w = <<>>
      BY ONLY <1>8, <2>1, EmptySeq
    <3>2. \A type : ~Begins(c, type)
      BY <1>9, <2>1 DEF Rejects
    <3>3. EndsBefore(w, c)
      BY ONLY <1>8, <1>9, <3>1, <3>2, EmptyEnds
    <3> QED
      BY <2>1, <3>3
  <2>2. CASE token # <<>>
    <3>1. /\ Kind(w) = detected_token_type /\ Len(w) >= 1
          /\ Kind(w) \in {"IDENTIFIER", "INT", "FLOAT"}
      BY <1>7, <2>2, TokenWord DEF Rejects
    <3>2. \/ Len(token) >= MaxTokenLen
          \/ \A type : ~Grows(Kind(w), c, type)
      BY <1>9, <2>2, <3>1 DEF Rejects
    <3>3. ASSUME \A type : ~Grows(Kind(w), c, type) PROVE EndsBefore(w, c)
      BY ONLY <1>8, <3>1, <3>3, WordEnds
    <3>4. Len(token) >= MaxTokenLen => Len(token) = MaxTokenLen
      BY ONLY <1>6, LimitsAssumption
    <3> QED
      BY ONLY <3>1, <3>2, <3>3, <3>4
  <2> QED
    BY ONLY <2>1, <2>2
<1>11. Start < Len(input)
  BY ONLY <1>1, <1>2
<1>12. token = <<>> \/ /\ Kind(Spell(token)) \in {"IDENTIFIER", "INT", "FLOAT"}
                       /\ input[Start + 1] \notin Delimiters
  BY <1>7, <1>9, <1>10 DEF Delimiters, Newlines
<1>13. Len(token) = MaxTokenLen \/ EndsBefore(Spell(token), input[Start + 1])
  BY ONLY <1>7, <1>10
<1>14. TypeOK /\ input[Start + 1] \notin EofChars
  BY <1>7, <1>9 DEF RefInv
<1> QED
  BY ONLY <1>1, <1>3, <1>4, <1>5, <1>6, <1>11, <1>12, <1>13, <1>14, RejectsCharacter

-----------------------------------------------------------------------------
(* Another file                                                            *)

(* What is left of a text, s, is cut at the position n, behind its first k *)
(* positions, and another text goes on from there.                         *)
CutAt(text, other, v, a, n, s, k) ==
  /\ text \in Seq(Char) /\ other \in Seq(Char) /\ v \in Seq(Position)
  /\ a \in 0 .. Len(text) /\ n \in a .. Len(text) /\ n <= Len(other)
  /\ Joined(text, v, a, s) /\ k = Len(v) + (n - a)

GoesOn(other, v, a, n, s, k) ==
  SubSeq(s, 1, k) \o From(other, n) = v \o From(other, a)

LEMMA JoinedCut ==
  ASSUME NEW text, NEW other, NEW v, NEW a, NEW n, NEW s, NEW k,
         CutAt(text, other, v, a, n, s, k)
  PROVE  GoesOn(other, v, a, n, s, k)
<1>0. /\ text \in Seq(Char) /\ other \in Seq(Char) /\ v \in Seq(Position)
      /\ a \in 0 .. Len(text) /\ n \in a .. Len(text) /\ n <= Len(other)
      /\ Joined(text, v, a, s) /\ k = Len(v) + (n - a)
  BY DEF CutAt
<1>1. /\ Len(text) \in Nat /\ Len(other) \in Nat /\ Len(v) \in Nat
      /\ a \in 0 .. Len(other) /\ n \in 0 .. Len(other) /\ a \in Nat /\ n \in Nat
      /\ n <= Len(text) /\ a <= n
  BY <1>0, LenProperties
<1>2. k \in Nat /\ k = Len(v) + (n - a)
  BY ONLY <1>1, <1>0
<1>3. /\ Len(s) = Len(v) + (Len(text) - a)
      /\ \A i \in 1 .. Len(v) : s[i] = v[i]
      /\ \A i \in 1 .. Len(text) - a : s[Len(v) + i] = a + i
  BY <1>0 DEF Joined
<1>4. PICK f, g : f = From(other, n) /\ g = From(other, a)
  OBVIOUS
<1>5. /\ f \in Seq(Position) /\ Len(f) = Len(other) - n
      /\ \A i \in 1 .. Len(other) - n : f[i] = n + i
  BY ONLY <1>1, <1>4, <1>0, FromType
<1>6. /\ g \in Seq(Position) /\ Len(g) = Len(other) - a
      /\ \A i \in 1 .. Len(other) - a : g[i] = a + i
  BY ONLY <1>1, <1>4, <1>0, FromType
<1>7. ASSUME NEW i \in 1 .. k
      PROVE  s[i] = IF i <= Len(v) THEN v[i] ELSE a + (i - Len(v))
  <2>1. CASE i <= Len(v)
    <3>1. i \in 1 .. Len(v)
      BY ONLY <1>1, <1>2, <2>1, i \in 1 .. k
    <3> QED
      BY ONLY <1>3, <2>1, <3>1
  <2>2. CASE ~(i <= Len(v))
    <3>1. i - Len(v) \in 1 .. Len(text) - a /\ Len(v) + (i - Len(v)) = i
      BY ONLY <1>1, <1>2, <2>2, i \in 1 .. k
    <3> QED
      BY ONLY <1>3, <2>2, <3>1
  <2> QED
    BY ONLY <2>1, <2>2
<1>8. ASSUME NEW i \in 1 .. k PROVE s[i] \in Position
  <2>1. CASE i <= Len(v)
    <3>1. i \in 1 .. Len(v)
      BY ONLY <1>1, <1>2, <2>1, i \in 1 .. k
    <3>2. v[i] \in Position
      BY ONLY <3>1, <1>0, ElementOfSeq
    <3> QED
      BY <1>7, <2>1, <3>2
  <2>2. CASE ~(i <= Len(v))
    <3>1. a + (i - Len(v)) \in Position
      BY ONLY <1>1, <1>2, <2>2, i \in 1 .. k DEF Position
    <3> QED
      BY <1>7, <2>2, <3>1
  <2> QED
    BY ONLY <2>1, <2>2
<1>9. PICK b : b = SubSeq(s, 1, k)
  OBVIOUS
<1>10. b \in Seq(Position) /\ Len(b) = k /\ \A i \in 1 .. k : b[i] = s[i]
  <2>1. 1 \in Int /\ k \in Int
    BY <1>2
  <2>2. /\ b \in Seq(Position) /\ Len(b) = IF 1 <= k THEN k - 1 + 1 ELSE 0
        /\ \A i \in 1 .. k - 1 + 1 : b[i] = s[1 + i - 1]
    BY ONLY <1>8, <1>9, <2>1, SubSeqProperties
  <2> QED
    BY ONLY <1>2, <2>2
<1>11. PICK p, q : p = b \o f /\ q = v \o g
  OBVIOUS
<1>12. /\ p \in Seq(Position) /\ Len(p) = k + (Len(other) - n)
       /\ \A i \in 1 .. k + (Len(other) - n) : p[i] = IF i <= k THEN b[i] ELSE f[i - k]
  <2>1. p = b \o f
    BY ONLY <1>11
  <2>2. /\ p \in Seq(Position) /\ Len(p) = Len(b) + Len(f)
        /\ \A i \in 1 .. Len(b) + Len(f) : p[i] = IF i <= Len(b) THEN b[i] ELSE f[i - Len(b)]
    BY ONLY <1>5, <1>10, <2>1, ConcatProperties
  <2>3. Len(b) = k /\ Len(f) = Len(other) - n
    BY ONLY <1>5, <1>10
  <2> QED
    BY ONLY <2>2, <2>3
<1>13. /\ q \in Seq(Position) /\ Len(q) = Len(v) + (Len(other) - a)
       /\ \A i \in 1 .. Len(v) + (Len(other) - a) :
            q[i] = IF i <= Len(v) THEN v[i] ELSE g[i - Len(v)]
  <2>1. v \in Seq(Position)
    BY <1>0
  <2>2. q = v \o g
    BY ONLY <1>11
  <2>3. /\ q \in Seq(Position) /\ Len(q) = Len(v) + Len(g)
        /\ \A i \in 1 .. Len(v) + Len(g) : q[i] = IF i <= Len(v) THEN v[i] ELSE g[i - Len(v)]
    BY ONLY <1>6, <2>1, <2>2, ConcatProperties
  <2>4. Len(g) = Len(other) - a
    BY ONLY <1>6
  <2> QED
    BY ONLY <2>3, <2>4
<1>14. Len(p) = Len(q) /\ Len(p) = k + (Len(other) - n)
  BY ONLY <1>1, <1>2, <1>12, <1>13
<1>15. ASSUME NEW i \in 1 .. Len(p)
       PROVE  /\ p[i] = IF i <= Len(v) THEN v[i] ELSE a + (i - Len(v))
              /\ q[i] = IF i <= Len(v) THEN v[i] ELSE a + (i - Len(v))
  <2>1. i \in 1 .. k + (Len(other) - n) /\ i \in 1 .. Len(v) + (Len(other) - a)
    BY ONLY <1>1, <1>2, <1>14, i \in 1 .. Len(p)
  <2>2. q[i] = IF i <= Len(v) THEN v[i] ELSE a + (i - Len(v))
    <3>1. ~(i <= Len(v)) => i - Len(v) \in 1 .. Len(other) - a
      BY ONLY <1>1, <2>1
    <3> QED
      BY ONLY <1>6, <1>13, <2>1, <3>1
  <2>3. CASE i <= k
    <3>1. i \in 1 .. k
      BY ONLY <1>2, <2>1, <2>3
    <3> QED
      BY ONLY <1>7, <1>10, <1>12, <2>1, <2>2, <2>3, <3>1
  <2>4. CASE ~(i <= k)
    <3>1. i - k \in 1 .. Len(other) - n /\ ~(i <= Len(v))
          /\ n + (i - k) = a + (i - Len(v))
      BY ONLY <1>1, <1>2, <2>1, <2>4
    <3> QED
      BY ONLY <1>5, <1>12, <2>1, <2>2, <2>4, <3>1
  <2> QED
    BY ONLY <2>3, <2>4
<1>16. \A i \in 1 .. Len(p) : p[i] = q[i]
  BY <1>15
<1>17. p = q
  BY ONLY <1>12, <1>13, <1>14, <1>16, SeqEqual
<1> QED
  <2>1. b \o f = v \o g
    BY ONLY <1>11, <1>17
  <2> QED
    BY ONLY <1>4, <1>9, <2>1 DEF GoesOn

(* Whether Skip stops at a position is told by the text up to there.       *)
LEMMA StopsSame ==
  ASSUME NEW text, NEW other, NEW E, NEW n \in Nat,
         \A p \in 1 .. n : other[p] = text[p], NEW p \in 1 .. n
  PROVE  Stops(other, p, E) <=> Stops(text, p, E)
<1>1. \A q \in 1 .. p : q \in 1 .. n /\ \A r \in q .. p : r \in 1 .. n
  OBVIOUS
<1>2. InComment(other, p) <=> InComment(text, p)
  BY <1>1 DEF InComment
<1> QED
  BY <1>2 DEF Stops, PassedOver

(* What is left is the token and the text behind it, or, with no token,    *)
(* the text from the first position that is not passed over.               *)
LEMMA LeftShape ==
  ASSUME RefInv
  PROVE  \E a \in Start .. Len(input) :
           /\ LeftBar = token \o From(input, a)
           /\ token # <<>> => a = Start
           /\ \A p \in Start + 1 .. a : ~Stops(input, p, EofChars)
<1>1. /\ Start \in 0 .. Len(input) /\ Len(input) \in Nat /\ input \in Seq(Char)
  BY StartType DEF RefInv, TextInv, TypeOK
<1>2. LeftBar = IF token = <<>> THEN Skip(input, From(input, Start), EofChars)
                                ELSE token \o From(input, Start)
  BY LeftBarIs DEF RefInv, TextInv
<1>3. CASE token # <<>>
  <2>1. Start \in Start .. Len(input) /\ ~\E p : p \in Start + 1 .. Start
    BY ONLY <1>1
  <2> QED
    BY ONLY <1>2, <1>3, <2>1
<1>4. CASE token = <<>>
  <2>1. PICK f : f = From(input, Start)
    OBVIOUS
  <2>2. /\ f \in Seq(Position) /\ Len(f) = Len(input) - Start
        /\ \A i \in 1 .. Len(input) - Start : f[i] = Start + i
    BY ONLY <1>1, <2>1, FromType
  <2>3. PICK m \in 0 .. Len(f) :
          /\ \A i \in 1 .. m : ~Stops(input, f[i], EofChars)
          /\ Skip(input, f, EofChars) = SubSeq(f, m + 1, Len(f))
    <3>1. f \in Seq(Position)
      BY ONLY <2>2
    <3>2. \E m \in 0 .. Len(f) :
            /\ \A i \in 1 .. m : ~Stops(input, f[i], EofChars)
            /\ m < Len(f) => Stops(input, f[m + 1], EofChars)
            /\ Skip(input, f, EofChars) = SubSeq(f, m + 1, Len(f))
      BY ONLY <3>1, SkipExists
    <3> QED
      BY ONLY <3>2
  <2>4. m \in 0 .. Len(input) - Start
    BY ONLY <2>2, <2>3
  <2>5. SubSeq(f, m + 1, Len(f)) = From(input, Start + m)
    <3>1. SubSeq(From(input, Start), m + 1, Len(input) - Start) = From(input, Start + m)
      BY ONLY <1>1, <2>4, FromRest
    <3> QED
      BY ONLY <2>1, <2>2, <3>1
  <2>6. PICK a : a = Start + m
    OBVIOUS
  <2>7. a \in Start .. Len(input) /\ a \in 0 .. Len(input)
    BY ONLY <1>1, <2>4, <2>6
  <2>8. ASSUME NEW p \in Start + 1 .. a PROVE ~Stops(input, p, EofChars)
    <3>1. p - Start \in 1 .. m /\ p - Start \in 1 .. Len(input) - Start
          /\ Start + (p - Start) = p
      BY ONLY <1>1, <2>4, <2>6, p \in Start + 1 .. a
    <3>2. f[p - Start] = p
      BY ONLY <2>2, <3>1
    <3> QED
      BY ONLY <2>3, <3>1, <3>2
  <2>9. From(input, a) \in Seq(Position)
    BY ONLY <1>1, <2>7, FromType
  <2>10. LeftBar = token \o From(input, a)
    <3>1. LeftBar = From(input, a)
      BY ONLY <1>2, <1>4, <2>1, <2>3, <2>5, <2>6
    <3> QED
      BY ONLY <1>4, <2>9, <3>1, ConcatEmptySeq
  <2> QED
    BY ONLY <1>4, <2>7, <2>8, <2>10
<1> QED
  BY ONLY <1>3, <1>4

(* Another file takes the place of what is behind the characters read.     *)
LEMMA FileRefines ==
  ASSUME RefInv, (TypeOK /\ HandOK /\ EofInHand)', SetTokenizerFile
  PROVE  L!ChangeFile
<1> DEFINE n == fread_pos
<1>1. /\ Len(input) \in Nat /\ n \in 0 .. Len(input) /\ n \in Nat /\ input \in Seq(Char)
      /\ Len(input') \in Nat /\ n \in 0 .. Len(input') /\ input' \in Seq(Char)
  <2>1. n' = n
    BY DEF SetTokenizerFile, buffer_vars
  <2> QED
    BY <2>1, LenProperties DEF RefInv, TypeOK
<1>2. /\ Start = Settled /\ Start' = Start /\ Start \in 0 .. n /\ Start \in Nat
  <2>1. Start = Settled /\ Start' = Start
    BY DEF SetTokenizerFile, Start, Settled, Consumed, buffer_vars
  <2> QED
    BY <1>1, <2>1, SettledType DEF RefInv, TextInv
<1>3. PICK f \in Files : input' = SubSeq(input, 1, n) \o f
  BY DEF SetTokenizerFile
<1>4. PICK h : h = SubSeq(input, 1, n)
  OBVIOUS
<1>5. /\ h \in Seq(Char) /\ Len(h) = n
      /\ \A p \in 1 .. n : h[p] = input[p]
  <2>1. \A i \in 1 .. n : input[i] \in Char
    BY <1>1, ElementOfSeq
  <2>2. 1 \in Int /\ n \in Int
    BY <1>1
  <2>3. /\ h \in Seq(Char) /\ Len(h) = IF 1 <= n THEN n - 1 + 1 ELSE 0
        /\ \A i \in 1 .. n - 1 + 1 : h[i] = input[1 + i - 1]
    BY ONLY <1>4, <2>1, <2>2, SubSeqProperties
  <2> QED
    BY ONLY <1>1, <2>3
<1>6. f \in Seq(Char) /\ input' = h \o f
  BY <1>3, <1>4, FilesAssumption
<1>7. \A p \in 1 .. n : input'[p] = input[p]
  <2>1. \A i \in 1 .. Len(h) + Len(f) : (h \o f)[i] = IF i <= Len(h) THEN h[i] ELSE f[i - Len(h)]
    BY ONLY <1>5, <1>6, ConcatProperties
  <2>2. Len(f) \in Nat
    BY ONLY <1>6, LenProperties
  <2> QED
    BY ONLY <1>1, <1>5, <1>6, <2>1, <2>2
<1>8. SubSeq(input', 1, n) = SubSeq(input, 1, n)
  <2>1. CASE n = 0
    BY <1>1, <2>1, SubSeqEmpty
  <2>2. CASE n # 0
    <3>1. 1 \in 1 .. Len(h) /\ n \in 1 .. Len(h)
      BY ONLY <1>1, <1>5, <2>2
    <3>2. SubSeq(h \o f, 1, n) = SubSeq(h, 1, n)
      BY ONLY <1>5, <1>6, <3>1, SubSeqOfConcat1
    <3>3. SubSeq(h, 1, Len(h)) = h
      BY ONLY <1>5, SubSeqFull
    <3> QED
      BY ONLY <1>4, <1>5, <1>6, <3>2, <3>3
  <2> QED
    BY ONLY <2>1, <2>2
<1>9. PICK a \in Start .. Len(input) :
        /\ LeftBar = token \o From(input, a)
        /\ token # <<>> => a = Start
        /\ \A p \in Start + 1 .. a : ~Stops(input, p, EofChars)
  BY LeftShape
<1>10. a \in 0 .. Len(input) /\ a \in Nat /\ Start <= a /\ a <= Len(input)
  BY <1>1, <1>2
<1>11. /\ token \in Seq(1 .. Len(input)) /\ token \in Seq(Position)
       /\ \A i \in 1 .. Len(token) : token[i] \in 1 .. Start
       /\ Len(token) \in Nat /\ (token = <<>> <=> Len(token) = 0)
  BY <1>2, TokenPositions, LenProperties, EmptySeq DEF RefInv, TextInv, TypeOK
<1>12. PICK s : s = LeftBar
  OBVIOUS
<1>13. Joined(input, token, a, s)
  BY ONLY <1>1, <1>9, <1>10, <1>11, <1>12, ConcatFrom
<1>14. /\ Len(s) = Len(token) + (Len(input) - a)
       /\ \A i \in 1 .. Len(token) : s[i] = token[i]
       /\ \A i \in 1 .. Len(input) - a : s[Len(token) + i] = a + i
  BY ONLY <1>13 DEF Joined
<1>15. PICK k : k = IF a <= n THEN Len(token) + (n - a) ELSE 0
  OBVIOUS
<1>16. k \in 0 .. Len(s)
  BY ONLY <1>1, <1>10, <1>11, <1>14, <1>15
<1>17. ASSUME NEW p \in n + 1 .. Len(input)
       PROVE  PassedOver(input, p) \/ \E i \in 1 .. Len(s) : s[i] = p
  <2>1. CASE p <= a
    <3>1. p \in Start + 1 .. a
      BY ONLY <1>1, <1>2, <1>10, <2>1, p \in n + 1 .. Len(input)
    <3>2. ~Stops(input, p, EofChars)
      BY <1>9, <3>1
    <3> QED
      BY ONLY <3>2 DEF Stops
  <2>2. CASE ~(p <= a)
    <3>1. /\ p - a \in 1 .. Len(input) - a /\ a + (p - a) = p
          /\ Len(token) + (p - a) \in 1 .. Len(s)
      BY ONLY <1>1, <1>10, <1>11, <1>14, <2>2, p \in n + 1 .. Len(input)
    <3>2. s[Len(token) + (p - a)] = p
      BY ONLY <1>14, <3>1
    <3> QED
      BY ONLY <3>1, <3>2
  <2> QED
    BY ONLY <2>1, <2>2
<1>18. ASSUME NEW i \in 1 .. Len(s) PROVE s[i] <= n <=> i <= k
  <2>1. CASE i <= Len(token)
    <3>1. i \in 1 .. Len(token)
      BY ONLY <1>11, <2>1, i \in 1 .. Len(s)
    <3>2. s[i] \in 1 .. Start /\ a = Start
      BY ONLY <1>9, <1>11, <1>14, <3>1
    <3> QED
      BY ONLY <1>1, <1>2, <1>11, <1>15, <2>1, <3>2
  <2>2. CASE ~(i <= Len(token))
    <3>1. i - Len(token) \in 1 .. Len(input) - a /\ Len(token) + (i - Len(token)) = i
      BY ONLY <1>1, <1>10, <1>11, <1>14, <2>2, i \in 1 .. Len(s)
    <3>2. s[i] = a + (i - Len(token))
      BY ONLY <1>14, <3>1
    <3> QED
      BY ONLY <1>1, <1>10, <1>11, <1>15, <3>1, <3>2, i \in 1 .. Len(s)
  <2> QED
    BY ONLY <2>1, <2>2
<1>19. token' = token /\ UNCHANGED <<TokensBar, OutcomeBar>>
  BY DEF SetTokenizerFile, token_vars, result_vars, TokensBar, OutcomeBar
<1>20. LeftBar' = Skip(input', token \o From(input', Start), EofChars)
  <2>1. Left' = token' \o From(input', Start')
    BY LeftNext
  <2> QED
    BY <1>2, <1>19, <2>1 DEF LeftBar, EofChars
<1>21. PICK j : j = IF a <= n THEN a ELSE n
  OBVIOUS
<1>22. SubSeq(s, 1, k) \o From(input', n) = token \o From(input', j)
  <2>1. CASE a <= n
    <3>1. n \in a .. Len(input) /\ n <= Len(input') /\ k = Len(token) + (n - a)
      BY ONLY <1>1, <1>10, <1>15, <2>1
    <3>2. PICK o, x, v, m : o = input' /\ x = input /\ v = token /\ m = n
      OBVIOUS
    <3>3. /\ x \in Seq(Char) /\ o \in Seq(Char) /\ v \in Seq(Position)
          /\ a \in 0 .. Len(x) /\ m \in a .. Len(x) /\ m <= Len(o)
          /\ k = Len(v) + (m - a) /\ Joined(x, v, a, s)
      BY ONLY <1>1, <1>10, <1>11, <1>13, <3>1, <3>2
    <3>4. CutAt(x, o, v, a, m, s, k)
      BY ONLY <3>3 DEF CutAt
    <3>5. GoesOn(o, v, a, m, s, k)
      BY ONLY <3>4, JoinedCut
    <3> QED
      BY ONLY <1>21, <2>1, <3>2, <3>5 DEF GoesOn
  <2>2. CASE ~(a <= n)
    <3>1. token = <<>> /\ k = 0 /\ j = n
      BY ONLY <1>1, <1>2, <1>9, <1>15, <1>21, <2>2
    <3>2. SubSeq(s, 1, k) = <<>>
      BY ONLY <3>1, SubSeqEmpty
    <3> QED
      BY ONLY <3>1, <3>2
  <2> QED
    BY ONLY <2>1, <2>2
<1>23. LeftBar' = Skip(input', token \o From(input', j), EofChars)
  <2>1. CASE token # <<>>
    <3>1. j = Start
      BY ONLY <1>1, <1>2, <1>9, <1>21, <2>1
    <3> QED
      BY ONLY <1>20, <3>1
  <2>2. CASE token = <<>>
    <3>1. /\ j \in Start .. Len(input') /\ j \in 0 .. Len(input') /\ j <= n /\ j <= a
          /\ Start \in 0 .. Len(input')
      BY ONLY <1>1, <1>2, <1>10, <1>21
    <3>2. ASSUME NEW p \in Start + 1 .. j PROVE ~Stops(input', p, EofChars)
      <4>1. p \in 1 .. n /\ p \in Start + 1 .. a
        BY ONLY <1>1, <1>2, <1>10, <3>1, p \in Start + 1 .. j
      <4>2. ~Stops(input, p, EofChars)
        BY ONLY <1>9, <4>1
      <4>3. PICK o : o = input'
        OBVIOUS
      <4>4. n \in Nat /\ \A q \in 1 .. n : o[q] = input[q]
        BY ONLY <1>1, <1>7, <4>3
      <4>5. Stops(o, p, EofChars) <=> Stops(input, p, EofChars)
        BY ONLY <4>1, <4>4, StopsSame
      <4> QED
        BY ONLY <4>2, <4>3, <4>5
    <3>3. PICK o, b : o = input' /\ b = Start
      OBVIOUS
    <3>4. /\ o \in Seq(Char) /\ b \in 0 .. Len(o) /\ j \in b .. Len(o)
          /\ \A p \in b + 1 .. j : ~Stops(o, p, EofChars)
      BY ONLY <1>1, <3>1, <3>2, <3>3
    <3>5. Skip(o, From(o, b), EofChars) = Skip(o, From(o, j), EofChars)
      BY ONLY <3>4, SkipDrop
    <3>6. From(o, b) \in Seq(Position) /\ From(o, j) \in Seq(Position)
      <4>1. j \in 0 .. Len(o)
        BY ONLY <3>1, <3>3
      <4> QED
        BY ONLY <3>4, <4>1, FromType
    <3>7. <<>> \o From(o, b) = From(o, b) /\ <<>> \o From(o, j) = From(o, j)
      BY ONLY <3>6, ConcatEmptySeq
    <3> QED
      BY ONLY <1>20, <2>2, <3>3, <3>5, <3>7
  <2> QED
    BY ONLY <2>1, <2>2
<1>24. LeftBar' = Skip(input', SubSeq(s, 1, k) \o From(input', n), EofChars)
  BY ONLY <1>22, <1>23
<1>25. /\ k \in 0 .. Len(LeftBar) /\ n <= Len(input') /\ n \in 0 .. Len(input)
       /\ \A p \in n + 1 .. Len(input) :
            PassedOver(input, p) \/ \E i \in 1 .. Len(LeftBar) : LeftBar[i] = p
       /\ \A i \in 1 .. Len(LeftBar) : LeftBar[i] <= n <=> i <= k
       /\ LeftBar' = Skip(input', SubSeq(LeftBar, 1, k) \o From(input', n), EofChars)
  BY ONLY <1>1, <1>12, <1>16, <1>17, <1>18, <1>24
<1> QED
  BY ONLY <1>8, <1>19, <1>25, ChangeFileIs

-----------------------------------------------------------------------------
(* The refinement                                                          *)

LexerVars == <<input, LeftBar, TokensBar, OutcomeBar>>

LEMMA RefinementInit ==
  ASSUME Init
  PROVE  L!Init /\ EofInHand /\ KindOK
<1>1. Len(<<>>) = 0 /\ input = <<>> /\ token = <<>> /\ returned = <<>>
      /\ fread_pos = 0 /\ buf_len = 0 /\ pc = "idle" /\ last_char = NO_LAST_CHAR
      /\ status = 0
  BY EmptySeq DEF Init
<1>2. EofInHand /\ KindOK
  BY <1>1 DEF EofInHand, KindOK
<1>3. TypeOK /\ HandOK
  BY TypeInit, TextInit DEF TextInv
<1>4. LeftBar = <<>>
  <2>1. Start = 0
    BY <1>1, <1>3, SettledType DEF Start, Settled, Consumed, TypeOK
  <2>2. Left = <<>> \o From(input, 0)
    BY <1>1, <1>2, <1>3, <2>1, LeftIs
  <2>3. From(input, 0) \in Seq(Position) /\ Len(From(input, 0)) = 0
    <3>1. input \in Seq(Char) /\ 0 \in 0 .. Len(input) /\ Len(input) = 0
      BY <1>1, <1>3 DEF TypeOK
    <3>2. PICK n : n = 0
      OBVIOUS
    <3>3. n \in 0 .. Len(input)
      BY ONLY <3>1, <3>2
    <3>4. From(input, n) \in Seq(Position) /\ Len(From(input, n)) = Len(input) - n
      BY ONLY <3>1, <3>3, FromType
    <3> QED
      BY ONLY <3>1, <3>2, <3>4
  <2>4. Left = <<>>
    BY ONLY <2>2, <2>3, EmptySeq, ConcatEmptySeq
  <2> QED
    BY <1>1, <2>4 DEF LeftBar, Skip
<1>5. TokensBar = <<>> /\ OutcomeBar = "token"
  <2>1. Len(returned) = 0
    BY <1>1
  <2>2. TokensBar = [i \in 1 .. 0 |-> [token_type |-> returned[i].token_type,
                                      span |-> returned[i].span]]
    BY ONLY <2>1 DEF TokensBar
  <2>3. TokensBar = <<>>
    BY ONLY <2>2
  <2> QED
    BY <1>1, <2>3 DEF OutcomeBar, EOF
<1> QED
  BY <1>1, <1>2, <1>4, <1>5 DEF L!Init, LeftBar, TokensBar, OutcomeBar

LEMMA InvariantStep ==
  ASSUME ~ShortReads, RefInv, [Next]_vars
  PROVE  EofInHand' /\ KindOK'
<1> USE DEF RefInv, TextInv
<1>1. CASE UNCHANGED vars
  <2>1. EofInHand'
    BY <1>1 DEF vars, stream_vars, buffer_vars, EofInHand, Consumed, ReadsAsEof
  <2>2. KindOK'
    BY <1>1 DEF vars, stream_vars, token_vars, KindOK, Spell
  <2> QED
    BY <2>1, <2>2
<1>2. CASE (SetTokenizerFile \/ CallGetNextToken) /\ ~(UNCHANGED vars)
  <2>1. Waits
    BY <1>2, ClientWaits
  <2>2. EofInHand'
    BY <2>1 DEF Waits, EofInHand
  <2> QED
    BY <2>1, <2>2, KindStep DEF TokenizerStep
<1>3. CASE Fetch
  BY <1>3, FetchStart, FetchTakes, KindStep DEF TokenizerStep
<1>4. CASE Dispatch
  <2>1. Dispatched
    BY <1>4, DispatchShape
  <2> QED
    BY <2>1, AfterDispatch, KindStep DEF TokenizerStep
<1> QED
  BY <1>1, <1>2, <1>3, <1>4 DEF Next

LEMMA DispatchRefines ==
  ASSUME RefInv, RefInv', Dispatch
  PROVE  \/ L!TakeToken \/ L!RejectCharacter \/ L!FindEnd
         \/ UNCHANGED LexerVars
<1>1. Dispatched
  BY DispatchShape DEF RefInv
<1>2. TypeOK' /\ HandOK'
  BY DEF RefInv, TextInv
<1>3. CASE EndsAtEof
  BY <1>1, <1>2, <1>3, EndRefines
<1>4. CASE cur # EOF /\ Skips
  BY <1>1, <1>2, <1>4, SkipsRefines DEF LexerVars
<1>5. CASE cur # EOF /\ PutsBack
  BY <1>1, <1>2, <1>5, PutsBackRefines DEF LexerVars
<1>6. CASE cur # EOF /\ Keeps
  BY <1>1, <1>2, <1>6, KeepsRefines DEF LexerVars
<1>7. CASE cur # EOF /\ Joins
  BY <1>1, <1>2, <1>7, JoinsRefines
<1>8. CASE cur # EOF /\ Rejects
  BY <1>1, <1>2, <1>8, RejectsRefines
<1> QED
  BY <1>1, <1>3, <1>4, <1>5, <1>6, <1>7, <1>8 DEF Dispatched

(* Where neither the token nor the start of the text behind it changes.    *)
LEMMA StartStutters ==
  ASSUME RefInv, RefInv', Start' = Start,
         UNCHANGED <<input, token, returned, status>>
  PROVE  UNCHANGED LexerVars
<1>1. Left = token \o From(input, Start)
  BY LeftIs DEF RefInv, TextInv
<1>2. Left' = token' \o From(input', Start')
  BY LeftNext DEF RefInv, TextInv
<1>3. Left' = Left
  BY <1>1, <1>2
<1>4. LeftBar' = LeftBar
  BY <1>3 DEF LeftBar, EofChars
<1> QED
  BY <1>4, StutterIs DEF LexerVars

LEMMA RefinementStep ==
  ASSUME ~ShortReads, RefInv, RefInv', [Next]_vars
  PROVE  [L!Next]_LexerVars
<1>1. CASE SetTokenizerFile
  BY <1>1, FileRefines DEF RefInv, TextInv, L!Next
<1>2. CASE CallGetNextToken
  <2>1. UNCHANGED <<input, token, returned, status>>
    BY <1>2 DEF CallGetNextToken, stream_vars, token_vars, result_vars
  <2>2. Start' = Start
    BY <1>2 DEF CallGetNextToken, stream_vars, buffer_vars, Start, Settled, Consumed
  <2> QED
    BY <2>1, <2>2, StartStutters
<1>3. CASE Fetch
  <2>1. UNCHANGED <<input, token, returned, status>>
    BY <1>3, FetchTakes DEF RefInv, TextInv, Took
  <2>2. Start' = Start
    BY <1>3, FetchStart DEF RefInv, TextInv
  <2> QED
    BY <2>1, <2>2, StartStutters
<1>4. CASE Dispatch
  BY <1>4, DispatchRefines DEF L!Next
<1>5. CASE UNCHANGED vars
  <2>1. UNCHANGED <<input, token, returned, status>>
    BY <1>5 DEF vars, stream_vars, token_vars, result_vars
  <2>2. Start' = Start
    BY <1>5 DEF vars, buffer_vars, Start, Settled, Consumed
  <2> QED
    BY <2>1, <2>2, StartStutters
<1> QED
  BY <1>1, <1>2, <1>3, <1>4, <1>5 DEF Next

(* If fread does not fail, the tokenizer implements the Lexer: whatever    *)
(* the lengths of the token and the buffer, the files, the calls between   *)
(* two of them and the sign of char, each call of get_next_token does what *)
(* one step of the Lexer does to the tokens, the text left and the outcome.*)
THEOREM ImplementsLexerCorrect ==
  ASSUME ~ShortReads
  PROVE  Spec => ImplementsLexer
<1>1. Init => L!Init /\ EofInHand /\ KindOK
  BY RefinementInit
<1>2. Spec => [](TypeOK /\ TokenStateOK /\ TextInv)
  BY TypeCorrect, TokenStateCorrect, TextInvariant, PTL
<1>3. RefInv /\ [Next]_vars => EofInHand' /\ KindOK'
  BY InvariantStep
<1>4. RefInv <=> (TypeOK /\ TokenStateOK /\ TextInv) /\ EofInHand /\ KindOK
  BY DEF RefInv
<1>5. Spec => []RefInv
  BY <1>1, <1>2, <1>3, <1>4, PTL DEF Spec
<1>6. RefInv /\ RefInv' /\ [Next]_vars => [L!Next]_(L!vars)
  <2>1. UNCHANGED LexerVars => UNCHANGED L!vars
    BY DEF LexerVars, L!vars, LeftBar, TokensBar, OutcomeBar
  <2> QED
    BY <2>1, RefinementStep
<1> QED
  BY <1>1, <1>5, <1>6, PTL DEF Spec, ImplementsLexer, L!Spec
=============================================================================
