------------------------ MODULE RegisterNamesProofs ------------------------
(***************************************************************************)
(* parse_register knows the names of the registers and no others, for      *)
(* every set of names.                                                     *)
(***************************************************************************)
EXTENDS RegisterNames, SequenceTheorems, TLAPS

(* The letters and digits of the names. The provers do not know that a     *)
(* string literal is in STRING, so they are added to it.                   *)
Digits == {"0", "1", "2", "3", "4", "5", "6", "7", "8", "9"}

Chars == STRING \cup Digits \cup {"r", "b", "p", "s", "i", "f", "l", "g"}
               \cup Types \cup Sizes

LEMMA MoreChars == ASSUME NEW s \in Seq(STRING) PROVE s \in Seq(Chars)
<1>1. Len(s) \in Nat /\ \A i \in 1 .. Len(s) : s[i] \in STRING
  BY LenProperties, ElementOfSeq
<1>2. s = [i \in 1 .. Len(s) |-> s[i]]
  BY LenProperties
<1>3. \A i \in 1 .. Len(s) : s[i] \in Chars
  BY <1>1 DEF Chars
<1> QED
  BY <1>1, <1>2, <1>3, IsASeq

(* A call changes *reg only if it succeeds, and then by parse_register.    *)
CallInv ==
  /\ name \in Seq(Chars) /\ def \in {Default, init_register_arg}
  /\ pc = "call" => reg = def /\ status = 0
  /\ pc = "done" => /\ status = parse_register(name, def).status
                    /\ reg = parse_register(name, def).reg
  /\ pc \in {"call", "done"}

LEMMA CallInvariant == Spec => []CallInv
<1>1. Init => CallInv
  BY NamesAssumption, MoreChars DEF Init, CallInv
<1>2. CallInv /\ [Next]_vars => CallInv'
  BY DEF CallInv, Next, ParseRegister, vars
<1> QED
  BY <1>1, <1>2, PTL DEF Spec

LEMMA Failed ==
  ASSUME NEW s, NEW r, parse_register(s, r).status # 0
  PROVE  parse_register(s, r).reg = r
BY DEF parse_register

(* A call that fails leaves the caller's default as it was.                *)
THEOREM FailureCorrect == Spec => []FailureKeepsDefault
<1>1. CallInv => FailureKeepsDefault
  BY Failed DEF CallInv, FailureKeepsDefault
<1> QED
  BY <1>1, CallInvariant, PTL

-----------------------------------------------------------------------------
(* The digits, and the names of the registers that have a number.          *)
LEMMA DigitTable ==
  /\ DigitValue("0") = 0 /\ DigitValue("1") = 1
  /\ \A c \in Digits : DigitValue(c) \in 0 .. 9
  /\ \A c, d \in Digits : DigitValue(c) = DigitValue(d) => c = d
  /\ \A n \in 0 .. 9 : \E c \in Digits : DigitValue(c) = n
<1> DEFINE table == <<"0", "1", "2", "3", "4", "5", "6", "7", "8", "9">>
<1>1. \A c \in Digits : \E n \in 0 .. 9 : table[n + 1] = c
  BY DEF Digits
<1>2. \A c \in Digits : DigitValue(c) \in 0 .. 9 /\ table[DigitValue(c) + 1] = c
  <2>1. SUFFICES ASSUME NEW c \in Digits
                 PROVE  DigitValue(c) \in 0 .. 9 /\ table[DigitValue(c) + 1] = c
    OBVIOUS
  <2>2. DigitValue(c) = CHOOSE n \in 0 .. 9 : table[n + 1] = c
    BY DEF DigitValue
  <2>3. PICK v : v = CHOOSE n \in 0 .. 9 : table[n + 1] = c
    OBVIOUS
  <2>4. v \in 0 .. 9 /\ table[v + 1] = c
    BY <1>1, <2>3
  <2> QED
    BY <2>2, <2>3, <2>4
<1>3. \A n \in 0 .. 9 : table[n + 1] \in Digits
  BY DEF Digits
<1>4. \A m, n \in 0 .. 9 : table[m + 1] = table[n + 1] => m = n
  OBVIOUS
<1>5. table[1] = "0" /\ table[2] = "1" /\ "0" \in Digits /\ "1" \in Digits
  BY DEF Digits
<1> HIDE DEF table
<1>6. DigitValue("0") = 0 /\ DigitValue("1") = 1
  <2>1. DigitValue("0") \in 0 .. 9 /\ table[DigitValue("0") + 1] = table[0 + 1]
    BY <1>2, <1>5
  <2>2. DigitValue("1") \in 0 .. 9 /\ table[DigitValue("1") + 1] = table[1 + 1]
    BY <1>2, <1>5
  <2> QED
    BY <1>4, <2>1, <2>2
<1>7. \A c, d \in Digits : DigitValue(c) = DigitValue(d) => c = d
  BY <1>2
<1>8. \A n \in 0 .. 9 : \E c \in Digits : DigitValue(c) = n
  <2>1. SUFFICES ASSUME NEW n \in 0 .. 9
                 PROVE  DigitValue(table[n + 1]) = n /\ table[n + 1] \in Digits
    OBVIOUS
  <2>2. /\ table[n + 1] \in Digits
        /\ DigitValue(table[n + 1]) \in 0 .. 9
        /\ table[DigitValue(table[n + 1]) + 1] = table[n + 1]
    BY <1>2, <1>3
  <2> QED
    BY <1>4, <2>2
<1> QED
  BY <1>2, <1>6, <1>7, <1>8

LEMMA NumberedName ==
  ASSUME NEW id \in 0 .. 9
  PROVE  \E c \in Digits : DigitValue(c) = id /\ RegisterName(id) = <<"r", c>>
<1>1. PICK c : c = CHOOSE d \in Digits : DigitValue(d) = id
  OBVIOUS
<1>2. c \in Digits /\ DigitValue(c) = id
  BY <1>1, DigitTable
<1>3. RegisterName(id) = <<"r", c>>
  <2>1. RegisterName(id) = <<"r", CHOOSE d \in Digits : DigitValue(d) = id>>
    BY DEF RegisterName, Digits
  <2> QED
    BY <1>1, <2>1
<1> QED
  BY <1>2, <1>3

LEMMA SpecialNames ==
  /\ RegisterName(10) = <<"r", "1", "0">> /\ RegisterName(11) = <<"r", "1", "1">>
  /\ RegisterName(12) = rbp /\ RegisterName(13) = rsp
  /\ RegisterName(14) = rip /\ RegisterName(15) = flg
BY DEF RegisterName, rbp, rsp, rip, flg

-----------------------------------------------------------------------------
(* What may follow a name is a type letter, a size letter, or both.        *)
LEMMA Letters ==
  /\ DOMAIN TypeChar = Types /\ DOMAIN SizeChar = Sizes
  /\ Types \cap Sizes = {}
  /\ \A c \in Types \cup Sizes : ~IsDigit(c)
  /\ ~IsDigit(NUL)
<1>1. DOMAIN TypeChar = Types /\ DOMAIN SizeChar = Sizes
  BY DEF TypeChar, SizeChar, Types, Sizes
<1>2. Types \cap Sizes = {}
  BY DEF Types, Sizes
<1>3. (\A c \in Types \cup Sizes : ~IsDigit(c)) /\ ~IsDigit(NUL)
  BY DEF Types, Sizes, IsDigit, NUL
<1> QED
  BY <1>1, <1>2, <1>3

LEMMA Suffixes ==
  ASSUME NEW x \in Seq(Chars)
  PROVE  IsSuffix(x) <=> \E t \in Optional(Types), z \in Optional(Sizes) : x = t \o z
<1>1. ASSUME IsSuffix(x)
      PROVE  \E t \in Optional(Types), z \in Optional(Sizes) : x = t \o z
  <2>1. CASE x = <<>>
    <3>1. <<>> \in Optional(Types) /\ <<>> \in Optional(Sizes)
      BY DEF Optional
    <3>2. x = <<>> \o <<>>
      BY <2>1
    <3> QED
      BY <3>1, <3>2
  <2>2. CASE Len(x) = 1 /\ x[1] \in Types
    <3>1. <<x[1]>> \in Optional(Types) /\ <<>> \in Optional(Sizes)
      BY <2>2 DEF Optional
    <3>2. x = <<x[1]>> \o <<>>
      BY <2>2
    <3> QED
      BY <3>1, <3>2
  <2>3. CASE Len(x) = 1 /\ x[1] \in Sizes
    <3>1. <<>> \in Optional(Types) /\ <<x[1]>> \in Optional(Sizes)
      BY <2>3 DEF Optional
    <3>2. x = <<>> \o <<x[1]>>
      BY <2>3
    <3> QED
      BY <3>1, <3>2
  <2>4. CASE Len(x) = 2 /\ x[1] \in Types /\ x[2] \in Sizes
    <3>1. <<x[1]>> \in Optional(Types) /\ <<x[2]>> \in Optional(Sizes)
      BY <2>4 DEF Optional
    <3>2. x = <<x[1]>> \o <<x[2]>>
      BY <2>4
    <3> QED
      BY <3>1, <3>2
  <2> QED
    BY <1>1, <2>1, <2>2, <2>3, <2>4, Letters DEF IsSuffix
<1>2. ASSUME NEW t \in Optional(Types), NEW z \in Optional(Sizes), x = t \o z
      PROVE  IsSuffix(x)
  <2>1. CASE t = <<>> /\ z = <<>>
    BY <1>2, <2>1 DEF IsSuffix
  <2>2. CASE t = <<>> /\ z # <<>>
    <3>1. PICK c \in Sizes : z = <<c>>
      BY <2>2 DEF Optional
    <3>2. Len(x) = 1 /\ x[1] = c
      BY <1>2, <2>2, <3>1
    <3> QED
      BY <3>2, Letters DEF IsSuffix
  <2>3. CASE t # <<>> /\ z = <<>>
    <3>1. PICK c \in Types : t = <<c>>
      BY <2>3 DEF Optional
    <3>2. Len(x) = 1 /\ x[1] = c
      BY <1>2, <2>3, <3>1
    <3> QED
      BY <3>2, Letters DEF IsSuffix
  <2>4. CASE t # <<>> /\ z # <<>>
    <3>1. PICK c \in Types : t = <<c>>
      BY <2>4 DEF Optional
    <3>2. PICK d \in Sizes : z = <<d>>
      BY <2>4 DEF Optional
    <3>3. Len(x) = 2 /\ x[1] = c /\ x[2] = d
      BY <1>2, <3>1, <3>2
    <3> QED
      BY <3>3, Letters DEF IsSuffix
  <2> QED
    BY <2>1, <2>2, <2>3, <2>4
<1> QED
  BY <1>1, <1>2

LEMMA Pair ==
  ASSUME NEW c, NEW d
  PROVE  <<c>> \o <<d>> = <<c, d>>
<1> DEFINE S == {c, d}
<1>1. <<c>> \in Seq(S) /\ <<d>> \in Seq(S) /\ <<c, d>> \in Seq(S)
  OBVIOUS
<1>2. PICK x : x = <<c>> \o <<d>>
  OBVIOUS
<1>3. /\ x \in Seq(S) /\ Len(x) = 2
      /\ \A i \in 1 .. 2 : x[i] = IF i <= 1 THEN <<c>>[i] ELSE <<d>>[i - 1]
  BY <1>1, <1>2, ConcatProperties
<1>4. x[1] = c /\ x[2] = d
  BY <1>3
<1>5. x = <<c, d>>
  BY <1>1, <1>3, <1>4, SeqEqual
<1> QED
  BY <1>2, <1>5

LEMMA LetterValues ==
  /\ \A c \in Types : TypeChar[c] \in Nat
  /\ \A c \in Sizes : SizeChar[c] \in Nat
BY DEF Types, Sizes, TypeChar, SizeChar

LEMMA RegisterWith ==
  ASSUME NEW S, NEW r \in [id : S, type : Nat, size : Nat], NEW ty \in Nat,
         NEW sz \in Nat, NEW x, x = [r EXCEPT !.type = ty, !.size = sz]
  PROVE  x = [id |-> r.id, type |-> ty, size |-> sz]
<1>1. x \in [id : S, type : Nat, size : Nat]
  OBVIOUS
<1>2. x.id = r.id
  OBVIOUS
<1>3. x.type = ty
  OBVIOUS
<1>4. x.size = sz
  OBVIOUS
<1> QED
  BY <1>1, <1>2, <1>3, <1>4

(* What a suffix leaves of the caller's default.                           *)
LEMMA SuffixSets ==
  ASSUME NEW S, NEW r \in [id : S, type : Nat, size : Nat],
         NEW t \in Optional(Types), NEW z \in Optional(Sizes)
  PROVE  WithSuffix(r, t \o z)
           = [id   |-> r.id,
              type |-> IF t = <<>> THEN r.type ELSE TypeChar[t[1]],
              size |-> IF z = <<>> THEN r.size ELSE SizeChar[z[1]]]
<1> DEFINE x == t \o z
           ty == IF t = <<>> THEN r.type ELSE TypeChar[t[1]]
           sz == IF z = <<>> THEN r.size ELSE SizeChar[z[1]]
<1>1. /\ (x # <<>> /\ x[1] \in DOMAIN TypeChar) <=> t # <<>>
      /\ (x # <<>> /\ x[Len(x)] \in DOMAIN SizeChar) <=> z # <<>>
      /\ t # <<>> => x[1] = t[1] /\ t[1] \in Types
      /\ z # <<>> => x[Len(x)] = z[1] /\ z[1] \in Sizes
  <2>1. CASE t = <<>> /\ z = <<>>
    BY <2>1
  <2>2. CASE t = <<>> /\ z # <<>>
    <3>1. PICK c \in Sizes : z = <<c>>
      BY <2>2 DEF Optional
    <3>2. x = <<c>>
      BY <2>2, <3>1
    <3>3. c \in DOMAIN SizeChar /\ c \notin DOMAIN TypeChar
      BY Letters
    <3> QED
      BY <2>2, <3>1, <3>2, <3>3
  <2>3. CASE t # <<>> /\ z = <<>>
    <3>1. PICK c \in Types : t = <<c>>
      BY <2>3 DEF Optional
    <3>2. x = <<c>>
      BY <2>3, <3>1
    <3>3. c \in DOMAIN TypeChar /\ c \notin DOMAIN SizeChar
      BY Letters
    <3> QED
      BY <2>3, <3>1, <3>2, <3>3
  <2>4. CASE t # <<>> /\ z # <<>>
    <3>1. PICK c \in Types : t = <<c>>
      BY <2>4 DEF Optional
    <3>2. PICK d \in Sizes : z = <<d>>
      BY <2>4 DEF Optional
    <3>3. x = <<c, d>>
      BY <3>1, <3>2, Pair
    <3>4. c \in DOMAIN TypeChar /\ d \in DOMAIN SizeChar
      BY Letters
    <3> HIDE DEF x
    <3> QED
      BY <2>4, <3>1, <3>2, <3>3, <3>4
  <2> QED
    BY <2>1, <2>2, <2>3, <2>4
<1>2. ty \in Nat /\ sz \in Nat
  BY <1>1, LetterValues
<1>3. WithSuffix(r, x)
        = [r EXCEPT !.type = IF x # <<>> /\ x[1] \in DOMAIN TypeChar
                             THEN TypeChar[x[1]] ELSE r.type,
                    !.size = IF x # <<>> /\ x[Len(x)] \in DOMAIN SizeChar
                             THEN SizeChar[x[Len(x)]] ELSE r.size]
  BY DEF WithSuffix
<1>4. WithSuffix(r, x) = [r EXCEPT !.type = ty, !.size = sz]
  <2> HIDE DEF x
  <2>1. ty = IF x # <<>> /\ x[1] \in DOMAIN TypeChar THEN TypeChar[x[1]]
             ELSE r.type
    BY <1>1
  <2>2. sz = IF x # <<>> /\ x[Len(x)] \in DOMAIN SizeChar
             THEN SizeChar[x[Len(x)]] ELSE r.size
    BY <1>1
  <2> HIDE DEF ty, sz
  <2> QED
    BY <1>3, <2>1, <2>2
<1> HIDE DEF x, ty, sz
<1>5. WithSuffix(r, x) = [id |-> r.id, type |-> ty, size |-> sz]
  BY <1>2, <1>4, RegisterWith
<1> QED
  BY <1>5 DEF x, ty, sz

-----------------------------------------------------------------------------
(* A name and what follows it                                              *)
LEMMA Begins ==
  ASSUME NEW s \in Seq(Chars), NEW p \in Seq(Chars)
  PROVE  StartsWith(s, p) <=> /\ Len(s) >= Len(p)
                              /\ \A i \in 1 .. Len(p) : s[i] = p[i]
<1>1. Len(s) \in Nat /\ Len(p) \in Nat /\ \A i \in 1 .. Len(s) : s[i] \in Chars
  BY LenProperties, ElementOfSeq
<1>2. CASE Len(s) >= Len(p)
  <2>1. PICK q : q = SubSeq(s, 1, Len(p))
    OBVIOUS
  <2>2. /\ q \in Seq(Chars) /\ Len(q) = Len(p)
        /\ \A i \in 1 .. Len(p) : q[i] = s[i]
    <3>1. \A i \in 1 .. Len(p) : s[i] \in Chars
      BY <1>1, <1>2
    <3> QED
      BY <1>1, <2>1, <3>1, SubSeqProperties
  <2>3. q = p <=> \A i \in 1 .. Len(p) : q[i] = p[i]
    BY <2>2, SeqEqual
  <2> QED
    BY <1>2, <2>1, <2>2, <2>3 DEF StartsWith
<1>3. CASE ~(Len(s) >= Len(p))
  BY <1>3 DEF StartsWith
<1> QED
  BY <1>2, <1>3

LEMMA Split ==
  ASSUME NEW s \in Seq(Chars), NEW m \in Nat, m <= Len(s),
         NEW p \in Seq(Chars), Len(p) = m, \A i \in 1 .. m : s[i] = p[i],
         NEW x, x = SubSeq(s, m + 1, Len(s))
  PROVE  x \in Seq(Chars) /\ s = p \o x
<1>1. Len(s) \in Nat /\ \A i \in 1 .. Len(s) : s[i] \in Chars
  BY LenProperties, ElementOfSeq
<1>2. \A i \in m + 1 .. Len(s) : s[i] \in Chars
  BY <1>1
<1>3. /\ x \in Seq(Chars) /\ Len(x) = Len(s) - m
      /\ \A i \in 1 .. Len(s) - m : x[i] = s[m + i]
  <2>1. /\ x \in Seq(Chars)
        /\ Len(x) = IF m + 1 <= Len(s) THEN Len(s) - (m + 1) + 1 ELSE 0
        /\ \A i \in 1 .. Len(s) - (m + 1) + 1 : x[i] = s[(m + 1) + i - 1]
    BY <1>1, <1>2, SubSeqProperties
  <2> QED
    BY <1>1, <2>1
<1>4. PICK q : q = p \o x
  OBVIOUS
<1>5. /\ q \in Seq(Chars) /\ Len(q) = Len(p) + Len(x)
      /\ \A i \in 1 .. Len(p) + Len(x) : q[i] = IF i <= Len(p) THEN p[i]
                                               ELSE x[i - Len(p)]
  <2>1. x \in Seq(Chars)
    BY <1>3
  <2>2. /\ p \o x \in Seq(Chars) /\ Len(p \o x) = Len(p) + Len(x)
        /\ \A i \in 1 .. Len(p) + Len(x) : (p \o x)[i] = IF i <= Len(p) THEN p[i]
                                                       ELSE x[i - Len(p)]
    BY ONLY <2>1, p \in Seq(Chars), ConcatProperties
  <2> QED
    BY <1>4, <2>2
<1>6. Len(q) = Len(s) /\ \A i \in 1 .. Len(s) : q[i] = s[i]
  <2>1. Len(q) = Len(s) /\ Len(p) + Len(x) = Len(s)
    BY <1>1, <1>3, <1>5
  <2>2. SUFFICES ASSUME NEW i \in 1 .. Len(s)
                 PROVE  q[i] = s[i]
    BY <2>1
  <2>3. q[i] = IF i <= m THEN p[i] ELSE x[i - m]
    BY <1>5, <2>1
  <2>4. CASE i <= m
    BY <2>3, <2>4
  <2>5. CASE ~(i <= m)
    <3>1. i - m \in 1 .. Len(s) - m /\ m + (i - m) = i
      BY <1>1, <2>5
    <3>2. x[i - m] = s[m + (i - m)]
      BY <1>3, <3>1
    <3> QED
      BY <2>3, <2>5, <3>1, <3>2
  <2> QED
    BY <2>4, <2>5
<1> QED
  BY <1>3, <1>4, <1>5, <1>6, SeqEqual

LEMMA Joined ==
  ASSUME NEW p \in Seq(Chars), NEW x \in Seq(Chars), NEW s, s = p \o x
  PROVE  /\ s \in Seq(Chars) /\ Len(s) = Len(p) + Len(x)
         /\ \A i \in 1 .. Len(p) : s[i] = p[i]
         /\ \A i \in 1 .. Len(x) : s[Len(p) + i] = x[i]
         /\ SubSeq(s, Len(p) + 1, Len(s)) = x
<1>1. Len(p) \in Nat /\ Len(x) \in Nat
  BY LenProperties
<1>2. /\ s \in Seq(Chars) /\ Len(s) = Len(p) + Len(x)
      /\ \A i \in 1 .. Len(p) + Len(x) : s[i] = IF i <= Len(p) THEN p[i]
                                                ELSE x[i - Len(p)]
  BY ConcatProperties
<1>3. \A i \in 1 .. Len(p) : s[i] = p[i]
  BY <1>1, <1>2
<1>4. \A i \in 1 .. Len(x) : s[Len(p) + i] = x[i]
  BY <1>1, <1>2
<1>5. PICK y : y = SubSeq(s, Len(p) + 1, Len(s))
  OBVIOUS
<1>6. /\ y \in Seq(Chars) /\ Len(y) = Len(x)
      /\ \A i \in 1 .. Len(x) : y[i] = s[Len(p) + i]
  <2>1. \A i \in Len(p) + 1 .. Len(s) : s[i] \in Chars
    BY <1>1, <1>2, ElementOfSeq
  <2>2. /\ y \in Seq(Chars)
        /\ Len(y) = IF Len(p) + 1 <= Len(s) THEN Len(s) - (Len(p) + 1) + 1 ELSE 0
        /\ \A i \in 1 .. Len(s) - (Len(p) + 1) + 1 : y[i] = s[(Len(p) + 1) + i - 1]
    BY <1>1, <1>2, <1>5, <2>1, SubSeqProperties
  <2>3. Len(y) = Len(x) /\ Len(s) - (Len(p) + 1) + 1 = Len(x)
    BY <1>1, <1>2, <2>2
  <2>4. ASSUME NEW i \in 1 .. Len(x)
        PROVE  y[i] = s[Len(p) + i]
    <3>1. y[i] = s[(Len(p) + 1) + i - 1]
      BY <2>2, <2>3
    <3>2. (Len(p) + 1) + i - 1 = Len(p) + i
      BY <1>1
    <3> QED
      BY <3>1, <3>2
  <2> QED
    BY <2>2, <2>3, <2>4
<1>7. y = x
  BY <1>4, <1>6, SeqEqual
<1> QED
  BY <1>2, <1>3, <1>4, <1>5, <1>7

LEMMA NameTypes ==
  ASSUME NEW id \in 0 .. 15
  PROVE  /\ RegisterName(id) \in Seq(Chars)
         /\ Len(RegisterName(id)) = IF id <= 9 THEN 2 ELSE 3
<1>1. CASE id \in 0 .. 9
  <2>1. PICK c \in Digits : RegisterName(id) = <<"r", c>>
    BY <1>1, NumberedName
  <2>2. c \in Chars /\ "r" \in Chars
    BY <2>1 DEF Chars
  <2>3. <<"r", c>> \in Seq(Chars) /\ Len(<<"r", c>>) = 2
    BY <2>2
  <2> QED
    BY <1>1, <2>1, <2>3
<1>2. CASE id \in 10 .. 15
  <2>1. \A a, b, c \in Chars : <<a, b, c>> \in Seq(Chars) /\ Len(<<a, b, c>>) = 3
    OBVIOUS
  <2>2. \E a, b, c \in Chars : RegisterName(id) = <<a, b, c>>
    <3>1. id = 10 \/ id = 11 \/ id = 12 \/ id = 13 \/ id = 14 \/ id = 15
      BY <1>2
    <3>2. /\ "r" \in Chars /\ "1" \in Chars /\ "0" \in Chars /\ "b" \in Chars
          /\ "p" \in Chars /\ "s" \in Chars /\ "i" \in Chars /\ "f" \in Chars
          /\ "l" \in Chars /\ "g" \in Chars
      BY DEF Chars, Digits
    <3>3. CASE id = 10
      BY <3>2, <3>3, SpecialNames, Zenon
    <3>4. CASE id = 11
      BY <3>2, <3>4, SpecialNames, Zenon
    <3>5. CASE id = 12
      BY <3>2, <3>5, SpecialNames, Zenon DEF rbp
    <3>6. CASE id = 13
      BY <3>2, <3>6, SpecialNames, Zenon DEF rsp
    <3>7. CASE id = 14
      BY <3>2, <3>7, SpecialNames, Zenon DEF rip
    <3>8. CASE id = 15
      BY <3>2, <3>8, SpecialNames, Zenon DEF flg
    <3> QED
      BY <3>1, <3>3, <3>4, <3>5, <3>6, <3>7, <3>8
  <2>3. id > 9
    BY <1>2
  <2> QED
    BY <2>1, <2>2, <2>3
<1> QED
  BY <1>1, <1>2

(* What it is to begin with one of the names that have no number.          *)
LEMMA Marked ==
  ASSUME NEW s \in Seq(Chars)
  PROVE  /\ StartsWith(s, rbp) <=> Len(s) >= 3 /\ s[1] = "r" /\ s[2] = "b" /\ s[3] = "p"
         /\ StartsWith(s, rsp) <=> Len(s) >= 3 /\ s[1] = "r" /\ s[2] = "s" /\ s[3] = "p"
         /\ StartsWith(s, rip) <=> Len(s) >= 3 /\ s[1] = "r" /\ s[2] = "i" /\ s[3] = "p"
         /\ StartsWith(s, flg) <=> Len(s) >= 3 /\ s[1] = "f" /\ s[2] = "l" /\ s[3] = "g"
<1>1. ASSUME NEW a \in Chars, NEW b \in Chars, NEW c \in Chars
      PROVE  StartsWith(s, <<a, b, c>>)
               <=> Len(s) >= 3 /\ s[1] = a /\ s[2] = b /\ s[3] = c
  <2>1. PICK p : p = <<a, b, c>>
    OBVIOUS
  <2>2. p \in Seq(Chars) /\ Len(p) = 3 /\ p[1] = a /\ p[2] = b /\ p[3] = c
    BY <2>1
  <2>3. StartsWith(s, p) <=> /\ Len(s) >= Len(p)
                             /\ \A i \in 1 .. Len(p) : s[i] = p[i]
    BY <2>2, Begins
  <2>4. (\A i \in 1 .. 3 : s[i] = p[i]) <=> s[1] = a /\ s[2] = b /\ s[3] = c
    BY <2>2
  <2> QED
    BY <2>1, <2>2, <2>3, <2>4
<1>2. /\ "r" \in Chars /\ "b" \in Chars /\ "p" \in Chars /\ "s" \in Chars
      /\ "i" \in Chars /\ "f" \in Chars /\ "l" \in Chars /\ "g" \in Chars
  BY DEF Chars
<1>3. StartsWith(s, rbp) <=> Len(s) >= 3 /\ s[1] = "r" /\ s[2] = "b" /\ s[3] = "p"
  BY <1>1, <1>2 DEF rbp
<1>4. StartsWith(s, rsp) <=> Len(s) >= 3 /\ s[1] = "r" /\ s[2] = "s" /\ s[3] = "p"
  BY <1>1, <1>2 DEF rsp
<1>5. StartsWith(s, rip) <=> Len(s) >= 3 /\ s[1] = "r" /\ s[2] = "i" /\ s[3] = "p"
  BY <1>1, <1>2 DEF rip
<1>6. StartsWith(s, flg) <=> Len(s) >= 3 /\ s[1] = "f" /\ s[2] = "l" /\ s[3] = "g"
  BY <1>1, <1>2 DEF flg
<1> QED
  BY <1>3, <1>4, <1>5, <1>6

LEMMA Numbered == \A c : IsDigit(c) <=> c \in Digits
BY DEF IsDigit, Digits

(* A name is read as its register, if no digit follows it.                 *)
LEMMA Reading ==
  ASSUME NEW id \in 0 .. 15, NEW x \in Seq(Chars),
         x # <<>> => ~IsDigit(x[1]),
         NEW s, s = RegisterName(id) \o x
  PROVE  parse_register_id(s) = id /\ Suffix(s) = x
<1>0. PICK p : p = RegisterName(id)
  OBVIOUS
<1>1. p \in Seq(Chars) /\ Len(p) = IF id <= 9 THEN 2 ELSE 3
  BY <1>0, NameTypes
<1>2. /\ s \in Seq(Chars) /\ Len(s) = Len(p) + Len(x)
      /\ \A i \in 1 .. Len(p) : s[i] = p[i]
      /\ \A i \in 1 .. Len(x) : s[Len(p) + i] = x[i]
      /\ SubSeq(s, Len(p) + 1, Len(s)) = x
  <2>1. s = p \o x /\ p \in Seq(Chars)
    BY <1>0, <1>1
  <2> QED
    BY ONLY <2>1, x \in Seq(Chars), Joined
<1>3. Len(x) \in Nat /\ (x # <<>> <=> Len(x) > 0)
  BY LenProperties, EmptySeq
<1>6. /\ StartsWith(s, rbp) <=> Len(s) >= 3 /\ s[1] = "r" /\ s[2] = "b" /\ s[3] = "p"
      /\ StartsWith(s, rsp) <=> Len(s) >= 3 /\ s[1] = "r" /\ s[2] = "s" /\ s[3] = "p"
      /\ StartsWith(s, rip) <=> Len(s) >= 3 /\ s[1] = "r" /\ s[2] = "i" /\ s[3] = "p"
      /\ StartsWith(s, flg) <=> Len(s) >= 3 /\ s[1] = "f" /\ s[2] = "l" /\ s[3] = "g"
  <2>1. s \in Seq(Chars)
    BY <1>2
  <2> QED
    BY ONLY <2>1, Marked
<1>4. parse_register_id(s) = id
  <2>1. CASE id \in 0 .. 9
    <3>1. PICK c \in Digits : DigitValue(c) = id /\ p = <<"r", c>>
      BY <1>0, <2>1, NumberedName
    <3>2. Len(s) >= 2 /\ s[1] = "r" /\ s[2] = c
      <4>1. Len(p) = 2 /\ p[1] = "r" /\ p[2] = c
        BY <3>1
      <4> QED
        BY <1>2, <1>3, <4>1
    <3>3. c \notin {"b", "s", "i"}
      BY <3>1 DEF Digits
    <3>4. /\ ~StartsWith(s, rbp) /\ ~StartsWith(s, rsp)
          /\ ~StartsWith(s, rip) /\ ~StartsWith(s, flg)
      BY <1>6, <3>2, <3>3
    <3>5. CharAt(s, 1) = c /\ IsDigit(c)
      BY <1>2, <1>3, <3>1, <3>2, Numbered DEF CharAt
    <3>6. ~IsDigit(CharAt(s, 2))
      <4>1. CASE x = <<>>
        <5>1. Len(s) = 2
          BY <1>1, <1>2, <1>3, <2>1, <4>1
        <5> QED
          BY <5>1, Letters DEF CharAt
      <4>2. CASE x # <<>>
        <5>1. Len(s) > 2 /\ s[3] = x[1]
          BY <1>1, <1>2, <1>3, <2>1, <4>2
        <5> QED
          BY <4>2, <5>1 DEF CharAt
      <4> QED
        BY <4>1, <4>2
    <3> QED
      BY <3>1, <3>2, <3>4, <3>5, <3>6 DEF parse_register_id
  <2>2. CASE id \in {10, 11}
    <3>1. PICK c \in {"0", "1"} : DigitValue(c) + 10 = id /\ p = <<"r", "1", c>>
      BY <1>0, <2>2, SpecialNames, DigitTable
    <3>2. Len(s) >= 3 /\ s[1] = "r" /\ s[2] = "1" /\ s[3] = c
      <4>1. Len(p) = 3 /\ p[1] = "r" /\ p[2] = "1" /\ p[3] = c
        BY <3>1
      <4> QED
        BY <1>2, <1>3, <4>1
    <3>3. /\ ~StartsWith(s, rbp) /\ ~StartsWith(s, rsp)
          /\ ~StartsWith(s, rip) /\ ~StartsWith(s, flg)
      BY <1>6, <3>2
    <3>4. CharAt(s, 1) = "1" /\ CharAt(s, 2) = c
      BY <1>2, <1>3, <3>2 DEF CharAt
    <3>5. IsDigit(c)
      BY <3>1 DEF IsDigit
    <3> QED
      BY <3>1, <3>2, <3>3, <3>4, <3>5 DEF parse_register_id
  <2>3. CASE id \in 12 .. 15
    <3>1. /\ id = 12 => p = rbp
          /\ id = 13 => p = rsp
          /\ id = 14 => p = rip
          /\ id = 15 => p = flg
      BY <1>0, SpecialNames
    <3>2. Len(p) = 3 /\ Len(s) >= 3 /\ s[1] = p[1] /\ s[2] = p[2] /\ s[3] = p[3]
      <4>1. Len(p) = 3
        BY <1>1, <2>3
      <4> QED
        BY <1>2, <1>3, <4>1
    <3>3. /\ id = 12 => StartsWith(s, rbp)
          /\ id = 13 => StartsWith(s, rsp) /\ ~StartsWith(s, rbp)
          /\ id = 14 => StartsWith(s, rip) /\ ~StartsWith(s, rbp) /\ ~StartsWith(s, rsp)
          /\ id = 15 => /\ StartsWith(s, flg) /\ ~StartsWith(s, rbp)
                        /\ ~StartsWith(s, rsp) /\ ~StartsWith(s, rip)
      <4>1. CASE id = 12
        <5>1. s[1] = "r" /\ s[2] = "b" /\ s[3] = "p"
          BY <3>1, <3>2, <4>1 DEF rbp
        <5> QED
          BY <1>6, <3>2, <4>1, <5>1
      <4>2. CASE id = 13
        <5>1. s[1] = "r" /\ s[2] = "s" /\ s[3] = "p"
          BY <3>1, <3>2, <4>2 DEF rsp
        <5> QED
          BY <1>6, <3>2, <4>2, <5>1
      <4>3. CASE id = 14
        <5>1. s[1] = "r" /\ s[2] = "i" /\ s[3] = "p"
          BY <3>1, <3>2, <4>3 DEF rip
        <5> QED
          BY <1>6, <3>2, <4>3, <5>1
      <4>4. CASE id = 15
        <5>1. s[1] = "f" /\ s[2] = "l" /\ s[3] = "g"
          BY <3>1, <3>2, <4>4 DEF flg
        <5> QED
          BY <1>6, <3>2, <4>4, <5>1
      <4> QED
        BY <2>3, <4>1, <4>2, <4>3, <4>4
    <3> QED
      BY <2>3, <3>2, <3>3 DEF parse_register_id
  <2> QED
    BY <2>1, <2>2, <2>3
<1>5. Suffix(s) = x
  BY <1>1, <1>2, <1>4 DEF Suffix
<1> QED
  BY <1>4, <1>5

(* A name that is read as a register begins with that register's name.     *)
LEMMA Converse ==
  ASSUME NEW s \in Seq(Chars), parse_register_id(s) \in 0 .. 15
  PROVE  /\ Suffix(s) \in Seq(Chars)
         /\ s = RegisterName(parse_register_id(s)) \o Suffix(s)
<1> DEFINE id == parse_register_id(s)
           p == RegisterName(id)
<1>1. Enum(-1) = UINT_MAX /\ Enum(-2) = UINT_MAX - 1 /\ UINT_MAX >= 257
  BY UintMaxAssumption DEF Enum
<1>2. p \in Seq(Chars) /\ Len(p) = IF id <= 9 THEN 2 ELSE 3
  BY NameTypes
<1>3. Len(s) \in Nat /\ Len(s) >= 2
  BY <1>1, LenProperties DEF parse_register_id
<1>4. Len(p) <= Len(s) /\ \A i \in 1 .. Len(p) : s[i] = p[i]
  <2>1. CASE StartsWith(s, rbp)
    <3>1. id = 12
      BY <1>3, <2>1 DEF parse_register_id
    <3> QED
      BY <1>2, <2>1, <3>1, Marked, SpecialNames DEF rbp
  <2>2. CASE ~StartsWith(s, rbp) /\ StartsWith(s, rsp)
    <3>1. id = 13
      BY <1>3, <2>2 DEF parse_register_id
    <3> QED
      BY <1>2, <2>2, <3>1, Marked, SpecialNames DEF rsp
  <2>3. CASE ~StartsWith(s, rbp) /\ ~StartsWith(s, rsp) /\ StartsWith(s, rip)
    <3>1. id = 14
      BY <1>3, <2>3 DEF parse_register_id
    <3> QED
      BY <1>2, <2>3, <3>1, Marked, SpecialNames DEF rip
  <2>4. CASE /\ ~StartsWith(s, rbp) /\ ~StartsWith(s, rsp) /\ ~StartsWith(s, rip)
             /\ StartsWith(s, flg)
    <3>1. id = 15
      BY <1>3, <2>4 DEF parse_register_id
    <3> QED
      BY <1>2, <2>4, <3>1, Marked, SpecialNames DEF flg
  <2>5. CASE /\ ~StartsWith(s, rbp) /\ ~StartsWith(s, rsp) /\ ~StartsWith(s, rip)
             /\ ~StartsWith(s, flg)
    <3>1. s[1] = "r"
      BY <1>1, <1>3, <2>5 DEF parse_register_id
    <3>2. CharAt(s, 1) = s[2]
      BY <1>3 DEF CharAt
    <3>3. CASE IsDigit(s[2]) /\ ~IsDigit(CharAt(s, 2))
      <4>1. id = DigitValue(s[2]) /\ s[2] \in Digits
        BY <1>3, <2>5, <3>1, <3>2, <3>3, Numbered DEF parse_register_id
      <4>2. id \in 0 .. 9
        BY <4>1, DigitTable
      <4>3. PICK c \in Digits : DigitValue(c) = id /\ p = <<"r", c>>
        BY <4>2, NumberedName
      <4>4. c = s[2]
        BY <4>1, <4>3, DigitTable
      <4> QED
        BY <1>3, <3>1, <4>3, <4>4
    <3>4. CASE ~(IsDigit(s[2]) /\ ~IsDigit(CharAt(s, 2)))
      <4>0. id = IF CharAt(s, 1) = "1" /\ CharAt(s, 2) \in {"0", "1"}
                 THEN DigitValue(CharAt(s, 2)) + 10 ELSE Enum(-2)
        BY <1>3, <2>5, <3>1, <3>2, <3>4 DEF parse_register_id
      <4>1. /\ s[2] = "1" /\ CharAt(s, 2) \in {"0", "1"}
            /\ id = DigitValue(CharAt(s, 2)) + 10
        <5>1. Enum(-2) \notin 0 .. 15
          BY <1>1, UintMaxAssumption
        <5> QED
          BY <3>2, <4>0, <5>1
      <4>2. Len(s) >= 3 /\ CharAt(s, 2) = s[3]
        BY <1>3, <4>1 DEF CharAt, NUL
      <4>3. p = <<"r", "1", s[3]>>
        BY <4>1, <4>2, DigitTable, SpecialNames
      <4> QED
        BY <3>1, <4>1, <4>2, <4>3
    <3> QED
      BY <3>3, <3>4
  <2> QED
    BY <2>1, <2>2, <2>3, <2>4, <2>5
<1>5. Suffix(s) = SubSeq(s, Len(p) + 1, Len(s))
  BY <1>2 DEF Suffix
<1> HIDE DEF p
<1>6. Suffix(s) \in Seq(Chars) /\ s = p \o Suffix(s)
  <2>1. PICK m : m = Len(p)
    OBVIOUS
  <2>2. m \in Nat /\ m <= Len(s) /\ \A i \in 1 .. m : s[i] = p[i]
    BY <1>2, <1>4, <2>1
  <2>3. p \in Seq(Chars) /\ Len(p) = m /\ Suffix(s) = SubSeq(s, m + 1, Len(s))
    BY <1>2, <1>5, <2>1
  <2>4. PICK x : x = SubSeq(s, m + 1, Len(s))
    OBVIOUS
  <2>5. p \in Seq(Chars) /\ Len(p) = m
    BY <2>3
  <2>6. x \in Seq(Chars) /\ s = p \o x
    BY ONLY <2>2, <2>4, <2>5, s \in Seq(Chars), Split
  <2> QED
    BY <2>3, <2>4, <2>6
<1> QED
  BY <1>6 DEF p

-----------------------------------------------------------------------------
LEMMA OptionalTypes ==
  /\ \A t \in Optional(Types) : t \in Seq(Chars) /\ \A i \in 1 .. Len(t) : t[i] \in Types
  /\ \A z \in Optional(Sizes) : z \in Seq(Chars) /\ \A i \in 1 .. Len(z) : z[i] \in Sizes
<1>1. ASSUME NEW S, S \subseteq Chars, NEW t \in Optional(S)
      PROVE  t \in Seq(Chars) /\ \A i \in 1 .. Len(t) : t[i] \in S
  <2>1. CASE t = <<>>
    BY <2>1
  <2>2. ASSUME NEW c \in S, t = <<c>>
        PROVE  t \in Seq(Chars) /\ \A i \in 1 .. Len(t) : t[i] \in S
    BY <1>1, <2>2
  <2> QED
    BY <2>1, <2>2 DEF Optional
<1>2. Types \subseteq Chars /\ Sizes \subseteq Chars
  BY DEF Chars
<1> QED
  BY <1>1, <1>2

LEMMA SuffixTypes ==
  ASSUME NEW t \in Optional(Types), NEW z \in Optional(Sizes), NEW x, x = t \o z
  PROVE  x \in Seq(Chars) /\ (x # <<>> => ~IsDigit(x[1]))
<1>1. t \in Seq(Chars) /\ z \in Seq(Chars)
  BY OptionalTypes
<1>2. /\ x \in Seq(Chars) /\ Len(x) = Len(t) + Len(z)
      /\ \A i \in 1 .. Len(t) : x[i] = t[i]
      /\ \A i \in 1 .. Len(z) : x[Len(t) + i] = z[i]
  BY <1>1, Joined
<1>3. ASSUME x # <<>>
      PROVE  x[1] \in Types \cup Sizes
  <2>1. Len(x) > 0 /\ Len(t) \in Nat /\ Len(z) \in Nat
    BY <1>1, <1>2, <1>3, LenProperties, EmptySeq
  <2>2. CASE Len(t) > 0
    BY <1>2, <2>1, <2>2, OptionalTypes
  <2>3. CASE Len(t) = 0
    <3>1. x[1] = z[1] /\ 1 \in 1 .. Len(z)
      BY <1>2, <2>1, <2>3
    <3> QED
      BY <3>1, OptionalTypes
  <2> QED
    BY <2>1, <2>2, <2>3
<1> QED
  BY <1>2, <1>3, Letters

LEMMA Regrouped ==
  ASSUME NEW id \in 0 .. 15, NEW t \in Optional(Types), NEW z \in Optional(Sizes)
  PROVE  RegisterName(id) \o t \o z = RegisterName(id) \o (t \o z)
<1>1. PICK p : p = RegisterName(id)
  OBVIOUS
<1>2. p \in Seq(Chars) /\ t \in Seq(Chars) /\ z \in Seq(Chars)
  BY <1>1, NameTypes, OptionalTypes
<1>3. (p \o t) \o z = p \o (t \o z)
  BY <1>2, ConcatAssociative
<1> QED
  BY <1>1, <1>3

LEMMA DefaultTypes ==
  ASSUME NEW r \in {Default, init_register_arg}
  PROVE  r \in [id : Nat, type : Nat, size : Nat]
<1>1. Enum(-1) \in Nat
  BY UintMaxAssumption DEF Enum
<1>2. Default \in [id : Nat, type : Nat, size : Nat]
  BY DEF Default, UNKNOWN_REG
<1>3. init_register_arg \in [id : Nat, type : Nat, size : Nat]
  BY <1>1 DEF init_register_arg, UNKNOWN_TYPE, UNKNOWN_SIZE
<1> QED
  BY <1>2, <1>3

(* A call that succeeds, field by field.                                   *)
LEMMA Parsed ==
  ASSUME NEW s, NEW r \in {Default, init_register_arg},
         NEW t \in Optional(Types), NEW z \in Optional(Sizes),
         Suffix(s) = t \o z, IsSuffix(Suffix(s))
  PROVE  /\ parse_register(s, r).status = 0
         /\ parse_register(s, r).reg
              = [id   |-> parse_register_id(s),
                 type |-> IF t = <<>> THEN r.type ELSE TypeChar[t[1]],
                 size |-> IF z = <<>> THEN r.size ELSE SizeChar[z[1]]]
<1> DEFINE v == parse_register_id(s)
<1>1. PICK q : q = [r EXCEPT !.id = v]
  OBVIOUS
<1>2. r \in [id : Nat, type : Nat, size : Nat]
  BY DefaultTypes
<1>3. /\ q \in [id : Nat \cup {v}, type : Nat, size : Nat]
      /\ q.id = v /\ q.type = r.type /\ q.size = r.size
  <2> HIDE DEF v
  <2> QED
    BY <1>1, <1>2
<1>4. parse_register(s, r) = [status |-> 0, reg |-> WithSuffix(q, t \o z)]
  BY <1>1 DEF parse_register
<1>5. WithSuffix(q, t \o z)
        = [id   |-> q.id,
           type |-> IF t = <<>> THEN q.type ELSE TypeChar[t[1]],
           size |-> IF z = <<>> THEN q.size ELSE SizeChar[z[1]]]
  BY <1>3, SuffixSets
<1> QED
  BY <1>3, <1>4, <1>5

(* A name that is no register's is refused or gets an id no register has.  *)
THEOREM NoOtherCorrect == Spec => []NoOtherRegister
<1>1. CallInv => NoOtherRegister
  <2>1. SUFFICES ASSUME CallInv, pc = "done", status = 0, reg.id \in 0 .. 15
                 PROVE  IsRegister(name)
    BY DEF NoOtherRegister
  <2>2. /\ name \in Seq(Chars) /\ def \in {Default, init_register_arg}
        /\ parse_register(name, def).status = 0
        /\ reg = parse_register(name, def).reg
    BY <2>1 DEF CallInv
  <2>3. IsSuffix(Suffix(name))
    BY <2>2 DEF parse_register
  <2>4. PICK x : x = Suffix(name)
    OBVIOUS
  <2>5. x \in Seq(Chars)
    BY <2>2, <2>4 DEF Suffix
  <2>6. PICK t \in Optional(Types), z \in Optional(Sizes) : x = t \o z
    BY <2>3, <2>4, <2>5, Suffixes
  <2>7. parse_register_id(name) \in 0 .. 15
    <3>1. reg.id = parse_register_id(name)
      <4>1. Suffix(name) = t \o z /\ IsSuffix(Suffix(name))
        BY <2>3, <2>4, <2>6
      <4>2. parse_register(name, def).reg
              = [id   |-> parse_register_id(name),
                 type |-> IF t = <<>> THEN def.type ELSE TypeChar[t[1]],
                 size |-> IF z = <<>> THEN def.size ELSE SizeChar[z[1]]]
        <5>1. def \in {Default, init_register_arg}
          BY <2>2
        <5> QED
          BY ONLY <4>1, <5>1, t \in Optional(Types), z \in Optional(Sizes), Parsed
      <4> QED
        BY <2>2, <4>2
    <3> QED
      BY <2>1, <3>1
  <2>8. PICK id \in 0 .. 15 : id = parse_register_id(name)
    BY <2>7
  <2>9. name = RegisterName(id) \o x
    BY <2>2, <2>4, <2>7, <2>8, Converse
  <2>10. name = RegisterName(id) \o t \o z
    BY <2>6, <2>9, Regrouped
  <2> QED
    BY <2>8, <2>10 DEF IsRegister, Spells
<1> QED
  BY <1>1, CallInvariant, PTL

(* Every register is recognised under every name it has, and keeps the     *)
(* caller's type and size exactly where the name gives none.               *)
THEOREM RecognisedCorrect == Spec => []RegistersRecognised
<1>1. CallInv => RegistersRecognised
  <2>1. SUFFICES ASSUME CallInv, pc = "done", NEW id \in 0 .. 15,
                        NEW t \in Optional(Types), NEW z \in Optional(Sizes),
                        Spells(name, id, t, z)
                 PROVE  /\ status = 0
                        /\ reg = [id   |-> id,
                                  type |-> IF t = <<>> THEN def.type
                                           ELSE TypeChar[t[1]],
                                  size |-> IF z = <<>> THEN def.size
                                           ELSE SizeChar[z[1]]]
    BY DEF RegistersRecognised
  <2>2. /\ def \in {Default, init_register_arg}
        /\ status = parse_register(name, def).status
        /\ reg = parse_register(name, def).reg
    BY <2>1 DEF CallInv
  <2>3. PICK x : x = t \o z
    OBVIOUS
  <2>4. x \in Seq(Chars) /\ (x # <<>> => ~IsDigit(x[1]))
    BY <2>3, SuffixTypes
  <2>5. name = RegisterName(id) \o x
    BY <2>1, <2>3, Regrouped DEF Spells
  <2>6. parse_register_id(name) = id /\ Suffix(name) = x
    BY <2>4, <2>5, Reading
  <2>7. IsSuffix(Suffix(name)) /\ Suffix(name) = t \o z
    BY <2>3, <2>4, <2>6, Suffixes
  <2>8. /\ parse_register(name, def).status = 0
        /\ parse_register(name, def).reg
             = [id   |-> parse_register_id(name),
                type |-> IF t = <<>> THEN def.type ELSE TypeChar[t[1]],
                size |-> IF z = <<>> THEN def.size ELSE SizeChar[z[1]]]
    BY <2>2, <2>7, Parsed
  <2> QED
    BY <2>2, <2>6, <2>8
<1> QED
  BY <1>1, CallInvariant, PTL
=============================================================================
