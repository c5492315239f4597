--------------------------- MODULE ToolchainProofs ---------------------------
(***************************************************************************)
(* The way of a program from the builder's calls to a listing, for every   *)
(* client, every source, every width of the word and every number of       *)
(* labels a jump can hold.                                                 *)
(*                                                                         *)
(* Part I, the buffer: what the instruction builder holds decodes to the   *)
(* instructions written, labels are at TARGETs, fixups at wide jumps.      *)
(*                                                                         *)
(* Part II, the promise: the builder implements Assembly.  What Part I     *)
(* establishes of the buffer holds through build: patching the             *)
(* placeholders and taking the third byte of the jumps that can do without *)
(* leave a program that decodes to the instructions written, and the       *)
(* number in each jump is the place of its label in the jump table.  The   *)
(* assembler is a client of the builder, one that makes a call or two per  *)
(* line: what is proved of the builder holds of its runs, and what its     *)
(* label map knows makes the program the one the source describes.         *)
(*                                                                         *)
(* Part III, files and listings: a file that loads is the one that was     *)
(* written, whichever byte of it was damaged, since the checksum tells     *)
(* code from code that differs in one byte; and the listing of what was    *)
(* loaded, whole or raw, loses no byte of it.                              *)
(***************************************************************************)
EXTENDS Toolchain, Inductions

--------------------------------------------------------------------------
(* Part I: the buffer.                                                     *)

--------------------------------------------------------------------------
(* The opcode table.                                                       *)

Pairs == Plain \cup OneRegister \cup TwoRegisters \cup ThreeRegisters
           \cup NarrowJumps \cup WideJumps

Fields == {RegisterField, NarrowField, WideField}
            \cup {BytesField(n) : n \in 1 .. WordBytes}

LEMMA Pushes ==
    /\ PushName[1] = "PUSH1" /\ PushName[2] = "PUSH2" /\ PushName[3] = "PUSH3"
    /\ PushName[4] = "PUSH4" /\ PushName[5] = "PUSH5" /\ PushName[6] = "PUSH6"
    /\ PushName[7] = "PUSH7" /\ PushName[8] = "PUSH8"
    /\ \A n \in 1 .. 8 : n \in {1, 2, 3, 4, 5, 6, 7, 8}
BY DEF PushName

LEMMA PushesDiffer ==
    \A m, n \in 1 .. 8 : PushName[m] = PushName[n] => m = n
<1> SUFFICES ASSUME NEW m \in {1, 2, 3, 4, 5, 6, 7, 8},
                    NEW n \in {1, 2, 3, 4, 5, 6, 7, 8}, PushName[m] = PushName[n]
             PROVE  m = n
  BY Pushes
<1> QED BY Pushes

LEMMA PairsDiffer ==
    /\ \A o \in Pairs : /\ o[1] \in Nat /\ o[1] \notin 17 .. 24
                        /\ \A n \in 1 .. 8 : o[2] # PushName[n]
    /\ \A o, p \in Pairs : o[1] = p[1] \/ o[2] = p[2] => o = p
<1> USE DEF Pairs, Plain, OneRegister, TwoRegisters, ThreeRegisters, NarrowJumps, WideJumps
<1>1. \A o \in Pairs : o[1] \in Nat /\ o[1] \notin 17 .. 24
  OBVIOUS
<1>2. \A o \in Pairs : \A n \in 1 .. 8 : o[2] # PushName[n]
  <2>1. \A n \in 1 .. 8 : PushName[n] \in {"PUSH1", "PUSH2", "PUSH3", "PUSH4",
                                          "PUSH5", "PUSH6", "PUSH7", "PUSH8"}
    BY Pushes
  <2>2. \A o \in Pairs : /\ o[2] # "PUSH1" /\ o[2] # "PUSH2" /\ o[2] # "PUSH3"
                         /\ o[2] # "PUSH4" /\ o[2] # "PUSH5" /\ o[2] # "PUSH6"
                         /\ o[2] # "PUSH7" /\ o[2] # "PUSH8"
    OBVIOUS
  <2> HIDE DEF Pairs
  <2> QED BY <2>1, <2>2
<1>3. \A o, p \in Pairs : o[1] = p[1] => o = p
  OBVIOUS
<1>4. \A o, p \in Pairs : o[2] = p[2] => o = p
  OBVIOUS
<1> HIDE DEF Pairs
<1> QED BY <1>1, <1>2, <1>3, <1>4

\* The operands of a mnemonic.
FieldsOf(o) ==
    CASE o \in Plain          -> <<>>
      [] o \in OneRegister    -> <<RegisterField>>
      [] o \in TwoRegisters   -> <<RegisterField, RegisterField>>
      [] o \in ThreeRegisters -> <<RegisterField, RegisterField, RegisterField>>
      [] o \in NarrowJumps    -> <<NarrowField>>
      [] o \in WideJumps      -> <<WideField>>

LEMMA RowsDisjoint ==
    \A o \in Pairs :
        /\ o \in Plain => FieldsOf(o) = <<>>
        /\ o \in OneRegister => FieldsOf(o) = <<RegisterField>>
        /\ o \in TwoRegisters => FieldsOf(o) = <<RegisterField, RegisterField>>
        /\ o \in ThreeRegisters =>
              FieldsOf(o) = <<RegisterField, RegisterField, RegisterField>>
        /\ o \in NarrowJumps => FieldsOf(o) = <<NarrowField>>
        /\ o \in WideJumps => FieldsOf(o) = <<WideField>>
<1> SUFFICES ASSUME NEW o \in Pairs
             PROVE  /\ o \in Plain => FieldsOf(o) = <<>>
                    /\ o \in OneRegister => FieldsOf(o) = <<RegisterField>>
                    /\ o \in TwoRegisters => FieldsOf(o) = <<RegisterField, RegisterField>>
                    /\ o \in ThreeRegisters =>
                          FieldsOf(o) = <<RegisterField, RegisterField, RegisterField>>
                    /\ o \in NarrowJumps => FieldsOf(o) = <<NarrowField>>
                    /\ o \in WideJumps => FieldsOf(o) = <<WideField>>
  OBVIOUS
<1> DEFINE is(a) == <<o \in Plain, o \in OneRegister, o \in TwoRegisters,
                      o \in ThreeRegisters, o \in NarrowJumps, o \in WideJumps>>[a]
<1>1. /\ o \in Plain => o \notin OneRegister \cup TwoRegisters \cup ThreeRegisters
                                  \cup NarrowJumps \cup WideJumps
      /\ o \in OneRegister => o \notin TwoRegisters \cup ThreeRegisters
                                  \cup NarrowJumps \cup WideJumps
      /\ o \in TwoRegisters => o \notin ThreeRegisters \cup NarrowJumps \cup WideJumps
      /\ o \in ThreeRegisters => o \notin NarrowJumps \cup WideJumps
      /\ o \in NarrowJumps => o \notin WideJumps
  BY DEF Pairs, Plain, OneRegister, TwoRegisters, ThreeRegisters, NarrowJumps, WideJumps
<1> QED BY <1>1 DEF FieldsOf

\* The rows of the table.
RowOf(o) == [code |-> o[1], op |-> o[2], fields |-> FieldsOf(o)]
PushRow(n) == [code |-> 16 + n, op |-> PushName[n], fields |-> <<BytesField(n)>>]

LEMMA Rows ==
    ASSUME NEW row
    PROVE  row \in Table <=> \/ \E o \in Pairs : row = RowOf(o)
                            \/ \E n \in 1 .. WordBytes : row = PushRow(n)
<1> DEFINE rows(opcodes, fields) ==
               {[code |-> o[1], op |-> o[2], fields |-> fields] : o \in opcodes}
           pushes == UNION {rows({<<16 + n, PushName[n]>>}, <<BytesField(n)>>) :
                               n \in 1 .. WordBytes}
<1>1. row \in pushes <=> \E n \in 1 .. WordBytes : row = PushRow(n)
  <2>1. ASSUME NEW n \in 1 .. WordBytes
        PROVE  rows({<<16 + n, PushName[n]>>}, <<BytesField(n)>>) = {PushRow(n)}
    <3> DEFINE o == <<16 + n, PushName[n]>>
    <3>1. o[1] = 16 + n /\ o[2] = PushName[n]
      OBVIOUS
    <3> HIDE DEF o
    <3>2. rows({o}, <<BytesField(n)>>) = {PushRow(n)}
      BY <3>1 DEF PushRow
    <3> QED BY <3>2 DEF o
  <2> HIDE DEF rows
  <2> QED BY <2>1
<1>2. ASSUME NEW opcodes \in SUBSET Pairs, NEW fields,
             \A o \in opcodes : FieldsOf(o) = fields
      PROVE  row \in rows(opcodes, fields) <=> \E o \in opcodes : row = RowOf(o)
  BY <1>2 DEF RowOf
<1>3. /\ Plain \in SUBSET Pairs /\ OneRegister \in SUBSET Pairs
      /\ TwoRegisters \in SUBSET Pairs /\ ThreeRegisters \in SUBSET Pairs
      /\ NarrowJumps \in SUBSET Pairs /\ WideJumps \in SUBSET Pairs
  BY DEF Pairs
<1>4. /\ row \in rows(Plain, <<>>) <=> \E o \in Plain : row = RowOf(o)
      /\ row \in rows(OneRegister, <<RegisterField>>)
            <=> \E o \in OneRegister : row = RowOf(o)
      /\ row \in rows(TwoRegisters, <<RegisterField, RegisterField>>)
            <=> \E o \in TwoRegisters : row = RowOf(o)
      /\ row \in rows(ThreeRegisters, <<RegisterField, RegisterField, RegisterField>>)
            <=> \E o \in ThreeRegisters : row = RowOf(o)
      /\ row \in rows(NarrowJumps, <<NarrowField>>)
            <=> \E o \in NarrowJumps : row = RowOf(o)
      /\ row \in rows(WideJumps, <<WideField>>)
            <=> \E o \in WideJumps : row = RowOf(o)
  <2> HIDE DEF rows
  <2> QED BY <1>2, <1>3, RowsDisjoint
<1>5. row \in Table <=>
         \/ row \in rows(Plain, <<>>)
         \/ row \in rows(OneRegister, <<RegisterField>>)
         \/ row \in rows(TwoRegisters, <<RegisterField, RegisterField>>)
         \/ row \in rows(ThreeRegisters, <<RegisterField, RegisterField, RegisterField>>)
         \/ row \in rows(NarrowJumps, <<NarrowField>>)
         \/ row \in rows(WideJumps, <<WideField>>)
         \/ row \in pushes
  <2>1. Table = rows(Plain, <<>>)
          \cup rows(OneRegister, <<RegisterField>>)
          \cup rows(TwoRegisters, <<RegisterField, RegisterField>>)
          \cup rows(ThreeRegisters, <<RegisterField, RegisterField, RegisterField>>)
          \cup rows(NarrowJumps, <<NarrowField>>)
          \cup rows(WideJumps, <<WideField>>)
          \cup pushes
    BY DEF Table
  <2> HIDE DEF rows, pushes
  <2> QED BY <2>1
<1>6. \A o : o \in Pairs <=> \/ o \in Plain \/ o \in OneRegister \/ o \in TwoRegisters
                            \/ o \in ThreeRegisters \/ o \in NarrowJumps
                            \/ o \in WideJumps
  BY DEF Pairs
<1> HIDE DEF rows, pushes
<1> QED BY <1>1, <1>4, <1>5, <1>6

LEMMA RowsDiffer ==
    \A r, s \in Table : r.code = s.code \/ r.op = s.op => r = s
<1> SUFFICES ASSUME NEW r \in Table, NEW s \in Table, r.code = s.code \/ r.op = s.op
             PROVE  r = s
  OBVIOUS
<1>1. \A n \in 1 .. WordBytes : n \in 1 .. 8 /\ 16 + n \in 17 .. 24
  BY CodecAssumption
<1>2. CASE \E o \in Pairs : r = RowOf(o)
  <2>1. PICK o \in Pairs : r = RowOf(o)
    BY <1>2
  <2>2. ASSUME NEW p \in Pairs, s = RowOf(p) PROVE r = s
    BY <2>1, <2>2, PairsDiffer DEF RowOf
  <2>3. ASSUME NEW n \in 1 .. WordBytes, s = PushRow(n) PROVE FALSE
    BY <1>1, <2>1, <2>3, PairsDiffer DEF RowOf, PushRow
  <2> QED BY <2>2, <2>3, Rows
<1>3. CASE \E n \in 1 .. WordBytes : r = PushRow(n)
  <2>1. PICK n \in 1 .. WordBytes : r = PushRow(n)
    BY <1>3
  <2>2. ASSUME NEW p \in Pairs, s = RowOf(p) PROVE FALSE
    BY <1>1, <2>1, <2>2, PairsDiffer DEF RowOf, PushRow
  <2>3. ASSUME NEW m \in 1 .. WordBytes, s = PushRow(m) PROVE r = s
    <3>1. m \in 1 .. 8 /\ n \in 1 .. 8 /\ m \in Int /\ n \in Int
      BY <1>1
    <3>2. 16 + n = 16 + m \/ PushName[n] = PushName[m]
      BY <2>1, <2>3 DEF PushRow
    <3>3. n = m
      BY <3>1, <3>2, PushesDiffer
    <3> QED BY <2>1, <2>3, <3>3
  <2> QED BY <2>2, <2>3, Rows
<1> QED BY <1>2, <1>3, Rows

LEMMA RowOfCode ==
    ASSUME NEW row \in Table
    PROVE  /\ row.code \in DOMAIN OfCode /\ OfCode[row.code] = row
           /\ row.op \in DOMAIN OfName /\ OfName[row.op] = row
<1>1. row.code \in DOMAIN OfCode /\ row.op \in DOMAIN OfName
  BY DEF OfCode, OfName
<1>2. OfCode[row.code] = CHOOSE r \in Table : r.code = row.code
  BY <1>1 DEF OfCode
<1>3. OfName[row.op] = CHOOSE r \in Table : r.op = row.op
  BY <1>1 DEF OfName
<1>4. OfCode[row.code] \in Table /\ OfCode[row.code].code = row.code
  BY <1>2
<1>5. OfName[row.op] \in Table /\ OfName[row.op].op = row.op
  BY <1>3
<1> QED BY <1>1, <1>4, <1>5, RowsDiffer

LEMMA CodesKnown == \A c \in DOMAIN OfCode : OfCode[c] \in Table /\ OfCode[c].code = c
<1> SUFFICES ASSUME NEW c \in DOMAIN OfCode
             PROVE  OfCode[c] \in Table /\ OfCode[c].code = c
  OBVIOUS
<1>1. PICK row \in Table : row.code = c
  BY DEF OfCode
<1> QED BY <1>1, RowOfCode

LEMMA RowFields ==
    ASSUME NEW row \in Table
    PROVE  row.fields \in Seq(Fields) /\ row.code \in Nat
<1>1. RegisterField \in Fields /\ NarrowField \in Fields /\ WideField \in Fields
      /\ \A n \in 1 .. WordBytes : BytesField(n) \in Fields
  BY DEF Fields
<1>2. /\ <<>> \in Seq(Fields) /\ <<RegisterField>> \in Seq(Fields)
      /\ <<RegisterField, RegisterField>> \in Seq(Fields)
      /\ <<RegisterField, RegisterField, RegisterField>> \in Seq(Fields)
      /\ <<NarrowField>> \in Seq(Fields) /\ <<WideField>> \in Seq(Fields)
      /\ \A n \in 1 .. WordBytes : <<BytesField(n)>> \in Seq(Fields)
  BY <1>1
<1>3. CASE \E o \in Pairs : row = RowOf(o)
  <2>1. PICK o \in Pairs : row = RowOf(o)
    BY <1>3
  <2>2. FieldsOf(o) \in Seq(Fields)
    BY <1>2, RowsDisjoint DEF Pairs
  <2> QED BY <2>1, <2>2, PairsDiffer DEF RowOf
<1>4. CASE \E n \in 1 .. WordBytes : row = PushRow(n)
  BY <1>2, <1>4, CodecAssumption DEF PushRow
<1> QED BY <1>3, <1>4, Rows

--------------------------------------------------------------------------
(* Sizes of operands.                                                      *)

LEMMA FieldWidths == \A f \in Fields : f.width \in Nat
BY CodecAssumption DEF Fields, RegisterField, NarrowField, WideField, BytesField

\* The sizes of 0, 1, ... operands.
Sizes(fields, size) ==
    /\ size \in [0 .. Len(fields) -> Nat]
    /\ size[0] = 1
    /\ \A k \in 1 .. Len(fields) : size[k] = size[k - 1] + fields[k].width

LEMMA SizeChain ==
    ASSUME NEW fields \in Seq(Fields), NEW n \in 0 .. Len(fields)
    PROVE  \E chain :
              /\ SizeOfFields(fields, n) = chain[n] /\ chain[0] = 1
              /\ \A k \in 1 .. n : chain[k] = chain[k - 1] + fields[k].width
<1> DEFINE seq == SubSeq(fields, 1, n)
           D == 1 .. n
           body(g, s) == IF s = {} THEN 1 ELSE g[s \ {Max(s)}] + seq[Max(s)].width
           it == CHOOSE g : g = [s \in SUBSET DOMAIN seq |-> body(g, s)]
<1>1. SizeOfFields(fields, n) = it[DOMAIN seq]
  BY DEF SizeOfFields, FoldLeft, MapThenFoldSet
<1>2. n \in Nat /\ n <= Len(fields) /\ Len(fields) \in Nat
  BY LenProperties
<1>3. DOMAIN seq = D /\ \A k \in D : seq[k] = fields[k] /\ fields[k] \in Fields
  BY <1>2, SubSeqProperties, ElementOfSeq
<1>4. \E g : g = [s \in SUBSET D |-> body(g, s)]
  <2> DEFINE step == [p \in D \X Nat |-> p[2] + seq[p[1]].width]
             V == Nat
             base == 1
  <2>1. \A k \in D : \A v \in V : /\ step[<<k, v>>] = v + seq[k].width
                                 /\ step[<<k, v>>] \in V
    <3> HIDE DEF seq
    <3> QED BY <1>3, FieldWidths
  <2>2. base \in V
    OBVIOUS
  <2> HIDE DEF step, V, base
  <2>3. \E g : LeftFolds(g, n, V, base, step)
    BY <1>2, <2>1, <2>2, LeftFoldExists
  <2>4. PICK g : LeftFolds(g, n, V, base, step)
    BY <2>3
  <2>5. \A s \in SUBSET D : g[s] = body(g, s)
    <3> HIDE DEF seq
    <3> QED BY <2>1, <2>4 DEF LeftFolds, base
  <2>6. g = [s \in SUBSET D |-> body(g, s)]
    <3> HIDE DEF body
    <3> QED BY <2>4, <2>5 DEF LeftFolds
  <2> QED BY <2>6
<1>5. it = [s \in SUBSET D |-> body(it, s)]
  <2>1. it = CHOOSE g : g = [s \in SUBSET D |-> body(g, s)]
    <3> HIDE DEF body, D, seq
    <3> QED BY <1>3
  <2> HIDE DEF body, D, it
  <2> QED BY <1>4, <2>1
<1> DEFINE chain == [k \in 0 .. n |-> it[1 .. k]]
<1> HIDE DEF it, seq
<1>6. chain[0] = 1
  <2>1. 1 .. 0 = {} /\ {} \in SUBSET D
    OBVIOUS
  <2>2. it[{}] = 1
    BY <1>5, <2>1
  <2>3. chain[0] = it[1 .. 0]
    BY <1>2
  <2> HIDE DEF chain
  <2> QED BY <2>1, <2>2, <2>3
<1>7. ASSUME NEW k \in 1 .. n PROVE chain[k] = chain[k - 1] + fields[k].width
  <2>1. /\ 1 .. k \in SUBSET D /\ 1 .. k # {} /\ Max(1 .. k) = k
        /\ (1 .. k) \ {k} = 1 .. k - 1
    BY <1>2, TopOfInterval
  <2>2. it[1 .. k] = it[1 .. k - 1] + seq[k].width
    BY <1>5, <2>1
  <2>3. k \in 0 .. n /\ k - 1 \in 0 .. n
    BY <1>2
  <2> QED BY <1>3, <2>2, <2>3
<1>8. SizeOfFields(fields, n) = chain[n]
  BY <1>1, <1>2, <1>3
<1> HIDE DEF chain
<1> QED BY <1>6, <1>7, <1>8

LEMMA SizesExist ==
    ASSUME NEW fields \in Seq(Fields)
    PROVE  \E size : /\ Sizes(fields, size)
                     /\ \A n \in 0 .. Len(fields) : SizeOfFields(fields, n) = size[n]
<1>1. Len(fields) \in Nat /\ \A k \in 1 .. Len(fields) : fields[k].width \in Nat
  BY LenProperties, ElementOfSeq, FieldWidths
<1>2. PICK long : /\ long[0] = 1
                  /\ \A k \in 1 .. Len(fields) : long[k] = long[k - 1] + fields[k].width
  BY <1>1, SizeChain
<1> DEFINE size == [n \in 0 .. Len(fields) |-> long[n]]
<1>3. \A k \in 0 .. Len(fields) : long[k] \in Nat
  <2> DEFINE V == Nat
  <2>1. long[0] \in V
    BY <1>2
  <2>3. ASSUME NEW k \in 1 .. Len(fields), long[k - 1] \in V PROVE long[k] \in V
    <3>1. long[k] = long[k - 1] + fields[k].width /\ fields[k].width \in Nat
      BY <1>1, <1>2
    <3> QED BY <2>3, <3>1
  <2>2. \A k \in 0 .. Len(fields) : long[k] \in V
    <3> HIDE DEF V
    <3> QED BY <1>1, <2>1, <2>3, ChainStays
  <2> QED BY <2>2
<1>4. Sizes(fields, size)
  <2>1. \A k \in 1 .. Len(fields) : k \in 0 .. Len(fields) /\ k - 1 \in 0 .. Len(fields)
    BY <1>1
  <2> QED BY <1>1, <1>2, <1>3, <2>1 DEF Sizes
<1>5. ASSUME NEW n \in 0 .. Len(fields) PROVE SizeOfFields(fields, n) = size[n]
  <2>1. PICK chain :
            /\ SizeOfFields(fields, n) = chain[n] /\ chain[0] = 1
            /\ \A k \in 1 .. n : chain[k] = chain[k - 1] + fields[k].width
    BY SizeChain
  <2> DEFINE same == [k \in 0 .. n |-> chain[k] = long[k]]
             V == {TRUE}
  <2>2. n \in Nat /\ n \in 0 .. n /\ 0 \in 0 .. n
        /\ \A k \in 1 .. n : k \in 1 .. Len(fields) /\ k - 1 \in 0 .. n /\ k \in 0 .. n
    BY <1>1
  <2>3. same[0] \in V
    BY <1>2, <2>1, <2>2
  <2>4. ASSUME NEW k \in 1 .. n, same[k - 1] \in V PROVE same[k] \in V
    <3>1. chain[k - 1] = long[k - 1]
      BY <2>2, <2>4
    <3> QED BY <1>2, <2>1, <2>2, <3>1
  <2>5. \A k \in 0 .. n : same[k] \in V
    <3> HIDE DEF same, V
    <3> QED BY <2>2, <2>3, <2>4, ChainStays
  <2>6. chain[n] = long[n]
    BY <2>2, <2>5
  <2> QED BY <2>1, <2>6
<1> HIDE DEF size
<1> QED BY <1>4, <1>5

--------------------------------------------------------------------------
(* Encode and Decode.                                                      *)

\* What a byte or a number may be, the bytes of a pushed word included.
Values == Int \cup {(val \div 256 ^ k) % 256 : val \in Constants, k \in Nat}

OperandsOf(field) ==
    IF field.kind = "bytes" THEN {v \in Seq(Values) : Len(v) = field.width} ELSE Int

\* An instruction the table has a row for, with the operands of that row.
RowHolds(row, instr) ==
    /\ instr = Instr(row.op, instr.args)
    /\ instr.args = [k \in DOMAIN row.fields |-> instr.args[k]]
    /\ \A k \in DOMAIN row.fields : instr.args[k] \in OperandsOf(row.fields[k])
IsWritable(instr) == \E row \in Table : RowHolds(row, instr)

LEMMA OperandRoundTrip ==
    ASSUME NEW field \in Fields, NEW v \in OperandsOf(field)
    PROVE  /\ EncodeOperand(field, v) \in Seq(Values)
           /\ Len(EncodeOperand(field, v)) = field.width
           /\ DecodeOperand(field, EncodeOperand(field, v)) = v
<1>1. Int \subseteq Values
  BY DEF Values
<1>2. CASE field = RegisterField \/ field = NarrowField
  <2>1. /\ field.kind # "u16" /\ field.kind # "bytes" /\ field.width = 1
    BY <1>2 DEF RegisterField, NarrowField
  <2>2. v \in Values
    BY <1>1, <2>1 DEF OperandsOf
  <2>3. EncodeOperand(field, v) = <<v>>
    BY <2>1 DEF EncodeOperand
  <2>4. DecodeOperand(field, <<v>>) = v
    BY <2>1 DEF DecodeOperand
  <2> QED BY <2>1, <2>2, <2>3, <2>4
<1>3. CASE field = WideField
  <2>1. field.kind = "u16" /\ field.width = 2
    BY <1>3 DEF WideField
  <2>2. v \in Int
    BY <2>1 DEF OperandsOf
  <2>3. v \div 256 \in Int /\ v % 256 \in Int /\ 256 * (v \div 256) + (v % 256) = v
    BY <2>2
  <2>4. EncodeOperand(field, v) = <<v \div 256, v % 256>>
    BY <2>1 DEF EncodeOperand
  <2>5. DecodeOperand(field, <<v \div 256, v % 256>>) = 256 * (v \div 256) + (v % 256)
    BY <2>1 DEF DecodeOperand
  <2>6. v \div 256 \in Values /\ v % 256 \in Values
    BY <1>1, <2>3
  <2>7. /\ <<v \div 256, v % 256>> \in Seq(Values)
        /\ Len(<<v \div 256, v % 256>>) = 2
    BY <2>6
  <2> QED BY <2>1, <2>3, <2>4, <2>5, <2>7
<1>4. CASE \E n \in 1 .. WordBytes : field = BytesField(n)
  <2>1. field.kind = "bytes" /\ field.kind # "u16"
    BY <1>4 DEF BytesField
  <2> QED BY <2>1 DEF OperandsOf, EncodeOperand, DecodeOperand
<1> QED BY <1>2, <1>3, <1>4 DEF Fields

\* The bytes of an instruction: its code, and each operand in its place.
Encodes(code, row, size, args) ==
    /\ code \in Seq(Values)
    /\ Len(code) = size[Len(row.fields)]
    /\ code[1] = row.code
    /\ \A k \in 1 .. Len(row.fields) : \A i \in 1 .. row.fields[k].width :
          code[size[k - 1] + i] = EncodeOperand(row.fields[k], args[k])[i]

LEMMA EncodeRow ==
    ASSUME NEW row \in Table, NEW instr, RowHolds(row, instr),
           NEW size, Sizes(row.fields, size)
    PROVE  Encodes(Encode(instr), row, size, instr.args)
<1> DEFINE fields == row.fields
           n == Len(fields)
           ss == [k \in DOMAIN fields |-> EncodeOperand(fields[k], instr.args[k])]
           at == [k \in 0 .. n |-> size[k] - 1]
           tail == FlattenSeq(ss)
<1>1. Encode(instr) = <<row.code>> \o tail
  <2>1. instr.op = row.op
    <3>1. Instr(row.op, instr.args).op = row.op
      BY DEF Instr
    <3> QED BY <3>1 DEF RowHolds
  <2>2. OfName[instr.op] = row
    BY <2>1, RowOfCode
  <2> QED BY <2>2 DEF Encode
<1>2. /\ n \in Nat /\ DOMAIN fields = 1 .. n
      /\ \A k \in 1 .. n : fields[k] \in Fields /\ fields[k].width \in Nat
  BY RowFields, LenProperties, ElementOfSeq, FieldWidths
<1>3. \A k \in 1 .. n : /\ EncodeOperand(fields[k], instr.args[k]) \in Seq(Values)
                        /\ Len(EncodeOperand(fields[k], instr.args[k])) = fields[k].width
  BY <1>2, OperandRoundTrip DEF RowHolds
<1>4. ss \in Seq(Seq(Values)) /\ Len(ss) = n
  <2>1. ss \in [1 .. n -> Seq(Values)]
    <3> HIDE DEF fields, n
    <3> QED BY <1>2, <1>3
  <2> HIDE DEF ss, n
  <2> QED BY <1>2, <2>1, SeqDef, LenProperties
<1>5. /\ size \in [0 .. n -> Nat] /\ size[0] = 1
      /\ \A k \in 1 .. n : size[k] = size[k - 1] + fields[k].width
  BY DEF Sizes
<1>6. \A k \in 0 .. n : size[k] >= 1
  <2> DEFINE V == Nat \ {0}
  <2>1. size[0] \in V
    BY <1>5
  <2>2. ASSUME NEW k \in 1 .. n, size[k - 1] \in V PROVE size[k] \in V
    <3>1. fields[k].width \in Nat /\ size[k] = size[k - 1] + fields[k].width
      BY <1>2, <1>5
    <3> QED BY <2>2, <3>1
  <2>3. \A k \in 0 .. n : size[k] \in V
    <3> HIDE DEF V, n
    <3> QED BY <1>2, <2>1, <2>2, ChainStays
  <2> QED BY <2>3
<1>7. Ends(ss, at)
  <2>1. at \in [0 .. n -> Nat] /\ at[0] = 0
    <3> HIDE DEF n
    <3> QED BY <1>2, <1>5, <1>6
  <2>2. ASSUME NEW k \in 1 .. n PROVE at[k] = at[k - 1] + Len(ss[k])
    <3> HIDE DEF n, fields
    <3>1. k \in 0 .. n /\ k - 1 \in 0 .. n /\ Len(ss[k]) = fields[k].width
      BY <1>2, <1>3
    <3>2. /\ size[k] \in Nat /\ size[k - 1] \in Nat /\ fields[k].width \in Nat
          /\ size[k] = size[k - 1] + fields[k].width
      BY <1>2, <1>5, <3>1
    <3>3. at[k] = size[k] - 1 /\ at[k - 1] = size[k - 1] - 1
      BY <3>1
    <3> QED BY <3>1, <3>2, <3>3
  <2> HIDE DEF at, ss
  <2> QED BY <1>4, <2>1, <2>2 DEF Ends
<1> HIDE DEF at, ss, n, tail
<1>8. /\ tail \in Seq(Values) /\ Len(tail) = at[n]
      /\ \A k \in 1 .. n : \A i \in 1 .. Len(ss[k]) : tail[at[k - 1] + i] = ss[k][i]
  <2>1. /\ FlattenSeq(ss) \in Seq(Values)
        /\ Len(FlattenSeq(ss)) = at[Len(ss)]
        /\ \A k \in 1 .. Len(ss) : \A i \in 1 .. Len(ss[k]) :
              FlattenSeq(ss)[at[k - 1] + i] = ss[k][i]
    BY <1>4, <1>7, JoinedRuns
  <2> QED BY <1>4, <2>1 DEF tail
<1>9. <<row.code>> \in Seq(Values) /\ Len(<<row.code>>) = 1 /\ <<row.code>>[1] = row.code
  BY RowFields DEF Values
<1>10. PICK e \in Nat : e = Len(tail)
  BY <1>8, LenProperties
<1> DEFINE head == <<row.code>>
<1>11. /\ head \in Seq(Values) /\ tail \in Seq(Values) /\ 1 = Len(head) /\ e = Len(tail)
       /\ head[1] = row.code
  BY <1>8, <1>9, <1>10
<1>12. /\ head \o tail \in Seq(Values) /\ Len(head \o tail) = 1 + e
       /\ \A i \in 1 .. 1 : (head \o tail)[i] = head[i]
       /\ \A i \in 1 .. e : (head \o tail)[1 + i] = tail[i]
  <2> DEFINE one == 1
  <2>1. head \in Seq(Values) /\ one \in Nat /\ one = Len(head)
    BY <1>11
  <2> HIDE DEF head, one
  <2>2. /\ head \o tail \in Seq(Values) /\ Len(head \o tail) = one + e
        /\ \A i \in 1 .. one : (head \o tail)[i] = head[i]
        /\ \A i \in 1 .. e : (head \o tail)[one + i] = tail[i]
    BY <1>11, <2>1, ConcatPlaces
  <2> QED BY <2>2 DEF one
<1> HIDE DEF head
<1>13. Encode(instr) = head \o tail
  BY <1>1 DEF head
<1>14. Len(Encode(instr)) = size[n]
  <2>1. at[n] = size[n] - 1 /\ size[n] \in Nat
    BY <1>2, <1>5 DEF at
  <2> QED BY <1>8, <1>10, <1>12, <1>13, <2>1
<1>15. \A k \in 0 .. n : at[k] = size[k] - 1 /\ size[k] \in Nat /\ at[k] \in Nat
  BY <1>5, <1>6 DEF at
<1>16. ASSUME NEW k \in 1 .. n, NEW i \in 1 .. fields[k].width
       PROVE  Encode(instr)[size[k - 1] + i] = EncodeOperand(fields[k], instr.args[k])[i]
  <2> HIDE DEF fields
  <2>1. ss[k] = EncodeOperand(fields[k], instr.args[k]) /\ Len(ss[k]) = fields[k].width
    BY <1>2, <1>3 DEF ss
  <2>2. tail[at[k - 1] + i] = EncodeOperand(fields[k], instr.args[k])[i]
    BY <1>8, <2>1
  <2>3. PICK w \in Nat : w = fields[k].width
    BY <1>2
  <2>4. k - 1 \in 0 .. n /\ k \in 0 .. n
    BY <1>2
  <2>5. PICK s \in Nat : s = size[k - 1]
    BY <1>5, <2>4
  <2>6. at[k - 1] = s - 1 /\ s >= 1 /\ size[k] = s + w
    BY <1>5, <1>6, <1>15, <2>3, <2>4, <2>5
  <2>7. e = size[n] - 1
    BY <1>2, <1>8, <1>10, <1>15
  <2>8. size[k] <= size[n]
    <3> DEFINE V == {m \in 0 .. n : k <= m => size[k] <= size[m]}
               chain == [m \in 0 .. n |-> m]
    <3>1. chain[0] \in V
      BY <1>2
    <3>2. ASSUME NEW m \in 1 .. n, chain[m - 1] \in V PROVE chain[m] \in V
      <4>1. /\ m \in 0 .. n /\ m - 1 \in 0 .. n /\ chain[m] = m /\ chain[m - 1] = m - 1
            /\ m \in Nat /\ k \in Nat
        BY <1>2
      <4>2. PICK a \in Nat : a = size[m - 1]
        BY <1>5, <4>1
      <4>3. PICK c \in Nat : c = fields[m].width
        BY <1>2
      <4>4. size[m] = a + c
        BY <1>5, <4>2, <4>3
      <4>5. k <= m - 1 => size[k] <= a
        BY <3>2, <4>1, <4>2
      <4>6. size[k] \in Nat
        BY <1>5, <2>4
      <4>7. k <= m => size[k] <= size[m]
        <5>1. CASE k = m
          BY <4>6, <5>1
        <5>2. CASE k # m
          BY <4>1, <4>2, <4>3, <4>4, <4>5, <4>6, <5>2
        <5> QED BY <5>1, <5>2
      <4> QED BY <4>1, <4>7
    <3>3. \A m \in 0 .. n : chain[m] \in V
      <4> HIDE DEF chain, V
      <4> QED BY <1>2, <3>1, <3>2, ChainStays
    <3>4. n \in 0 .. n /\ chain[n] = n /\ k <= n
      BY <1>2
    <3> QED BY <3>3, <3>4
  <2>9. s - 1 + i \in 1 .. e /\ 1 + (s - 1 + i) = s + i
    <3>1. i \in Int /\ 1 <= i /\ i <= w
      BY <2>3
    <3>2. s + w <= e + 1
      <4>1. n \in 0 .. n
        BY <1>2
      <4>2. size[n] \in Nat
        BY <1>15, <4>1
      <4> QED BY <2>3, <2>5, <2>6, <2>7, <2>8, <4>2
    <3> QED BY <2>6, <3>1, <3>2
  <2> QED BY <1>12, <1>13, <2>2, <2>5, <2>6, <2>9
<1>17. Encode(instr)[1] = row.code /\ Encode(instr) \in Seq(Values)
  BY <1>11, <1>12, <1>13
<1> QED BY <1>14, <1>16, <1>17 DEF Encodes, n

LEMMA DecodeStart ==
    ASSUME NEW row \in Table, NEW instr, RowHolds(row, instr),
           NEW bytes \in Seq(Values), Len(Encode(instr)) <= Len(bytes),
           \A i \in 1 .. Len(Encode(instr)) : bytes[i] = Encode(instr)[i]
    PROVE  /\ Decode(bytes) = [error |-> "none", consumed |-> Len(Encode(instr)),
                               instr |-> instr]
           /\ Encode(instr) \in Seq(Values) /\ Len(Encode(instr)) \in Nat \ {0}
           /\ Encode(instr)[1] = row.code
<1> DEFINE fields == row.fields
           n == Len(fields)
           code == Encode(instr)
<1>1. PICK size : /\ Sizes(fields, size)
                  /\ \A k \in 0 .. n : SizeOfFields(fields, k) = size[k]
  BY RowFields, SizesExist
<1>2. Encodes(code, row, size, instr.args)
  BY <1>1, EncodeRow
<1>3. /\ n \in Nat /\ DOMAIN fields = 1 .. n
      /\ \A k \in 1 .. n : fields[k] \in Fields /\ fields[k].width \in Nat
  BY RowFields, LenProperties, ElementOfSeq, FieldWidths
<1>4. /\ \A k \in 0 .. n : size[k] \in Nat
      /\ size[0] = 1 /\ \A k \in 1 .. n : size[k] = size[k - 1] + fields[k].width
  BY <1>1 DEF Sizes
<1>5. code \in Seq(Values) /\ Len(code) = size[n] /\ code[1] = row.code
  BY <1>2 DEF Encodes
<1> HIDE DEF n, code
<1>6. \A k \in 0 .. n : size[k] >= 1 /\ size[k] <= size[n]
  <2> DEFINE V == {m \in 0 .. n : size[m] >= 1 /\ \A k \in 0 .. m : size[k] <= size[m]}
             chain == [m \in 0 .. n |-> m]
  <2> HIDE DEF fields
  <2>1. chain[0] \in V
    <3>1. 0 \in 0 .. n /\ \A k \in 0 .. 0 : k = 0
      BY <1>3
    <3> QED BY <1>4, <3>1
  <2>2. ASSUME NEW m \in 1 .. n, chain[m - 1] \in V PROVE chain[m] \in V
    <3>1. /\ m \in 0 .. n /\ m - 1 \in 0 .. n /\ chain[m] = m /\ chain[m - 1] = m - 1
          /\ m \in Nat
      BY <1>3
    <3>2. PICK a \in Nat : a = size[m - 1]
      BY <1>4, <3>1
    <3>3. PICK c \in Nat : c = fields[m].width
      BY <1>3
    <3>4. size[m] = a + c /\ a >= 1
      BY <1>4, <2>2, <3>1, <3>2, <3>3
    <3>5. ASSUME NEW k \in 0 .. m PROVE size[k] <= size[m]
      <4>1. CASE k = m
        BY <3>4, <4>1
      <4>2. CASE k # m
        <5>1. k \in 0 .. m - 1 /\ k \in 0 .. n
          BY <1>3, <3>1, <4>2
        <5>2. size[k] <= a /\ size[k] \in Nat
          BY <1>4, <2>2, <3>1, <3>2, <5>1
        <5> QED BY <3>4, <5>2
      <4> QED BY <4>1, <4>2
    <3> QED BY <3>1, <3>4, <3>5
  <2>3. \A m \in 0 .. n : chain[m] \in V
    <3> HIDE DEF chain, V
    <3> QED BY <1>3, <2>1, <2>2, ChainStays
  <2>4. n \in 0 .. n /\ \A m \in 0 .. n : chain[m] = m
    BY <1>3
  <2> QED BY <2>3, <2>4
<1>7. Len(code) \in Nat \ {0} /\ 1 \in 1 .. Len(code)
  <2>1. n \in 0 .. n
    BY <1>3
  <2>2. size[n] \in Nat /\ size[n] >= 1
    BY <1>4, <1>6, <2>1
  <2> QED BY <1>5, <2>2
<1>8. bytes # <<>> /\ bytes[1] = row.code
  <2>1. \A i \in 1 .. Len(code) : bytes[i] = code[i]
    BY DEF code
  <2>2. Len(bytes) \in Nat /\ Len(code) <= Len(bytes)
    BY LenProperties DEF code
  <2>3. Len(bytes) # 0
    BY <1>7, <2>2
  <2> QED BY <1>5, <1>7, <2>1, <2>3, EmptySeq
<1>9. Decode(bytes) = DecodeRow(row, bytes)
  BY <1>8, RowOfCode DEF Decode
<1> DEFINE read == [k \in DOMAIN fields |->
                       DecodeOperand(fields[k],
                           SubSeq(bytes, SizeOfFields(fields, k - 1) + 1,
                                         SizeOfFields(fields, (k + 1) - 1)))]
<1>10. DecodeRow(row, bytes) =
         IF Len(bytes) < SizeOfFields(fields, (n + 1) - 1)
         THEN [error |-> "TruncatedOperand"]
         ELSE [error |-> "none", consumed |-> SizeOfFields(fields, (n + 1) - 1),
               instr |-> Instr(row.op, read)]
  BY DEF DecodeRow, n
<1>11. (n + 1) - 1 = n /\ n \in 0 .. n /\ SizeOfFields(fields, n) = Len(code)
  <2>1. (n + 1) - 1 = n /\ n \in 0 .. n
    BY <1>3
  <2> QED BY <1>1, <1>5, <2>1 DEF n
<1>12. ~(Len(bytes) < Len(code))
  <2>1. Len(bytes) \in Nat /\ Len(code) <= Len(bytes)
    BY LenProperties DEF code
  <2> QED BY <1>7, <2>1
<1>13. ASSUME NEW k \in 1 .. n PROVE read[k] = instr.args[k]
  <2> DEFINE wrote == EncodeOperand(fields[k], instr.args[k])
             sub == SubSeq(bytes, size[k - 1] + 1, size[k])
  <2>1. k - 1 \in 0 .. n /\ k \in 0 .. n /\ (k + 1) - 1 = k
    BY <1>3
  <2>2. read[k] = DecodeOperand(fields[k], sub)
    BY <1>1, <1>3, <2>1 DEF n
  <2>3. /\ wrote \in Seq(Values) /\ Len(wrote) = fields[k].width
        /\ DecodeOperand(fields[k], wrote) = instr.args[k]
    BY <1>3, OperandRoundTrip DEF RowHolds
  <2>4. \A i \in 1 .. fields[k].width : code[size[k - 1] + i] = wrote[i]
    BY <1>2 DEF Encodes, n, code
  <2>5. PICK s \in Nat : s = size[k - 1]
    BY <1>4, <2>1
  <2>6. PICK w \in Nat : w = fields[k].width
    BY <1>3
  <2>7. size[k] = s + w /\ s >= 1
    BY <1>4, <1>6, <2>1, <2>5, <2>6
  <2>8. PICK e \in Nat : e = Len(code)
    BY <1>7
  <2>9. PICK z \in Nat : z = Len(bytes)
    BY LenProperties
  <2>10. s + w <= e /\ e <= z
    <3>1. size[k] <= size[n]
      BY <1>6, <2>1
    <3>2. e <= z
      BY <2>8, <2>9 DEF code
    <3> QED BY <1>5, <2>7, <2>8, <3>1, <3>2
  <2> HIDE DEF read
  <2>11. sub \in Seq(Values) /\ Len(sub) = w /\ \A i \in 1 .. w : sub[i] = bytes[s + i]
    <3>1. s + 1 \in 1 .. z + 1 /\ s + w \in (s + 1) - 1 .. z
      BY <2>7, <2>10
    <3>2. sub = SubSeq(bytes, s + 1, s + w)
      BY <2>5, <2>7
    <3> HIDE DEF sub
    <3>3. /\ SubSeq(bytes, s + 1, s + w) \in Seq(Values)
          /\ Len(SubSeq(bytes, s + 1, s + w)) =
               IF s + 1 <= s + w THEN (s + w) - (s + 1) + 1 ELSE 0
          /\ \A i \in 1 .. (s + w) - (s + 1) + 1 :
                SubSeq(bytes, s + 1, s + w)[i] = bytes[(s + 1) + i - 1]
      BY <2>9, <3>1, SubSeqProperties
    <3>4. (s + w) - (s + 1) + 1 = w /\ \A i \in 1 .. w : (s + 1) + i - 1 = s + i
          /\ (~(s + 1 <= s + w) => w = 0)
      BY <2>7
    <3> QED BY <3>2, <3>3, <3>4
  <2>12. \A i \in 1 .. w : sub[i] = wrote[i]
    <3> HIDE DEF sub, wrote
    <3>1. \A i \in 1 .. w : s + i \in 1 .. e
      BY <2>10
    <3>2. \A i \in 1 .. e : bytes[i] = code[i]
      BY <2>8 DEF code
    <3> QED BY <2>4, <2>5, <2>6, <2>11, <3>1, <3>2
  <2>13. sub = wrote
    <3> HIDE DEF sub, wrote
    <3>1. Len(sub) = Len(wrote) /\ \A i \in 1 .. Len(sub) : sub[i] = wrote[i]
      BY <2>3, <2>6, <2>11, <2>12
    <3> QED BY <2>3, <2>11, <3>1, SeqEqual
  <2> QED BY <2>2, <2>3, <2>13
<1>14. read = instr.args
  <2>1. instr.args = [k \in DOMAIN fields |-> instr.args[k]]
    BY DEF RowHolds
  <2>2. read = [k \in DOMAIN fields |-> read[k]]
    OBVIOUS
  <2> HIDE DEF read
  <2> QED BY <1>3, <1>13, <2>1, <2>2
<1>15. Instr(row.op, read) = instr
  BY <1>14 DEF RowHolds
<1> HIDE DEF read
<1>16. Decode(bytes) = [error |-> "none", consumed |-> Len(code), instr |-> instr]
  BY <1>9, <1>10, <1>11, <1>12, <1>15
<1> QED BY <1>5, <1>7, <1>16 DEF code

LEMMA DecodeAny ==
    ASSUME NEW bytes \in Seq(Values), Decode(bytes).error = "none"
    PROVE  Decode(bytes).consumed \in 1 .. Len(bytes)
<1>1. bytes # <<>> /\ bytes[1] \in DOMAIN OfCode
      /\ Decode(bytes) = DecodeRow(OfCode[bytes[1]], bytes)
  BY DEF Decode
<1>2. PICK row \in Table : row = OfCode[bytes[1]]
  BY <1>1, CodesKnown
<1> DEFINE n == Len(row.fields)
           last == SizeOfFields(row.fields, (n + 1) - 1)
<1>3. n \in Nat /\ (n + 1) - 1 = n /\ n \in 0 .. n
      /\ \A k \in 1 .. n : row.fields[k].width \in Nat
  BY RowFields, LenProperties, ElementOfSeq, FieldWidths
<1>4. PICK size : /\ Sizes(row.fields, size)
                  /\ \A k \in 0 .. n : SizeOfFields(row.fields, k) = size[k]
  BY RowFields, SizesExist
<1>5. last = size[n] /\ size[n] >= 1 /\ size[n] \in Nat
  <2>1. /\ size[0] = 1 /\ \A k \in 0 .. n : size[k] \in Nat
        /\ \A k \in 1 .. n : size[k] = size[k - 1] + row.fields[k].width
    BY <1>4 DEF Sizes
  <2> DEFINE V == Nat \ {0}
  <2>2. size[0] \in V
    BY <2>1
  <2>3. ASSUME NEW k \in 1 .. n, size[k - 1] \in V PROVE size[k] \in V
    <3>1. row.fields[k].width \in Nat /\ size[k] = size[k - 1] + row.fields[k].width
      BY <1>3, <2>1
    <3> QED BY <2>3, <3>1
  <2>4. \A k \in 0 .. n : size[k] \in V
    <3> HIDE DEF V, n
    <3> QED BY <1>3, <2>2, <2>3, ChainStays
  <2>5. size[n] \in V
    BY <1>3, <2>4
  <2> QED BY <1>3, <1>4, <2>5
<1>6. /\ Len(bytes) < last => DecodeRow(row, bytes).error = "TruncatedOperand"
      /\ ~(Len(bytes) < last) => DecodeRow(row, bytes).consumed = last
  BY DEF DecodeRow
<1>7. Len(bytes) \in Nat
  BY LenProperties
<1> HIDE DEF last, n
<1> QED BY <1>1, <1>2, <1>5, <1>6, <1>7

--------------------------------------------------------------------------
(* The stream.                                                             *)

LEMMA BytesFrom ==
    ASSUME NEW S, NEW bytes \in Seq(S), NEW pos \in 0 .. Len(bytes)
    PROVE  /\ SubSeq(bytes, pos + 1, Len(bytes)) \in Seq(S)
           /\ Len(SubSeq(bytes, pos + 1, Len(bytes))) = Len(bytes) - pos
           /\ \A i \in 1 .. Len(bytes) - pos :
                 SubSeq(bytes, pos + 1, Len(bytes))[i] = bytes[pos + i]
<1>1. PICK n \in Nat : n = Len(bytes)
  BY LenProperties
<1>2. pos + 1 \in 1 .. n + 1 /\ n \in (pos + 1) - 1 .. n /\ pos \in Nat /\ pos <= n
  BY <1>1
<1>3. /\ SubSeq(bytes, pos + 1, n) \in Seq(S)
      /\ Len(SubSeq(bytes, pos + 1, n)) = IF pos + 1 <= n THEN n - (pos + 1) + 1 ELSE 0
      /\ \A i \in 1 .. n - (pos + 1) + 1 :
            SubSeq(bytes, pos + 1, n)[i] = bytes[(pos + 1) + i - 1]
  BY <1>1, <1>2, SubSeqProperties
<1>4. n - (pos + 1) + 1 = n - pos /\ (~(pos + 1 <= n) => n - pos = 0)
      /\ \A i \in 1 .. n - pos : (pos + 1) + i - 1 = pos + i
  BY <1>2
<1> QED BY <1>1, <1>3, <1>4

LEMMA NextAdvances ==
    ASSUME NEW bytes \in Seq(Values), NEW pos \in 0 .. Len(bytes) - 1
    PROVE  NextInstruction(bytes, pos).next \in pos + 1 .. Len(bytes)
<1>1. PICK n \in Nat : n = Len(bytes)
  BY LenProperties
<1>2. pos \in 0 .. n /\ pos \in Nat /\ pos < n
  BY <1>1
<1> DEFINE rest == SubSeq(bytes, pos + 1, Len(bytes))
<1>3. rest \in Seq(Values) /\ Len(rest) = n - pos
  BY <1>1, <1>2, BytesFrom
<1> HIDE DEF rest
<1>4. CASE Decode(rest).error = "none"
  <2>1. Decode(rest).consumed \in 1 .. n - pos
    BY <1>3, <1>4, DecodeAny
  <2>2. NextInstruction(bytes, pos).next = pos + Decode(rest).consumed
    BY <1>4 DEF NextInstruction, Item, DecodeAt, rest
  <2> QED BY <1>1, <1>2, <2>1, <2>2
<1>5. CASE Decode(rest).error # "none"
  <2>1. NextInstruction(bytes, pos).next = pos + 1
    BY <1>5 DEF NextInstruction, Item, DecodeAt, rest
  <2> QED BY <1>1, <1>2, <2>1
<1> QED BY <1>4, <1>5

LEMMA StreamUnfolds ==
    ASSUME NEW bytes \in Seq(Values)
    PROVE  \E from :
              /\ Stream(bytes) = from[0] /\ from[Len(bytes)] = <<>>
              /\ \A pos \in 0 .. Len(bytes) - 1 :
                    from[pos] = <<NextInstruction(bytes, pos)>>
                                   \o from[NextInstruction(bytes, pos).next]
<1> DEFINE n == Len(bytes)
           item(pos) == NextInstruction(bytes, pos)
           body(g, pos) == IF pos = n THEN <<>> ELSE <<item(pos)>> \o g[item(pos).next]
           from == CHOOSE g : g = [pos \in 0 .. n |-> body(g, pos)]
<1>1. Stream(bytes) = from[0]
  BY DEF Stream
<1>2. n \in Nat
  BY LenProperties
<1>3. \E g : g = [pos \in 0 .. n |-> body(g, pos)]
  <2> DEFINE I == {item(pos) : pos \in 0 .. n - 1}
             V == Seq(I)
             next == [pos \in 0 .. n - 1 |-> item(pos).next]
             step == [p \in (0 .. n - 1) \X V |-> <<item(p[1])>> \o p[2]]
             base == <<>>
  <2>1. \A pos \in 0 .. n - 1 : next[pos] \in pos + 1 .. n /\ next[pos] = item(pos).next
    <3> HIDE DEF item
    <3> QED BY NextAdvances DEF item
  <2> HIDE DEF n, next
  <2>2. \A pos \in 0 .. n - 1 : \A v \in V :
           step[<<pos, v>>] = <<item(pos)>> \o v /\ step[<<pos, v>>] \in V
    <3> TAKE pos \in 0 .. n - 1
    <3> TAKE v \in V
    <3>1. item(pos) \in I
      OBVIOUS
    <3> HIDE DEF item, I
    <3>2. step[<<pos, v>>] = <<item(pos)>> \o v
      OBVIOUS
    <3>3. <<item(pos)>> \in Seq(I)
      BY <3>1
    <3> HIDE DEF step
    <3> QED BY <3>2, <3>3, ConcatProperties
  <2>3. base \in V
    BY EmptySeq
  <2> HIDE DEF item, step, V, base
  <2>7. \A pos \in 0 .. n - 1 : next[pos] \in pos + 1 .. n
    BY <2>1
  <2>8. \A pos \in 0 .. n - 1 : \A v \in V : step[<<pos, v>>] \in V
    BY <2>2
  <2>9. \E f : Descends(f, n, V, base, next, step)
    BY <1>2, <2>3, <2>7, <2>8, DescentExists
  <2>4. PICK f : Descends(f, n, V, base, next, step)
    BY <2>9
  <2>5. \A pos \in 0 .. n : f[pos] = body(f, pos)
    <3> TAKE pos \in 0 .. n
    <3>1. CASE pos = n
      BY <2>4, <3>1 DEF base, Descends
    <3>2. CASE pos # n
      <4>1. pos \in 0 .. n - 1
        BY <1>2, <3>2
      <4>2. next[pos] \in 0 .. n
        BY <1>2, <2>1, <4>1
      <4>3. f[next[pos]] \in V /\ f[pos] = step[<<pos, f[next[pos]]>>]
        BY <2>4, <4>1, <4>2 DEF Descends
      <4>4. f[pos] = <<item(pos)>> \o f[next[pos]]
        BY <2>2, <4>1, <4>3
      <4>5. next[pos] = item(pos).next
        BY <2>1, <4>1
      <4> QED BY <3>2, <4>4, <4>5
    <3> QED BY <3>1, <3>2
  <2>6. f = [pos \in 0 .. n |-> body(f, pos)]
    <3> HIDE DEF body
    <3> QED BY <2>4, <2>5 DEF Descends
  <2> HIDE DEF body
  <2> QED BY <2>6
<1>4. from = [pos \in 0 .. n |-> body(from, pos)]
  <2> HIDE DEF body, n
  <2> QED BY <1>3
<1> HIDE DEF from
<1>5. from[n] = <<>>
  <2>1. n \in 0 .. n
    BY <1>2
  <2> HIDE DEF n, item
  <2> QED BY <1>4, <2>1
<1>6. \A pos \in 0 .. n - 1 : from[pos] = <<item(pos)>> \o from[item(pos).next]
  <2> HIDE DEF n, item
  <2> TAKE pos \in 0 .. n - 1
  <2>1. pos \in 0 .. n /\ pos # n
    BY <1>2
  <2> QED BY <1>4, <2>1
<1> QED BY <1>1, <1>5, <1>6

\* Bytes that are those of some instructions, one after the other, and where
\* each of them ends.
Spells(bytes, at, instrs) ==
    /\ bytes \in Seq(Values)
    /\ at \in [0 .. Len(instrs) -> Nat]
    /\ at[0] = 0 /\ at[Len(instrs)] = Len(bytes)
    /\ \A k \in 1 .. Len(instrs) :
          /\ IsWritable(instrs[k])
          /\ at[k] = at[k - 1] + Len(Encode(instrs[k]))
          /\ \A i \in 1 .. Len(Encode(instrs[k])) :
                bytes[at[k - 1] + i] = Encode(instrs[k])[i]

\* What the stream yields of them.
ItemAt(at, instrs, k) ==
    [offset |-> at[k - 1], error |-> "none", instr |-> instrs[k], next |-> at[k]]

LEMMA EncodedLength ==
    ASSUME NEW instr, IsWritable(instr)
    PROVE  Encode(instr) \in Seq(Values) /\ Len(Encode(instr)) \in Nat \ {0}
<1>1. PICK row \in Table : RowHolds(row, instr)
  BY DEF IsWritable
<1>2. PICK size : Sizes(row.fields, size)
  BY RowFields, SizesExist
<1>3. Encode(instr) \in Seq(Values)
  BY <1>1, <1>2, EncodeRow DEF Encodes
<1>4. Len(Encode(instr)) <= Len(Encode(instr))
  BY <1>3, LenProperties
<1> QED BY <1>1, <1>3, <1>4, DecodeStart

\* The instructions begin one after the other.
LEMMA SpelledPlaces ==
    ASSUME NEW bytes, NEW at, NEW instrs, NEW S, instrs \in Seq(S), Spells(bytes, at, instrs)
    PROVE  /\ \A k \in 0 .. Len(instrs) : at[k] \in 0 .. Len(bytes)
           /\ \A k \in 1 .. Len(instrs) : \A j \in 0 .. k - 1 : at[j] < at[k]
<1> DEFINE n == Len(instrs)
<1>1. n \in Nat
  BY LenProperties
<1>2. /\ \A k \in 0 .. n : at[k] \in Nat
      /\ at[n] = Len(bytes)
  BY DEF Spells
<1>3. \A k \in 1 .. n : at[k - 1] < at[k]
  <2> TAKE k \in 1 .. n
  <2>1. /\ at[k] = at[k - 1] + Len(Encode(instrs[k]))
        /\ Len(Encode(instrs[k])) \in Nat \ {0}
    BY EncodedLength DEF Spells
  <2>2. k - 1 \in 0 .. n
    BY <1>1
  <2>3. at[k - 1] \in Nat
    BY <1>2, <2>2
  <2> QED BY <2>1, <2>3
<1> HIDE DEF n
<1>4. \A m \in 0 .. n : \A j \in 0 .. m : j = m \/ at[j] < at[m]
  <2> DEFINE V == {m \in 0 .. n : \A j \in 0 .. m : j = m \/ at[j] < at[m]}
             chain == [m \in 0 .. n |-> m]
  <2>1. chain[0] \in V
    BY <1>1
  <2>2. ASSUME NEW m \in 1 .. n, chain[m - 1] \in V PROVE chain[m] \in V
    <3>1. m \in 0 .. n /\ m - 1 \in 0 .. n /\ chain[m] = m /\ chain[m - 1] = m - 1
      BY <1>1
    <3>2. ASSUME NEW j \in 0 .. m, j # m PROVE at[j] < at[m]
      <4>1. j \in 0 .. m - 1 /\ j \in 0 .. n
        BY <1>1, <3>2
      <4>2. j = m - 1 \/ at[j] < at[m - 1]
        BY <2>2, <3>1, <4>1
      <4>3. PICK x, y, z \in Nat : x = at[j] /\ y = at[m - 1] /\ z = at[m]
        BY <1>2, <3>1, <4>1
      <4>4. y < z
        BY <1>3, <4>3
      <4> QED BY <4>2, <4>3, <4>4
    <3> QED BY <3>1, <3>2
  <2>3. \A m \in 0 .. n : chain[m] \in V
    <3> HIDE DEF chain, V
    <3> QED BY <1>1, <2>1, <2>2, ChainStays
  <2> QED BY <2>3
<1>5. ASSUME NEW k \in 0 .. n PROVE at[k] \in 0 .. Len(bytes)
  <2>1. n \in 0 .. n /\ k \in 0 .. n
    BY <1>1
  <2>2. k = n \/ at[k] < at[n]
    BY <1>1, <1>4, <2>1
  <2>3. at[k] \in Nat /\ at[n] \in Nat
    BY <1>2, <2>1
  <2> QED BY <1>2, <2>2, <2>3
<1>6. ASSUME NEW k \in 1 .. n, NEW j \in 0 .. k - 1 PROVE at[j] < at[k]
  <2>1. k \in 0 .. n /\ j \in 0 .. k /\ j # k
    BY <1>1
  <2> QED BY <1>4, <2>1
<1> QED BY <1>5, <1>6 DEF n

LEMMA StreamSpelled ==
    ASSUME NEW bytes, NEW at, NEW instrs, NEW S, instrs \in Seq(S), Spells(bytes, at, instrs)
    PROVE  Stream(bytes) = [k \in 1 .. Len(instrs) |-> ItemAt(at, instrs, k)]
<1> DEFINE n == Len(instrs)
           I == {ItemAt(at, instrs, k) : k \in 1 .. n}
           suffix(k) == [i \in 1 .. n - k |-> ItemAt(at, instrs, k + i)]
<1>1. n \in Nat /\ bytes \in Seq(Values) /\ Len(bytes) \in Nat
  BY LenProperties DEF Spells
<1>2. PICK from :
         /\ Stream(bytes) = from[0] /\ from[Len(bytes)] = <<>>
         /\ \A pos \in 0 .. Len(bytes) - 1 :
               from[pos] = <<NextInstruction(bytes, pos)>>
                              \o from[NextInstruction(bytes, pos).next]
  BY <1>1, StreamUnfolds
<1>3. /\ \A k \in 0 .. n : at[k] \in 0 .. Len(bytes)
      /\ \A k \in 1 .. n : \A j \in 0 .. k - 1 : at[j] < at[k]
  BY SpelledPlaces
<1>4. /\ at[0] = 0 /\ at[n] = Len(bytes)
      /\ \A k \in 1 .. n :
          /\ IsWritable(instrs[k])
          /\ at[k] = at[k - 1] + Len(Encode(instrs[k]))
          /\ \A i \in 1 .. Len(Encode(instrs[k])) :
                bytes[at[k - 1] + i] = Encode(instrs[k])[i]
  BY DEF Spells
<1> HIDE DEF n
<1>5. ASSUME NEW k \in 1 .. n
      PROVE  /\ at[k - 1] \in 0 .. Len(bytes) - 1
             /\ NextInstruction(bytes, at[k - 1]) = ItemAt(at, instrs, k)
  <2> DEFINE code == Encode(instrs[k])
             rest == SubSeq(bytes, at[k - 1] + 1, Len(bytes))
  <2>1. k - 1 \in 0 .. n /\ k \in 0 .. n /\ k - 1 \in 0 .. k - 1
    BY <1>1
  <2>2. PICK z \in Nat : z = Len(bytes)
    BY <1>1
  <2>3. PICK p \in 0 .. z : p = at[k - 1]
    BY <1>3, <2>1, <2>2
  <2>4. at[k] \in 0 .. z /\ p < at[k]
    BY <1>3, <2>1, <2>2, <2>3
  <2>5. PICK e \in Nat : e = Len(code)
    BY <1>4, EncodedLength
  <2>6. at[k] = p + e
    BY <1>4, <2>3, <2>5
  <2>7. p \in 0 .. z - 1 /\ e <= z - p /\ \A i \in 1 .. e : i \in 1 .. z - p
    BY <2>4, <2>6
  <2>8. /\ rest \in Seq(Values) /\ Len(rest) = z - p
        /\ \A i \in 1 .. z - p : rest[i] = bytes[p + i]
    BY <1>1, <2>2, <2>3, BytesFrom
  <2> HIDE DEF code, rest
  <2>9. Len(code) <= Len(rest) /\ \A i \in 1 .. Len(code) : rest[i] = code[i]
    <3>1. \A i \in 1 .. e : bytes[p + i] = code[i]
      BY <1>4, <2>3, <2>5 DEF code
    <3> QED BY <2>5, <2>7, <2>8, <3>1
  <2>10. PICK row \in Table : RowHolds(row, instrs[k])
    BY <1>4 DEF IsWritable
  <2>11. Decode(rest) = [error |-> "none", consumed |-> e, instr |-> instrs[k]]
    BY <2>5, <2>8, <2>9, <2>10, DecodeStart DEF code
  <2>12. NextInstruction(bytes, at[k - 1]) =
            [offset |-> p, error |-> "none", instr |-> instrs[k], next |-> p + e]
    BY <2>3, <2>11 DEF NextInstruction, Item, DecodeAt, rest
  <2> QED BY <2>2, <2>3, <2>6, <2>7, <2>12 DEF ItemAt
<1>6. ASSUME NEW k \in 1 .. n PROVE from[at[k - 1]] = <<ItemAt(at, instrs, k)>> \o from[at[k]]
  <2>1. ItemAt(at, instrs, k).next = at[k]
    BY DEF ItemAt
  <2> QED BY <1>2, <1>5, <2>1
<1>7. \A k \in 0 .. n : suffix(k) \in Seq(I) /\ Len(suffix(k)) = n - k
  <2> TAKE k \in 0 .. n
  <2>1. n - k \in Nat /\ \A i \in 1 .. n - k : k + i \in 1 .. n
    BY <1>1
  <2>2. suffix(k) \in [1 .. n - k -> I]
    BY <2>1
  <2> HIDE DEF suffix, I
  <2> QED BY <2>1, <2>2, SeqDef, LenProperties
<1>8. from[at[n]] = suffix(n)
  <2>1. n - n = 0 /\ n \in 0 .. n
    BY <1>1
  <2>2. Len(suffix(n)) = 0 /\ suffix(n) \in Seq(I)
    BY <1>7, <2>1
  <2> HIDE DEF suffix, I
  <2> QED BY <1>2, <1>4, <2>2, EmptySeq
<1>9. ASSUME NEW k \in 1 .. n, from[at[k]] = suffix(k) PROVE from[at[k - 1]] = suffix(k - 1)
  <2> DEFINE x == ItemAt(at, instrs, k)
             s == suffix(k)
             t == suffix(k - 1)
  <2>1. k \in 0 .. n /\ k - 1 \in 0 .. n /\ n - (k - 1) = 1 + (n - k) /\ n - k \in Nat
        /\ (k - 1) + 1 = k
        /\ \A i \in 1 .. n - k : /\ 1 + i \in 1 .. n - (k - 1)
                                 /\ (k - 1) + (1 + i) = k + i
        /\ 1 \in 1 .. n - (k - 1)
    BY <1>1
  <2>2. s \in Seq(I) /\ t \in Seq(I) /\ n - k = Len(s) /\ Len(t) = 1 + (n - k)
    <3> HIDE DEF suffix
    <3> QED BY <1>7, <2>1
  <2>3. t[1] = x
    BY <2>1
  <2>4. \A i \in 1 .. n - k : t[1 + i] = s[i]
    BY <2>1
  <2>5. x \in I
    OBVIOUS
  <2>6. from[at[k - 1]] = <<x>> \o s
    <3> HIDE DEF suffix
    <3> QED BY <1>6, <1>9
  <2> HIDE DEF x, s, t, I
  <2>7. <<x>> \o s = t
    <3> DEFINE l == n - k
    <3>1. l \in Nat /\ l = Len(s) /\ Len(t) = 1 + l /\ \A i \in 1 .. l : t[1 + i] = s[i]
      BY <2>1, <2>2, <2>4
    <3> HIDE DEF l
    <3> QED BY <2>2, <2>3, <2>5, <3>1, Prepended
  <2> QED BY <2>6, <2>7 DEF t
<1>10. from[at[0]] = suffix(0)
  <2> DEFINE V == {TRUE}
             chain == [j \in 0 .. n |-> from[at[n - j]] = suffix(n - j)]
  <2> HIDE DEF suffix
  <2>1. chain[0] \in V
    <3>1. n - 0 = n /\ 0 \in 0 .. n
      BY <1>1
    <3> QED BY <1>8, <3>1
  <2>2. ASSUME NEW j \in 1 .. n, chain[j - 1] \in V PROVE chain[j] \in V
    <3> DEFINE k == n - (j - 1)
    <3>1. k \in 1 .. n /\ k - 1 = n - j /\ j \in 0 .. n /\ j - 1 \in 0 .. n
      BY <1>1
    <3>2. from[at[k]] = suffix(k)
      BY <2>2, <3>1
    <3> HIDE DEF k
    <3>3. from[at[k - 1]] = suffix(k - 1)
      BY <1>9, <3>1, <3>2
    <3> QED BY <3>1, <3>3
  <2>3. \A j \in 0 .. n : chain[j] \in V
    <3> HIDE DEF chain, V
    <3> QED BY <1>1, <2>1, <2>2, ChainStays
  <2>4. n \in 0 .. n /\ n - n = 0
    BY <1>1
  <2> QED BY <2>3, <2>4
<1>11. suffix(0) = [k \in 1 .. n |-> ItemAt(at, instrs, k)]
  <2>1. n - 0 = n /\ \A i \in 1 .. n : 0 + i = i
    BY <1>1
  <2>2. suffix(0) = [i \in 1 .. n |-> ItemAt(at, instrs, 0 + i)]
    BY <2>1
  <2>3. \A i \in 1 .. n : ItemAt(at, instrs, 0 + i) = ItemAt(at, instrs, i)
    BY <2>1
  <2> QED BY <2>2, <2>3
<1> QED BY <1>2, <1>4, <1>10, <1>11 DEF n

--------------------------------------------------------------------------
(* What the builder keeps.                                                 *)

JumpOps == {"Jump", "JumpIf"}
CallSet == {LabelItem(l) : l \in 0 .. MaxLabels}
              \cup {JumpItem(op, l) : op \in JumpOps, l \in 0 .. MaxLabels}
              \cup {ConstItem(val) : val \in Constants}
              \cup {CodeItem(instr) : instr \in Emitted}

\* The instruction a call writes.
Placeholder(op) == Instr(WideForm(op), <<WideLabels - 1>>)
Written(item) ==
    CASE item.kind = "label" -> Instr("TARGET", <<>>)
      [] item.kind = "jump"  -> Placeholder(item.op)
      [] item.kind = "push"  -> MinimalPush(item.val)
      [] item.kind = "code"  -> item.instr
WrittenBy(s) == [k \in DOMAIN s.calls |-> Written(s.calls[k])]

\* A client emits only what there is an instruction for.
EmitsInstructions == \A instr \in Emitted : IsWritable(instr)

LEMMA CallFields ==
    /\ \A l : LabelItem(l).kind = "label" /\ LabelItem(l).label = l
    /\ \A op, l : JumpItem(op, l).kind = "jump" /\ JumpItem(op, l).op = op
                  /\ JumpItem(op, l).label = l
    /\ \A val : ConstItem(val).kind = "push" /\ ConstItem(val).val = val
    /\ \A instr : CodeItem(instr).kind = "code" /\ CodeItem(instr).instr = instr
BY DEF LabelItem, JumpItem, ConstItem, CodeItem

LEMMA WrittenOf ==
    /\ \A l : Written(LabelItem(l)) = Instr("TARGET", <<>>)
    /\ \A op, l : Written(JumpItem(op, l)) = Placeholder(op)
    /\ \A val : Written(ConstItem(val)) = MinimalPush(val)
    /\ \A instr : Written(CodeItem(instr)) = instr
<1>1. \A l : Written(LabelItem(l)) = Instr("TARGET", <<>>)
  <2> TAKE l
  <2>1. LabelItem(l).kind = "label"
    BY CallFields
  <2> QED BY <2>1 DEF Written
<1>2. \A op, l : Written(JumpItem(op, l)) = Placeholder(op)
  <2> TAKE op, l
  <2>1. JumpItem(op, l).kind = "jump" /\ JumpItem(op, l).op = op
    BY CallFields
  <2>2. Written(JumpItem(op, l)) = Placeholder(JumpItem(op, l).op)
    BY <2>1 DEF Written
  <2> QED BY <2>1, <2>2
<1>3. \A val : Written(ConstItem(val)) = MinimalPush(val)
  <2> TAKE val
  <2>1. ConstItem(val).kind = "push" /\ ConstItem(val).val = val
    BY CallFields
  <2>2. Written(ConstItem(val)) = MinimalPush(ConstItem(val).val)
    BY <2>1 DEF Written
  <2> QED BY <2>1, <2>2
<1>4. \A instr : Written(CodeItem(instr)) = instr
  <2> TAKE instr
  <2>1. CodeItem(instr).kind = "code" /\ CodeItem(instr).instr = instr
    BY CallFields
  <2>2. Written(CodeItem(instr)) = CodeItem(instr).instr
    BY <2>1 DEF Written
  <2> QED BY <2>1, <2>2
<1> QED BY <1>1, <1>2, <1>3, <1>4

\* The rows of the instructions the builder writes itself.
LEMMA RowsOfBuilder ==
    /\ [code |-> 0, op |-> "TARGET", fields |-> <<>>] \in Table
    /\ [code |-> 1, op |-> "JUMP1", fields |-> <<NarrowField>>] \in Table
    /\ [code |-> 2, op |-> "JUMPI1", fields |-> <<NarrowField>>] \in Table
    /\ [code |-> 3, op |-> "JUMP2", fields |-> <<WideField>>] \in Table
    /\ [code |-> 4, op |-> "JUMPI2", fields |-> <<WideField>>] \in Table
    /\ \A n \in 1 .. WordBytes : PushRow(n) \in Table
<1> DEFINE t == <<0, "TARGET">>
           u == <<1, "JUMP1">>
           v == <<2, "JUMPI1">>
           w == <<3, "JUMP2">>
           x == <<4, "JUMPI2">>
<1>1. t \in Plain /\ u \in NarrowJumps /\ v \in NarrowJumps
      /\ w \in WideJumps /\ x \in WideJumps
  BY DEF Plain, NarrowJumps, WideJumps
<1>2. /\ t[1] = 0 /\ t[2] = "TARGET" /\ u[1] = 1 /\ u[2] = "JUMP1"
      /\ v[1] = 2 /\ v[2] = "JUMPI1" /\ w[1] = 3 /\ w[2] = "JUMP2"
      /\ x[1] = 4 /\ x[2] = "JUMPI2"
  OBVIOUS
<1> HIDE DEF t, u, v, w, x
<1>3. /\ t \in Pairs /\ u \in Pairs /\ v \in Pairs /\ w \in Pairs /\ x \in Pairs
      /\ FieldsOf(t) = <<>> /\ FieldsOf(u) = <<NarrowField>>
      /\ FieldsOf(v) = <<NarrowField>> /\ FieldsOf(w) = <<WideField>>
      /\ FieldsOf(x) = <<WideField>>
  BY <1>1, RowsDisjoint DEF Pairs
<1>4. /\ RowOf(t) = [code |-> 0, op |-> "TARGET", fields |-> <<>>]
      /\ RowOf(u) = [code |-> 1, op |-> "JUMP1", fields |-> <<NarrowField>>]
      /\ RowOf(v) = [code |-> 2, op |-> "JUMPI1", fields |-> <<NarrowField>>]
      /\ RowOf(w) = [code |-> 3, op |-> "JUMP2", fields |-> <<WideField>>]
      /\ RowOf(x) = [code |-> 4, op |-> "JUMPI2", fields |-> <<WideField>>]
  BY <1>2, <1>3 DEF RowOf
<1>5. /\ RowOf(t) \in Table /\ RowOf(u) \in Table /\ RowOf(v) \in Table
      /\ RowOf(w) \in Table /\ RowOf(x) \in Table
  BY <1>3, Rows
<1>6. \A n \in 1 .. WordBytes : PushRow(n) \in Table
  BY Rows
<1> QED BY <1>4, <1>5, <1>6

LEMMA OneOperand ==
    ASSUME NEW row \in Table, NEW field, row.fields = <<field>>,
           NEW v \in OperandsOf(field)
    PROVE  RowHolds(row, Instr(row.op, <<v>>))
<1> DEFINE args == <<v>>
<1>1. Instr(row.op, args).args = args
  BY DEF Instr
<1>2. DOMAIN row.fields = {1} /\ row.fields[1] = field
  <2>1. DOMAIN <<field>> = 1 .. 1 /\ <<field>>[1] = field
    OBVIOUS
  <2> QED BY <2>1
<1>3. args[1] = v /\ args = [k \in {1} |-> args[k]]
  <2>1. DOMAIN args = {1}
    OBVIOUS
  <2> QED BY <2>1
<1> HIDE DEF args
<1> QED BY <1>1, <1>2, <1>3 DEF RowHolds, args

LEMMA PlaceholderWritable ==
    /\ \A op \in JumpOps, v \in Int : IsWritable(Instr(WideForm(op), <<v>>))
    /\ \A op \in JumpOps, v \in Int : IsWritable(Instr(NarrowForm(op), <<v>>))
<1>1. \A v \in Int : v \in OperandsOf(WideField) /\ v \in OperandsOf(NarrowField)
  BY DEF OperandsOf, WideField, NarrowField
<1>2. ASSUME NEW op \in JumpOps, NEW v \in Int
      PROVE  IsWritable(Instr(WideForm(op), <<v>>))
  <2>1. PICK row \in Table : row.op = WideForm(op) /\ row.fields = <<WideField>>
    BY RowsOfBuilder DEF JumpOps, WideForm
  <2>2. RowHolds(row, Instr(row.op, <<v>>))
    BY <1>1, <2>1, OneOperand
  <2> QED BY <2>1, <2>2 DEF IsWritable
<1>3. ASSUME NEW op \in JumpOps, NEW v \in Int
      PROVE  IsWritable(Instr(NarrowForm(op), <<v>>))
  <2>1. PICK row \in Table : row.op = NarrowForm(op) /\ row.fields = <<NarrowField>>
    BY RowsOfBuilder DEF JumpOps, NarrowForm
  <2>2. RowHolds(row, Instr(row.op, <<v>>))
    BY <1>1, <2>1, OneOperand
  <2> QED BY <2>1, <2>2 DEF IsWritable
<1> QED BY <1>2, <1>3

LEMMA TargetWritable == IsWritable(Instr("TARGET", <<>>))
<1> DEFINE row == [code |-> 0, op |-> "TARGET", fields |-> <<>>]
<1>1. row \in Table /\ row.op = "TARGET" /\ DOMAIN row.fields = {}
  <2>1. DOMAIN <<>> = {}
    OBVIOUS
  <2>2. row.fields = <<>>
    OBVIOUS
  <2> QED BY <2>1, <2>2, RowsOfBuilder
<1> DEFINE instr == Instr("TARGET", <<>>)
<1>2. instr.args = <<>> /\ <<>> = [k \in {} |-> instr.args[k]]
  BY DEF Instr
<1>3. instr = Instr(row.op, instr.args)
  BY <1>1, <1>2
<1> HIDE DEF row
<1>4. RowHolds(row, instr)
  BY <1>1, <1>2, <1>3 DEF RowHolds
<1> QED BY <1>1, <1>4 DEF IsWritable

LEMMA PushWritable ==
    ASSUME NEW val \in Constants
    PROVE  \E n \in 1 .. WordBytes :
              /\ MinimalPush(val) = Instr(PushName[n], <<LowBytes(val, n)>>)
              /\ n = WordBytes \/ SignExtend(LowBytes(val, n)) = val
              /\ LowBytes(val, n) \in OperandsOf(BytesField(n))
              /\ IsWritable(MinimalPush(val))
<1> DEFINE keeps(m) == SignExtend(LowBytes(val, m)) = val
           fits(m) == m = WordBytes \/ keeps(m)
           n == CHOOSE m \in 1 .. WordBytes :
                   fits(m) /\ \A k \in 1 .. m - 1 : ~keeps(k)
<1>1. MinimalPush(val) = Instr(PushName[n], <<LowBytes(val, n)>>)
  BY DEF MinimalPush
<1> HIDE DEF keeps
<1>2. \E m \in 1 .. WordBytes : fits(m) /\ \A k \in 1 .. m - 1 : ~keeps(k)
  <2> DEFINE s == {m \in 1 .. WordBytes : fits(m)}
  <2>1. s \in SUBSET Nat /\ WordBytes \in s
    BY CodecAssumption
  <2>2. PICK m \in s : \A k \in s : m <= k
    <3> HIDE DEF s
    <3> QED BY <2>1, LeastOfSome
  <2>3. ASSUME NEW k \in 1 .. m - 1 PROVE ~keeps(k)
    <3>1. k \in 1 .. WordBytes /\ ~(m <= k)
      BY <2>2, CodecAssumption
    <3> QED BY <2>2, <3>1
  <2> QED BY <2>2, <2>3
<1>3. n \in 1 .. WordBytes /\ fits(n)
  BY <1>2
<1> HIDE DEF n
<1>4. LowBytes(val, n) \in OperandsOf(BytesField(n))
  <2>1. \A i \in 1 .. n : n - i \in Nat
    BY <1>3
  <2>2. LowBytes(val, n) \in [1 .. n -> Values]
    BY <2>1 DEF LowBytes, Values
  <2>3. n \in Nat
    BY <1>3
  <2>4. LowBytes(val, n) \in Seq(Values) /\ Len(LowBytes(val, n)) = n
    BY <2>2, <2>3, SeqDef, LenProperties
  <2> QED BY <2>4 DEF OperandsOf, BytesField
<1>5. IsWritable(MinimalPush(val))
  <2>1. PushRow(n) \in Table /\ PushRow(n).op = PushName[n]
        /\ PushRow(n).fields = <<BytesField(n)>>
    BY <1>3, RowsOfBuilder DEF PushRow
  <2>2. RowHolds(PushRow(n), Instr(PushName[n], <<LowBytes(val, n)>>))
    BY <1>4, <2>1, OneOperand
  <2> QED BY <1>1, <2>1, <2>2 DEF IsWritable
<1> QED BY <1>1, <1>3, <1>4, <1>5 DEF keeps

--------------------------------------------------------------------------
(* The invariant: the buffer spells what the calls wrote, a label is at     *)
(* the TARGET of the call that placed it, and the fixups are the jumps, in  *)
(* the order of the calls.                                                  *)

FixupSet == [site : Nat, kind : JumpOps, label : 0 .. MaxLabels]
BuilderSet ==
    [buf : Seq(Values), label_positions : Seq(Nat \cup {Unplaced}),
     fixups : Seq(FixupSet), calls : Seq(CallSet)]

IsLabelCall(s, k) == s.calls[k].kind = "label"
IsJumpCall(s, k) == s.calls[k].kind = "jump"

LabelsKept(s, at) ==
    /\ \A l \in 0 .. Len(s.label_positions) - 1 :
          PlaceOf(s, l) # Unplaced =>
             \E k \in 1 .. Len(s.calls) :
                s.calls[k] = LabelItem(l) /\ PlaceOf(s, l) = at[k - 1]
    /\ \A k \in 1 .. Len(s.calls) :
          IsLabelCall(s, k) =>
             /\ s.calls[k].label \in 0 .. Len(s.label_positions) - 1
             /\ s.calls[k] = LabelItem(s.calls[k].label)
             /\ PlaceOf(s, s.calls[k].label) = at[k - 1]

FixupOf(call, site) == [site |-> site, kind |-> call.op, label |-> call.label]
JumpsKept(s, at, call) ==
    /\ call \in [1 .. Len(s.fixups) -> 1 .. Len(s.calls)]
    /\ \A j \in 1 .. Len(s.fixups) :
          /\ IsJumpCall(s, call[j])
          /\ s.fixups[j] = FixupOf(s.calls[call[j]], at[call[j] - 1])
          /\ \A i \in 1 .. j - 1 : call[i] < call[j]
    /\ \A k \in 1 .. Len(s.calls) :
          IsJumpCall(s, k) => \E j \in 1 .. Len(s.fixups) : call[j] = k

Kept(s, at, call) ==
    /\ Spells(s.buf, at, WrittenBy(s))
    /\ LabelsKept(s, at)
    /\ JumpsKept(s, at, call)
BuilderInv == b \in BuilderSet /\ \E at, call : Kept(b, at, call)

LEMMA WrittenSeq ==
    ASSUME NEW s \in BuilderSet
    PROVE  /\ WrittenBy(s) \in Seq({Written(s.calls[k]) : k \in 1 .. Len(s.calls)})
           /\ Len(WrittenBy(s)) = Len(s.calls) /\ Len(s.calls) \in Nat
           /\ DOMAIN s.calls = 1 .. Len(s.calls)
           /\ \A k \in 1 .. Len(s.calls) : WrittenBy(s)[k] = Written(s.calls[k])
<1> DEFINE n == Len(s.calls)
           W == {Written(s.calls[k]) : k \in 1 .. n}
<1>1. s.calls \in Seq(CallSet)
  BY DEF BuilderSet
<1>2. n \in Nat /\ DOMAIN s.calls = 1 .. n
  BY <1>1, LenProperties
<1>3. WrittenBy(s) \in [1 .. n -> W]
  <2> HIDE DEF n
  <2> QED BY <1>2 DEF WrittenBy
<1>4. \A k \in 1 .. n : WrittenBy(s)[k] = Written(s.calls[k])
  <2> HIDE DEF n
  <2> QED BY <1>2 DEF WrittenBy
<1>5. WrittenBy(s) \in Seq(W) /\ Len(WrittenBy(s)) = n
  <2> HIDE DEF W, n
  <2> QED BY <1>2, <1>3, SeqDef, LenProperties
<1> QED BY <1>2, <1>4, <1>5

\* Where the next instruction goes.
Beyond(at, n, instr) ==
    [k \in 0 .. n + 1 |-> IF k = n + 1 THEN at[n] + Len(Encode(instr)) ELSE at[k]]

LEMMA SpellsOneMore ==
    ASSUME NEW bytes, NEW at, NEW S, NEW instrs \in Seq(S), Spells(bytes, at, instrs),
           NEW instr, IsWritable(instr), NEW n \in Nat, n = Len(instrs)
    PROVE  Spells(bytes \o Encode(instr), Beyond(at, n, instr), Append(instrs, instr))
<1> DEFINE code == Encode(instr)
           up == Beyond(at, n, instr)
           more == Append(instrs, instr)
           longer == bytes \o code
<1>1. code \in Seq(Values) /\ Len(code) \in Nat
  BY EncodedLength
<1>2. /\ bytes \in Seq(Values) /\ at \in [0 .. n -> Nat] /\ at[0] = 0 /\ at[n] = Len(bytes)
      /\ \A k \in 1 .. n :
          /\ IsWritable(instrs[k])
          /\ at[k] = at[k - 1] + Len(Encode(instrs[k]))
          /\ \A i \in 1 .. Len(Encode(instrs[k])) :
                bytes[at[k - 1] + i] = Encode(instrs[k])[i]
  BY DEF Spells
<1>3. PICK e \in Nat : e = Len(code)
  BY <1>1
<1>4. PICK z \in Nat : z = Len(bytes)
  BY <1>2, LenProperties
<1>5. /\ Len(more) = n + 1 /\ more[n + 1] = instr
      /\ \A k \in 1 .. n : more[k] = instrs[k]
  BY AppendProperties
<1> HIDE DEF code, more
<1>6. /\ longer \in Seq(Values) /\ Len(longer) = z + e
      /\ \A i \in 1 .. z : longer[i] = bytes[i]
      /\ \A i \in 1 .. e : longer[z + i] = code[i]
  BY <1>1, <1>2, <1>3, <1>4, ConcatPlaces
<1> HIDE DEF longer
<1>7. /\ n + 1 \in 0 .. n + 1
      /\ \A k \in 0 .. n : k \in 0 .. n + 1 /\ k # n + 1
  OBVIOUS
<1>8. up[n + 1] = z + e /\ \A k \in 0 .. n : up[k] = at[k]
  BY <1>2, <1>3, <1>4, <1>7 DEF Beyond, code
<1>9. up \in [0 .. n + 1 -> Nat]
  <2>1. \A k \in 0 .. n + 1 : k = n + 1 \/ k \in 0 .. n
    OBVIOUS
  <2>4. up[n + 1] \in Nat /\ \A k \in 0 .. n : up[k] \in Nat
    <3> HIDE DEF up
    <3>1. z + e \in Nat
      OBVIOUS
    <3>2. \A k \in 0 .. n : at[k] \in Nat
      BY <1>2
    <3> QED BY <1>8, <3>1, <3>2
  <2>2. \A k \in 0 .. n + 1 : up[k] \in Nat
    <3> HIDE DEF up
    <3> QED BY <2>1, <2>4
  <2>3. up = [k \in 0 .. n + 1 |-> up[k]]
    BY DEF Beyond
  <2> HIDE DEF up
  <2> QED BY <2>2, <2>3
<1> HIDE DEF up
<1>10. ASSUME NEW k \in 1 .. n + 1
       PROVE  /\ IsWritable(more[k])
              /\ up[k] = up[k - 1] + Len(Encode(more[k]))
              /\ \A i \in 1 .. Len(Encode(more[k])) :
                    longer[up[k - 1] + i] = Encode(more[k])[i]
  <2>1. CASE k = n + 1
    <3>1. k - 1 = n /\ n \in 0 .. n
      BY <2>1
    <3>2. up[k - 1] = z /\ up[k] = z + e /\ more[k] = instr
      BY <1>2, <1>4, <1>5, <1>8, <2>1, <3>1
    <3> QED BY <1>3, <1>6, <3>2 DEF code
  <2>2. CASE k # n + 1
    <3>1. k \in 1 .. n /\ k \in 0 .. n /\ k - 1 \in 0 .. n
      BY <2>2
    <3>2. up[k] = at[k] /\ up[k - 1] = at[k - 1] /\ more[k] = instrs[k]
      BY <1>5, <1>8, <3>1
    <3>3. PICK c \in Nat : c = Len(Encode(instrs[k]))
      BY <1>2, <3>1, EncodedLength
    <3>4. PICK a \in Nat : a = at[k - 1]
      BY <1>2, <3>1
    <3>5. at[k] = a + c /\ at[k] \in 0 .. z
      BY <1>2, <1>4, <3>1, <3>3, <3>4, SpelledPlaces
    <3>6. \A i \in 1 .. c : a + i \in 1 .. z
      BY <3>5
    <3>7. \A i \in 1 .. c : longer[a + i] = Encode(instrs[k])[i]
      BY <1>2, <1>6, <3>1, <3>3, <3>4, <3>6
    <3> QED BY <1>2, <3>1, <3>2, <3>3, <3>4, <3>7
  <2> QED BY <2>1, <2>2
<1>11. up[0] = 0 /\ up[n + 1] = Len(longer)
  BY <1>2, <1>6, <1>8
<1>12. Spells(longer, up, more)
  BY <1>5, <1>6, <1>9, <1>10, <1>11 DEF Spells
<1> QED BY <1>12 DEF longer, up, more, code

\* A call was recorded after the others.
Grown(s, t, at, up, n, item) ==
    /\ Len(s.calls) = n /\ Len(t.calls) = n + 1 /\ t.calls[n + 1] = item
    /\ \A k \in 1 .. n : t.calls[k] = s.calls[k]
    /\ \A k \in 0 .. n : up[k] = at[k]
Recorded(s, t, at, up, n, item) ==
    /\ t \in BuilderSet /\ Spells(t.buf, up, WrittenBy(t))
    /\ Grown(s, t, at, up, n, item)
    /\ at[n] = Len(s.buf) /\ at[n] \in Nat
    /\ t.label_positions = s.label_positions /\ t.fixups = s.fixups

LEMMA WritesKept ==
    ASSUME NEW s \in BuilderSet, NEW at, Spells(s.buf, at, WrittenBy(s)),
           NEW instr, IsWritable(instr), NEW item \in CallSet, Written(item) = instr,
           NEW n \in Nat, n = Len(s.calls)
    PROVE  Recorded(s, Writes(s, instr, item), at, Beyond(at, n, instr), n, item)
<1> DEFINE t == Writes(s, instr, item)
           up == Beyond(at, n, instr)
<1>1. /\ s.buf \in Seq(Values) /\ s.calls \in Seq(CallSet)
      /\ s.label_positions \in Seq(Nat \cup {Unplaced}) /\ s.fixups \in Seq(FixupSet)
  BY DEF BuilderSet
<1>2. /\ t.buf = s.buf \o Encode(instr) /\ t.calls = Append(s.calls, item)
      /\ t.label_positions = s.label_positions /\ t.fixups = s.fixups
  BY DEF Writes, BuilderSet
<1>3. Encode(instr) \in Seq(Values)
  BY EncodedLength
<1>4. t \in BuilderSet
  <2>1. s.buf \o Encode(instr) \in Seq(Values) /\ Append(s.calls, item) \in Seq(CallSet)
    BY <1>1, <1>3, ConcatProperties, AppendProperties
  <2> QED BY <1>1, <2>1 DEF Writes, BuilderSet
<1>5. /\ Len(t.calls) = n + 1 /\ t.calls[n + 1] = item
      /\ \A k \in 1 .. n : t.calls[k] = s.calls[k]
  BY <1>1, <1>2, AppendProperties
<1> HIDE DEF t
<1>6. WrittenBy(t) = Append(WrittenBy(s), instr)
  <2> DEFINE W == {Written(t.calls[k]) : k \in 1 .. n + 1}
  <2>1. WrittenBy(s) \in Seq(W) /\ Len(WrittenBy(s)) = n
    <3>1. WrittenBy(s) \in Seq({Written(s.calls[k]) : k \in 1 .. n})
          /\ Len(WrittenBy(s)) = n
      BY WrittenSeq
    <3>2. \A k \in 1 .. n : k \in 1 .. n + 1
      OBVIOUS
    <3>3. {Written(s.calls[k]) : k \in 1 .. n} \subseteq W
      BY <1>5, <3>2
    <3> HIDE DEF W
    <3>4. \A k \in 1 .. n : WrittenBy(s)[k] \in W
      BY <3>1, <3>3, ElementOfSeq
    <3>5. WrittenBy(s) \in [1 .. n -> W]
      BY <3>1, <3>4, LenProperties
    <3>6. WrittenBy(s) \in Seq(W)
      BY <3>5, SeqDef
    <3> QED BY <3>1, <3>6
  <2>2. WrittenBy(t) \in Seq(W) /\ Len(WrittenBy(t)) = n + 1
        /\ \A k \in 1 .. n + 1 : WrittenBy(t)[k] = Written(t.calls[k])
    BY <1>4, <1>5, WrittenSeq
  <2>3. \A k \in 1 .. n : WrittenBy(s)[k] = Written(s.calls[k])
    BY WrittenSeq
  <2>4. instr \in W
    <3>1. n + 1 \in 1 .. n + 1
      OBVIOUS
    <3> QED BY <1>5, <3>1
  <2> DEFINE x == Append(WrittenBy(s), instr)
  <2> HIDE DEF W
  <2>5. /\ x \in Seq(W) /\ Len(x) = n + 1 /\ x[n + 1] = instr
        /\ \A k \in 1 .. n : x[k] = WrittenBy(s)[k]
    BY <2>1, <2>4, AppendProperties
  <2> HIDE DEF x
  <2>6. \A k \in 1 .. n + 1 : WrittenBy(t)[k] = x[k]
    <3> TAKE k \in 1 .. n + 1
    <3>1. CASE k = n + 1
      BY <1>5, <2>2, <2>5, <3>1
    <3>2. CASE k # n + 1
      <4>1. k \in 1 .. n
        BY <3>2
      <4> QED BY <1>5, <2>2, <2>3, <2>5, <4>1
    <3> QED BY <3>1, <3>2
  <2>7. WrittenBy(t) = x
    BY <2>2, <2>5, <2>6, SeqEqual
  <2> QED BY <2>7 DEF x
<1>7. Spells(t.buf, up, WrittenBy(t))
  <2>1. PICK S : WrittenBy(s) \in Seq(S)
    BY WrittenSeq
  <2>2. n = Len(WrittenBy(s))
    BY WrittenSeq
  <2>3. Spells(s.buf \o Encode(instr), up, Append(WrittenBy(s), instr))
    BY <2>1, <2>2, SpellsOneMore
  <2> QED BY <1>2, <1>6, <2>3
<1>8. \A k \in 0 .. n : up[k] = at[k]
  <2>1. \A k \in 0 .. n : k \in 0 .. n + 1 /\ k # n + 1
    OBVIOUS
  <2> QED BY <2>1 DEF Beyond
<1>9. at[n] = Len(s.buf) /\ at[n] \in Nat
  <2>1. n = Len(WrittenBy(s))
    BY WrittenSeq
  <2>2. n \in 0 .. n
    OBVIOUS
  <2> QED BY <2>1, <2>2 DEF Spells
<1> HIDE DEF up
<1>10. Recorded(s, t, at, up, n, item)
  BY <1>2, <1>4, <1>5, <1>7, <1>8, <1>9 DEF Recorded, Grown
<1> QED BY <1>10 DEF t, up

LEMMA LabelsStay ==
    ASSUME NEW s \in BuilderSet, NEW t, NEW at, NEW up, NEW n \in Nat, NEW item,
           Grown(s, t, at, up, n, item), item.kind # "label",
           t.label_positions = s.label_positions, LabelsKept(s, at)
    PROVE  LabelsKept(t, up)
<1>1. \A k \in 1 .. n : /\ t.calls[k] = s.calls[k] /\ up[k - 1] = at[k - 1]
                        /\ k \in 1 .. n + 1
  <2>1. \A k \in 1 .. n : k - 1 \in 0 .. n /\ k \in 1 .. n + 1
    OBVIOUS
  <2> QED BY <2>1 DEF Grown
<1>2. \A l : PlaceOf(t, l) = PlaceOf(s, l)
  BY DEF PlaceOf, IsLabel
<1>3. ASSUME NEW l \in 0 .. Len(t.label_positions) - 1, PlaceOf(t, l) # Unplaced
      PROVE  \E k \in 1 .. Len(t.calls) :
                t.calls[k] = LabelItem(l) /\ PlaceOf(t, l) = up[k - 1]
  <2>1. PICK k \in 1 .. n : s.calls[k] = LabelItem(l) /\ PlaceOf(s, l) = at[k - 1]
    BY <1>2, <1>3 DEF LabelsKept, Grown
  <2> QED BY <1>1, <1>2, <2>1 DEF Grown
<1>4. ASSUME NEW k \in 1 .. n + 1, IsLabelCall(t, k)
      PROVE  /\ t.calls[k].label \in 0 .. Len(t.label_positions) - 1
             /\ t.calls[k] = LabelItem(t.calls[k].label)
             /\ PlaceOf(t, t.calls[k].label) = up[k - 1]
  <2>1. k # n + 1
    BY <1>4 DEF IsLabelCall, Grown
  <2>2. k \in 1 .. n
    BY <2>1
  <2>3. IsLabelCall(s, k)
    BY <1>1, <1>4, <2>2 DEF IsLabelCall
  <2> QED BY <1>1, <1>2, <2>2, <2>3 DEF LabelsKept, Grown
<1> QED BY <1>3, <1>4 DEF LabelsKept, Grown

LEMMA JumpsStay ==
    ASSUME NEW s \in BuilderSet, NEW t, NEW at, NEW up, NEW n \in Nat, NEW item, NEW call,
           Grown(s, t, at, up, n, item), item.kind # "jump",
           t.fixups = s.fixups, JumpsKept(s, at, call)
    PROVE  JumpsKept(t, up, call)
<1>1. \A k \in 1 .. n : /\ t.calls[k] = s.calls[k] /\ up[k - 1] = at[k - 1]
                        /\ k \in 1 .. n + 1
  <2>1. \A k \in 1 .. n : k - 1 \in 0 .. n /\ k \in 1 .. n + 1
    OBVIOUS
  <2> QED BY <2>1 DEF Grown
<1> DEFINE m == Len(t.fixups)
<1>2. /\ call \in [1 .. m -> 1 .. n]
      /\ \A j \in 1 .. m :
          /\ IsJumpCall(s, call[j])
          /\ t.fixups[j] = FixupOf(s.calls[call[j]], at[call[j] - 1])
          /\ \A i \in 1 .. j - 1 : call[i] < call[j]
      /\ \A k \in 1 .. n : IsJumpCall(s, k) => \E j \in 1 .. m : call[j] = k
  BY DEF JumpsKept, Grown
<1> HIDE DEF m
<1>3. call \in [1 .. m -> 1 .. n + 1]
  BY <1>1, <1>2
<1>4. ASSUME NEW j \in 1 .. m
      PROVE  /\ IsJumpCall(t, call[j])
             /\ t.fixups[j] = FixupOf(t.calls[call[j]], up[call[j] - 1])
  <2>1. call[j] \in 1 .. n
    BY <1>2
  <2> QED BY <1>1, <1>2, <2>1 DEF IsJumpCall
<1>5. ASSUME NEW k \in 1 .. n + 1, IsJumpCall(t, k) PROVE \E j \in 1 .. m : call[j] = k
  <2>1. k # n + 1
    BY <1>5 DEF IsJumpCall, Grown
  <2>2. k \in 1 .. n
    BY <2>1
  <2>3. IsJumpCall(s, k)
    BY <1>1, <1>5, <2>2 DEF IsJumpCall
  <2> QED BY <1>2, <2>2, <2>3
<1> QED BY <1>2, <1>3, <1>4, <1>5 DEF JumpsKept, Grown, m

LEMMA KeptInitially == BuilderInit => BuilderInv
<1> SUFFICES ASSUME BuilderInit PROVE BuilderInv
  OBVIOUS
<1> DEFINE at == [k \in 0 .. 0 |-> 0]
           call == [j \in 1 .. 0 |-> 0]
<1>1. b.buf = <<>> /\ b.label_positions = <<>> /\ b.fixups = <<>> /\ b.calls = <<>>
      /\ b = [buf |-> <<>>, label_positions |-> <<>>, fixups |-> <<>>, calls |-> <<>>]
  BY DEF BuilderInit, NewBuilder
<1>2. b \in BuilderSet
  BY <1>1 DEF BuilderSet
<1>3. /\ Len(b.buf) = 0 /\ Len(b.calls) = 0 /\ Len(b.label_positions) = 0
      /\ Len(b.fixups) = 0
  BY <1>1
<1>4. Len(WrittenBy(b)) = 0
  BY <1>2, <1>3, WrittenSeq
<1>5. at \in [0 .. 0 -> Nat] /\ at[0] = 0
  OBVIOUS
<1>6. Spells(b.buf, at, WrittenBy(b))
  <2>1. b.buf \in Seq(Values)
    BY <1>1
  <2> HIDE DEF at
  <2> QED BY <1>3, <1>4, <1>5, <2>1 DEF Spells
<1>7. LabelsKept(b, at)
  BY <1>3 DEF LabelsKept
<1>8. JumpsKept(b, at, call)
  BY <1>3 DEF JumpsKept
<1> QED BY <1>2, <1>6, <1>7, <1>8 DEF BuilderInv, Kept

LEMMA LabelKeeps ==
    ASSUME NEW s \in BuilderSet, NEW at, NEW call, Kept(s, at, call)
    PROVE  WithLabel(s) \in BuilderSet /\ Kept(WithLabel(s), at, call)
<1> DEFINE t == WithLabel(s)
           m == Len(s.label_positions)
<1>1. /\ t.buf = s.buf /\ t.calls = s.calls /\ t.fixups = s.fixups
      /\ t.label_positions = Append(s.label_positions, Unplaced)
  BY DEF WithLabel, BuilderSet
<1>2. s.label_positions \in Seq(Nat \cup {Unplaced}) /\ m \in Nat
  BY LenProperties DEF BuilderSet
<1>3. /\ t.label_positions \in Seq(Nat \cup {Unplaced}) /\ Len(t.label_positions) = m + 1
      /\ t.label_positions[m + 1] = Unplaced
      /\ \A i \in 1 .. m : t.label_positions[i] = s.label_positions[i]
  BY <1>1, <1>2, AppendProperties
<1>4. t \in BuilderSet
  BY <1>1, <1>2, <1>3 DEF WithLabel, BuilderSet
<1> HIDE DEF t, m
<1>5. \A l \in 0 .. m - 1 : PlaceOf(t, l) = PlaceOf(s, l)
  <2> TAKE l \in 0 .. m - 1
  <2>1. l + 1 \in 1 .. m /\ l < m /\ l < m + 1
    BY <1>2
  <2> QED BY <1>3, <2>1 DEF PlaceOf, IsLabel, m
<1>6. PlaceOf(t, m) = Unplaced
  BY <1>2, <1>3 DEF PlaceOf, IsLabel
<1>7. LabelsKept(t, at)
  <2>1. ASSUME NEW l \in 0 .. m, PlaceOf(t, l) # Unplaced
        PROVE  \E k \in 1 .. Len(t.calls) :
                  t.calls[k] = LabelItem(l) /\ PlaceOf(t, l) = at[k - 1]
    <3>1. l \in 0 .. m - 1
      BY <1>2, <1>6, <2>1
    <3>2. PlaceOf(s, l) # Unplaced
      BY <1>5, <2>1, <3>1
    <3>3. PICK k \in 1 .. Len(s.calls) :
             s.calls[k] = LabelItem(l) /\ PlaceOf(s, l) = at[k - 1]
      BY <3>1, <3>2 DEF Kept, LabelsKept, m
    <3> QED BY <1>1, <1>5, <3>1, <3>3
  <2>2. ASSUME NEW k \in 1 .. Len(t.calls), IsLabelCall(t, k)
        PROVE  /\ t.calls[k].label \in 0 .. m
               /\ t.calls[k] = LabelItem(t.calls[k].label)
               /\ PlaceOf(t, t.calls[k].label) = at[k - 1]
    <3>1. /\ s.calls[k].label \in 0 .. m - 1
          /\ s.calls[k] = LabelItem(s.calls[k].label)
          /\ PlaceOf(s, s.calls[k].label) = at[k - 1]
      <4>1. k \in 1 .. Len(s.calls) /\ IsLabelCall(s, k) /\ LabelsKept(s, at)
        BY <1>1, <2>2 DEF Kept, IsLabelCall
      <4> QED BY <4>1 DEF LabelsKept, m
    <3>2. s.calls[k].label \in 0 .. m
      BY <1>2, <3>1
    <3> QED BY <1>1, <1>5, <3>1, <3>2
  <2>3. Len(t.label_positions) - 1 = m
    BY <1>2, <1>3
  <2> QED BY <2>1, <2>2, <2>3 DEF LabelsKept
<1>8. JumpsKept(t, at, call)
  BY <1>1 DEF Kept, JumpsKept, IsJumpCall
<1>9. WrittenBy(t) = WrittenBy(s)
  BY <1>1 DEF WrittenBy
<1>10. Kept(t, at, call)
  BY <1>1, <1>7, <1>8, <1>9 DEF Kept
<1> QED BY <1>4, <1>10 DEF t

\* emit, and push: neither a label nor a jump.
LEMMA CodeKeeps ==
    ASSUME NEW s \in BuilderSet, NEW at, NEW call, Kept(s, at, call),
           NEW instr, IsWritable(instr), NEW item \in CallSet, Written(item) = instr,
           item.kind # "label", item.kind # "jump"
    PROVE  \E up : Writes(s, instr, item) \in BuilderSet
                      /\ Kept(Writes(s, instr, item), up, call)
<1> DEFINE t == Writes(s, instr, item)
           up == Beyond(at, Len(s.calls), instr)
<1>1. PICK n \in Nat : n = Len(s.calls)
  BY WrittenSeq
<1>2. Spells(s.buf, at, WrittenBy(s)) /\ LabelsKept(s, at) /\ JumpsKept(s, at, call)
  BY DEF Kept
<1>3. /\ t \in BuilderSet /\ Spells(t.buf, up, WrittenBy(t))
      /\ Grown(s, t, at, up, n, item)
      /\ t.label_positions = s.label_positions /\ t.fixups = s.fixups
  <2>1. Recorded(s, t, at, Beyond(at, n, instr), n, item)
    BY <1>1, <1>2, WritesKept
  <2> QED BY <1>1, <2>1 DEF Recorded
<1> HIDE DEF t, up
<1>4. LabelsKept(t, up)
  BY <1>2, <1>3, LabelsStay
<1>5. JumpsKept(t, up, call)
  BY <1>2, <1>3, JumpsStay
<1>6. t \in BuilderSet /\ Kept(t, up, call)
  BY <1>3, <1>4, <1>5 DEF Kept
<1> QED BY <1>6 DEF t

LEMMA PlaceKeeps ==
    ASSUME NEW s \in BuilderSet, NEW at, NEW call, Kept(s, at, call),
           NEW l \in 0 .. MaxLabels, PlaceError(s, l) = "none"
    PROVE  \E up : PlaceIn(s, l) \in BuilderSet /\ Kept(PlaceIn(s, l), up, call)
<1> DEFINE instr == Instr("TARGET", <<>>)
           item == LabelItem(l)
           r == [s EXCEPT !.label_positions[l + 1] = Len(s.buf)]
           t == Writes(r, instr, item)
           up == Beyond(at, Len(s.calls), instr)
           m == Len(s.label_positions)
<1>1. PICK n \in Nat : n = Len(s.calls)
  BY WrittenSeq
<1>2. Spells(s.buf, at, WrittenBy(s)) /\ LabelsKept(s, at) /\ JumpsKept(s, at, call)
  BY DEF Kept
<1>3. l \in Nat /\ IsLabel(s, l) /\ PlaceOf(s, l) = Unplaced
  BY BuilderAssumption DEF PlaceError
<1>4. s.label_positions \in Seq(Nat \cup {Unplaced}) /\ m \in Nat /\ s.buf \in Seq(Values)
      /\ Len(s.buf) \in Nat
  BY LenProperties DEF BuilderSet
<1>5. l + 1 \in 1 .. m
  BY <1>3, <1>4 DEF IsLabel
<1>6. r = [s EXCEPT !.label_positions = [s.label_positions EXCEPT ![l + 1] = Len(s.buf)]]
  BY DEF BuilderSet
<1> DEFINE places == [s.label_positions EXCEPT ![l + 1] = Len(s.buf)]
<1>7. /\ places \in Seq(Nat \cup {Unplaced}) /\ Len(places) = m
      /\ places[l + 1] = Len(s.buf)
      /\ \A i \in 1 .. m : i # l + 1 => places[i] = s.label_positions[i]
  BY <1>4, <1>5, ExceptSeq
<1> HIDE DEF places
<1>8. /\ r.buf = s.buf /\ r.calls = s.calls /\ r.fixups = s.fixups
      /\ r.label_positions = places
  BY <1>6 DEF BuilderSet, places
<1>9. r \in BuilderSet
  BY <1>6, <1>7 DEF BuilderSet, places
<1> HIDE DEF r
<1>10. WrittenBy(r) = WrittenBy(s) /\ Written(item) = instr /\ item \in CallSet
  BY <1>8, WrittenOf DEF WrittenBy, CallSet
<1> HIDE DEF item, instr
<1>11. Recorded(r, t, at, up, n, item)
  <2>1. IsWritable(instr)
    BY TargetWritable DEF instr
  <2>3. /\ Spells(r.buf, at, WrittenBy(r)) /\ n = Len(r.calls)
        /\ Written(item) = instr /\ item \in CallSet
    BY <1>1, <1>2, <1>8, <1>10
  <2>2. Recorded(r, Writes(r, instr, item), at, Beyond(at, n, instr), n, item)
    BY <1>9, <2>1, <2>3, WritesKept
  <2> QED BY <1>1, <2>2
<1> HIDE DEF t, up, m
<1>12. /\ t \in BuilderSet /\ Spells(t.buf, up, WrittenBy(t)) /\ Grown(r, t, at, up, n, item)
       /\ at[n] = Len(s.buf) /\ t.label_positions = places /\ t.fixups = r.fixups
  BY <1>8, <1>11 DEF Recorded
<1>13. \A k \in 1 .. n : /\ t.calls[k] = s.calls[k] /\ up[k - 1] = at[k - 1]
                         /\ k \in 1 .. n + 1
  <2>1. \A k \in 1 .. n : k - 1 \in 0 .. n /\ k \in 1 .. n + 1
    OBVIOUS
  <2> QED BY <1>8, <1>12, <2>1 DEF Grown
<1>14. /\ Len(t.calls) = n + 1 /\ t.calls[n + 1] = item /\ up[n] = Len(s.buf)
       /\ (n + 1) - 1 = n /\ n + 1 \in 1 .. n + 1
  <2>1. n \in 0 .. n
    OBVIOUS
  <2> QED BY <1>12, <2>1 DEF Grown
<1>15. ASSUME NEW o \in 0 .. m - 1, o # l PROVE PlaceOf(t, o) = PlaceOf(s, o)
  <2>1. o + 1 \in 1 .. m /\ o + 1 # l + 1 /\ o < m
    BY <1>3, <1>4, <1>15 DEF m
  <2> QED BY <1>7, <1>12, <2>1 DEF PlaceOf, IsLabel, m
<1>16. PlaceOf(t, l) = Len(s.buf)
  BY <1>3, <1>7, <1>12 DEF PlaceOf, IsLabel, m
<1>17. item.kind = "label" /\ item.label = l /\ item.kind # "jump" /\ item = LabelItem(l)
  BY CallFields DEF item
<1>18. LabelsKept(t, up)
  <2>1. ASSUME NEW o \in 0 .. m - 1, PlaceOf(t, o) # Unplaced
        PROVE  \E k \in 1 .. n + 1 : t.calls[k] = LabelItem(o) /\ PlaceOf(t, o) = up[k - 1]
    <3>1. CASE o = l
      BY <1>14, <1>16, <1>17, <3>1
    <3>2. CASE o # l
      <4>1. PICK k \in 1 .. n : s.calls[k] = LabelItem(o) /\ PlaceOf(s, o) = at[k - 1]
        BY <1>1, <1>2, <1>15, <2>1, <3>2 DEF LabelsKept, m
      <4> QED BY <1>13, <1>15, <3>2, <4>1
    <3> QED BY <3>1, <3>2
  <2>2. ASSUME NEW k \in 1 .. n + 1, IsLabelCall(t, k)
        PROVE  /\ t.calls[k].label \in 0 .. m - 1
               /\ t.calls[k] = LabelItem(t.calls[k].label)
               /\ PlaceOf(t, t.calls[k].label) = up[k - 1]
    <3>1. CASE k = n + 1
      <4>1. l \in 0 .. m - 1
        BY <1>3, <1>4, <1>5 DEF m
      <4> QED BY <1>14, <1>16, <1>17, <3>1, <4>1
    <3>2. CASE k # n + 1
      <4>1. k \in 1 .. n
        BY <3>2
      <4>2. /\ s.calls[k].label \in 0 .. m - 1
            /\ s.calls[k] = LabelItem(s.calls[k].label)
            /\ PlaceOf(s, s.calls[k].label) = at[k - 1]
        <5>1. IsLabelCall(s, k)
          BY <1>13, <2>2, <4>1 DEF IsLabelCall
        <5> QED BY <1>1, <1>2, <4>1, <5>1 DEF LabelsKept, m
      <4>3. at[k - 1] # Unplaced
        <5>1. n = Len(WrittenBy(s))
          BY <1>1, WrittenSeq
        <5>2. k - 1 \in 0 .. n
          BY <4>1
        <5>3. at[k - 1] \in Nat
          BY <1>2, <5>1, <5>2 DEF Spells
        <5> QED BY <5>3 DEF Unplaced
      <4>4. s.calls[k].label # l
        BY <1>3, <4>2, <4>3
      <4> QED BY <1>13, <1>15, <4>1, <4>2, <4>4
    <3> QED BY <3>1, <3>2
  <2> QED BY <1>7, <1>12, <1>14, <2>1, <2>2 DEF LabelsKept
<1>19. JumpsKept(t, up, call)
  <2>1. JumpsKept(r, at, call)
    BY <1>2, <1>8 DEF JumpsKept, IsJumpCall
  <2> QED BY <1>9, <1>12, <1>17, <2>1, JumpsStay
<1>20. t = PlaceIn(s, l)
  BY DEF PlaceIn, t, r, instr, item
<1>21. t \in BuilderSet /\ Kept(t, up, call)
  BY <1>12, <1>18, <1>19 DEF Kept
<1> HIDE DEF t
<1> QED BY <1>20, <1>21

LEMMA JumpKeeps ==
    ASSUME NEW s \in BuilderSet, NEW at, NEW call, Kept(s, at, call),
           NEW op \in JumpOps, NEW l \in 0 .. MaxLabels
    PROVE  \E up, calls : EmitJumpTo(s, op, l) \in BuilderSet
                             /\ Kept(EmitJumpTo(s, op, l), up, calls)
<1> DEFINE instr == Placeholder(op)
           item == JumpItem(op, l)
           r == Writes(s, instr, item)
           f == [site |-> Len(s.buf), kind |-> op, label |-> l]
           t == [r EXCEPT !.fixups = Append(@, f)]
           up == Beyond(at, Len(s.calls), instr)
           m == Len(s.fixups)
<1>1. PICK n \in Nat : n = Len(s.calls)
  BY WrittenSeq
<1>2. Spells(s.buf, at, WrittenBy(s)) /\ LabelsKept(s, at) /\ JumpsKept(s, at, call)
  BY DEF Kept
<1>3. Written(item) = instr /\ item \in CallSet
  BY WrittenOf DEF CallSet
<1>4. item.kind = "jump" /\ item.op = op /\ item.label = l /\ item.kind # "label"
  BY CallFields
<1>5. t = EmitJumpTo(s, op, l)
  BY DEF EmitJumpTo, Placeholder
<1> HIDE DEF item
<1>6. IsWritable(instr)
  <2>1. WideLabels - 1 \in Int
    BY BuilderAssumption
  <2> QED BY <2>1, PlaceholderWritable DEF Placeholder
<1> HIDE DEF instr
<1>7. Recorded(s, r, at, up, n, item)
  <2>1. Recorded(s, r, at, Beyond(at, n, instr), n, item)
    BY <1>1, <1>2, <1>3, <1>6, WritesKept
  <2> QED BY <1>1, <2>1
<1> HIDE DEF r, up
<1>8. /\ r \in BuilderSet /\ Spells(r.buf, up, WrittenBy(r)) /\ Grown(s, r, at, up, n, item)
      /\ at[n] = Len(s.buf) /\ at[n] \in Nat /\ r.label_positions = s.label_positions
      /\ r.fixups = s.fixups
  BY <1>7 DEF Recorded
<1>9. f \in FixupSet
  BY <1>8 DEF FixupSet
<1>10. /\ t.buf = r.buf /\ t.calls = r.calls /\ t.label_positions = r.label_positions
       /\ t.fixups = Append(s.fixups, f)
  BY <1>8 DEF BuilderSet
<1>11. s.fixups \in Seq(FixupSet) /\ m \in Nat
  BY LenProperties DEF BuilderSet
<1>12. /\ t.fixups \in Seq(FixupSet) /\ Len(t.fixups) = m + 1 /\ t.fixups[m + 1] = f
       /\ \A j \in 1 .. m : t.fixups[j] = s.fixups[j]
  <2> HIDE DEF f, t
  <2> QED BY <1>9, <1>10, <1>11, AppendProperties
<1>13. t \in BuilderSet
  BY <1>8, <1>9, <1>11, AppendProperties DEF BuilderSet
<1> HIDE DEF t, m
<1>14. WrittenBy(t) = WrittenBy(r)
  BY <1>10 DEF WrittenBy
<1>15. Grown(s, t, at, up, n, item) /\ t.label_positions = s.label_positions
  BY <1>8, <1>10 DEF Grown
<1>16. LabelsKept(t, up)
  BY <1>2, <1>4, <1>15, LabelsStay
<1>17. \A k \in 1 .. n : /\ t.calls[k] = s.calls[k] /\ up[k - 1] = at[k - 1]
                         /\ k \in 1 .. n + 1
  <2>1. \A k \in 1 .. n : k - 1 \in 0 .. n /\ k \in 1 .. n + 1
    OBVIOUS
  <2> QED BY <1>15, <2>1 DEF Grown
<1>18. /\ Len(t.calls) = n + 1 /\ t.calls[n + 1] = item /\ up[n] = Len(s.buf)
       /\ (n + 1) - 1 = n /\ n + 1 \in 1 .. n + 1
  <2>1. n \in 0 .. n
    OBVIOUS
  <2> QED BY <1>8, <1>15, <2>1 DEF Grown
<1>19. /\ call \in [1 .. m -> 1 .. n]
       /\ \A j \in 1 .. m :
          /\ IsJumpCall(s, call[j])
          /\ s.fixups[j] = FixupOf(s.calls[call[j]], at[call[j] - 1])
          /\ \A i \in 1 .. j - 1 : call[i] < call[j]
       /\ \A k \in 1 .. n : IsJumpCall(s, k) => \E j \in 1 .. m : call[j] = k
  BY <1>1, <1>2 DEF JumpsKept, m
<1> DEFINE calls == [j \in 1 .. m + 1 |-> IF j = m + 1 THEN n + 1 ELSE call[j]]
<1>20. /\ m + 1 \in 1 .. m + 1 /\ calls[m + 1] = n + 1
       /\ \A j \in 1 .. m : j \in 1 .. m + 1 /\ calls[j] = call[j] /\ call[j] \in 1 .. n
  BY <1>11, <1>19 DEF m
<1>21. m \in Nat /\ \A j \in 1 .. m + 1 : j = m + 1 \/ (j \in 1 .. m /\ j # m + 1)
  <2>1. m \in Nat
    BY <1>11 DEF m
  <2> QED BY <2>1
<1>22. calls \in [1 .. m + 1 -> 1 .. n + 1]
  <2>1. \A j \in 1 .. m + 1 : calls[j] \in 1 .. n + 1
    <3> HIDE DEF calls
    <3> QED BY <1>17, <1>18, <1>20, <1>21
  <2> QED BY <2>1
<1> HIDE DEF calls
<1>23. ASSUME NEW j \in 1 .. m + 1
       PROVE  /\ IsJumpCall(t, calls[j])
              /\ t.fixups[j] = FixupOf(t.calls[calls[j]], up[calls[j] - 1])
              /\ \A i \in 1 .. j - 1 : calls[i] < calls[j]
  <2>1. CASE j = m + 1
    <3>1. IsJumpCall(t, calls[j])
      BY <1>4, <1>18, <1>20, <2>1 DEF IsJumpCall
    <3>2. t.fixups[j] = FixupOf(t.calls[calls[j]], up[calls[j] - 1])
      <4>1. calls[j] = n + 1 /\ (n + 1) - 1 = n /\ t.calls[n + 1] = item
        BY <1>18, <1>20, <2>1
      <4>2. FixupOf(item, up[n]) = f
        BY <1>4, <1>18 DEF FixupOf
      <4>3. t.fixups[j] = f
        BY <1>12, <2>1
      <4> HIDE DEF f
      <4> QED BY <4>1, <4>2, <4>3
    <3>3. ASSUME NEW i \in 1 .. j - 1 PROVE calls[i] < calls[j]
      <4>1. i \in 1 .. m
        BY <1>21, <2>1
      <4>2. calls[i] \in 1 .. n /\ calls[j] = n + 1
        BY <1>20, <2>1, <4>1
      <4> QED BY <4>2
    <3> QED BY <3>1, <3>2, <3>3
  <2>2. CASE j \in 1 .. m
    <3>1. calls[j] = call[j] /\ call[j] \in 1 .. n
      BY <1>20, <2>2
    <3>2. IsJumpCall(t, calls[j])
      <4>1. t.calls[call[j]] = s.calls[call[j]]
        BY <1>17, <3>1
      <4>2. IsJumpCall(s, call[j])
        BY <1>19, <2>2
      <4> QED BY <3>1, <4>1, <4>2 DEF IsJumpCall
    <3>3. t.fixups[j] = FixupOf(t.calls[calls[j]], up[calls[j] - 1])
      <4>1. t.fixups[j] = FixupOf(s.calls[call[j]], at[call[j] - 1])
        BY <1>12, <1>19, <2>2
      <4>2. t.calls[call[j]] = s.calls[call[j]] /\ up[call[j] - 1] = at[call[j] - 1]
        BY <1>17, <3>1
      <4> QED BY <3>1, <4>1, <4>2
    <3>4. ASSUME NEW i \in 1 .. j - 1 PROVE calls[i] < calls[j]
      <4>1. i \in 1 .. m
        BY <1>21, <2>2
      <4>2. calls[i] = call[i]
        BY <1>20, <4>1
      <4> QED BY <1>19, <2>2, <3>1, <4>2
    <3> QED BY <3>2, <3>3, <3>4
  <2> QED BY <1>21, <2>1, <2>2
<1>24. ASSUME NEW k \in 1 .. n + 1, IsJumpCall(t, k)
       PROVE  \E j \in 1 .. m + 1 : calls[j] = k
  <2>1. CASE k = n + 1
    BY <1>20, <2>1
  <2>2. CASE k # n + 1
    <3>1. k \in 1 .. n
      BY <2>2
    <3>2. IsJumpCall(s, k)
      BY <1>17, <1>24, <3>1 DEF IsJumpCall
    <3>3. PICK j \in 1 .. m : call[j] = k
      BY <1>19, <3>1, <3>2
    <3> QED BY <1>20, <3>3
  <2> QED BY <2>1, <2>2
<1>25. JumpsKept(t, up, calls)
  BY <1>12, <1>18, <1>22, <1>23, <1>24 DEF JumpsKept
<1>26. Kept(t, up, calls)
  BY <1>8, <1>10, <1>14, <1>16, <1>25 DEF Kept
<1> QED BY <1>5, <1>13, <1>26

LEMMA NextKeeps ==
    ASSUME EmitsInstructions, BuilderInv, [ClientNext]_builderVars
    PROVE  BuilderInv'
<1>1. PICK at, call : Kept(b, at, call)
  BY DEF BuilderInv
<1>2. b \in BuilderSet
  BY DEF BuilderInv
<1>3. CASE UNCHANGED b
  BY <1>3 DEF BuilderInv
<1>4. CASE CallLabel
  <2>1. b' = WithLabel(b)
    BY <1>4 DEF CallLabel, Calls
  <2> QED BY <1>1, <1>2, <2>1, LabelKeeps DEF BuilderInv
<1>5. ASSUME NEW l \in 0 .. MaxLabels, CallPlace(l)
      PROVE  BuilderInv'
  <2>1. CASE PlaceError(b, l) = "none"
    <3>1. b' = PlaceIn(b, l)
      BY <1>5, <2>1 DEF CallPlace, Calls
    <3>2. \E up : PlaceIn(b, l) \in BuilderSet /\ Kept(PlaceIn(b, l), up, call)
      BY <1>1, <1>2, <2>1, PlaceKeeps
    <3> QED BY <3>1, <3>2 DEF BuilderInv
  <2>2. CASE PlaceError(b, l) # "none"
    <3>1. UNCHANGED b
      BY <1>5, <2>2 DEF CallPlace, Calls
    <3> QED BY <1>3, <3>1
  <2> QED BY <2>1, <2>2
<1>6. ASSUME NEW l \in 0 .. MaxLabels, NEW kind \in {"Jump", "JumpIf"}, CallJump(kind, l)
      PROVE  BuilderInv'
  <2>1. b' = EmitJumpTo(b, kind, l)
    BY <1>6 DEF CallJump, Calls
  <2>2. \E up, calls : EmitJumpTo(b, kind, l) \in BuilderSet
                          /\ Kept(EmitJumpTo(b, kind, l), up, calls)
    BY <1>1, <1>2, JumpKeeps DEF JumpOps
  <2> QED BY <2>1, <2>2 DEF BuilderInv
<1>7. ASSUME NEW instr \in Emitted, CallEmit(instr) PROVE BuilderInv'
  <2>1. b' = Writes(b, instr, CodeItem(instr))
    BY <1>7 DEF CallEmit, Calls, EmitTo
  <2>2. /\ IsWritable(instr) /\ CodeItem(instr) \in CallSet
        /\ Written(CodeItem(instr)) = instr
        /\ CodeItem(instr).kind # "label" /\ CodeItem(instr).kind # "jump"
    BY WrittenOf, CallFields DEF EmitsInstructions, CallSet
  <2>3. \E up : Writes(b, instr, CodeItem(instr)) \in BuilderSet
                   /\ Kept(Writes(b, instr, CodeItem(instr)), up, call)
    BY <1>1, <1>2, <2>2, CodeKeeps
  <2> QED BY <2>1, <2>3 DEF BuilderInv
<1>8. ASSUME NEW val \in Constants, CallPush(val) PROVE BuilderInv'
  <2> DEFINE instr == MinimalPush(val)
  <2>1. b' = Writes(b, instr, ConstItem(val))
    BY <1>8 DEF CallPush, Calls, EmitPush
  <2>2. /\ IsWritable(instr) /\ ConstItem(val) \in CallSet
        /\ Written(ConstItem(val)) = instr
        /\ ConstItem(val).kind # "label" /\ ConstItem(val).kind # "jump"
    <3>1. IsWritable(instr)
      BY PushWritable
    <3>2. Written(ConstItem(val)) = instr
      BY WrittenOf
    <3> HIDE DEF instr
    <3>3. ConstItem(val) \in CallSet
      BY DEF CallSet
    <3> QED BY <3>1, <3>2, <3>3, CallFields
  <2> HIDE DEF instr
  <2>3. \E up : Writes(b, instr, ConstItem(val)) \in BuilderSet
                   /\ Kept(Writes(b, instr, ConstItem(val)), up, call)
    BY <1>1, <1>2, <2>2, CodeKeeps
  <2> QED BY <2>1, <2>3 DEF BuilderInv
<1>9. CASE CallBuild
  <2>1. UNCHANGED b
    BY <1>9 DEF CallBuild
  <2> QED BY <1>3, <2>1
<1> QED BY <1>3, <1>4, <1>5, <1>6, <1>7, <1>8, <1>9 DEF ClientNext, builderVars

LEMMA KeptItems ==
    ASSUME NEW s \in BuilderSet, NEW at, NEW call, Kept(s, at, call),
           NEW n \in Nat, n = Len(s.calls)
    PROVE  /\ Stream(s.buf) = [k \in 1 .. n |-> ItemAt(at, WrittenBy(s), k)]
           /\ \A k \in 1 .. n : WrittenBy(s)[k] = Written(s.calls[k])
           /\ \A j, k \in 1 .. n : at[j - 1] = at[k - 1] => j = k
<1>1. /\ WrittenBy(s) \in Seq({Written(s.calls[k]) : k \in 1 .. Len(s.calls)})
      /\ Len(WrittenBy(s)) = n
      /\ \A k \in 1 .. n : WrittenBy(s)[k] = Written(s.calls[k])
  BY WrittenSeq
<1> DEFINE instrs == WrittenBy(s)
           S == {Written(s.calls[k]) : k \in 1 .. Len(s.calls)}
<1>2. instrs \in Seq(S) /\ Spells(s.buf, at, instrs) /\ Len(instrs) = n
  BY <1>1 DEF Kept
<1> HIDE DEF instrs, S
<1>3. Stream(s.buf) = [k \in 1 .. n |-> ItemAt(at, instrs, k)]
  BY <1>2, StreamSpelled
<1>4. /\ \A k \in 0 .. n : at[k] \in 0 .. Len(s.buf)
      /\ \A k \in 1 .. n : \A j \in 0 .. k - 1 : at[j] < at[k]
  BY <1>2, SpelledPlaces
<1>5. ASSUME NEW j \in 1 .. n, NEW k \in 1 .. n, j < k PROVE at[j - 1] # at[k - 1]
  <2>1. k - 1 \in 1 .. n /\ j - 1 \in 0 .. (k - 1) - 1 /\ j - 1 \in 0 .. n /\ k - 1 \in 0 .. n
    BY <1>5
  <2>2. at[j - 1] < at[k - 1]
    BY <1>4, <2>1
  <2>3. at[j - 1] \in Int /\ at[k - 1] \in Int
    BY <1>4, <2>1
  <2> QED BY <2>2, <2>3
<1>6. ASSUME NEW j \in 1 .. n, NEW k \in 1 .. n, at[j - 1] = at[k - 1] PROVE j = k
  <2>1. ~(j < k)
    BY <1>5, <1>6
  <2>2. ~(k < j)
    BY <1>5, <1>6
  <2> QED BY <2>1, <2>2
<1> QED BY <1>1, <1>3, <1>6 DEF instrs

LEMMA KeptIsOK == BuilderInv => BufferOK
<1> SUFFICES ASSUME BuilderInv PROVE BufferOK
  OBVIOUS
<1>1. PICK at, call : Kept(b, at, call)
  BY DEF BuilderInv
<1>2. b \in BuilderSet
  BY DEF BuilderInv
<1>3. PICK n \in Nat : n = Len(b.calls)
  BY <1>2, WrittenSeq
<1> DEFINE items == Stream(b.buf)
           ops(offset) == {items[k].instr.op : k \in
                              {k \in DOMAIN items : items[k].offset = offset}}
<1>4. /\ items = [k \in 1 .. n |-> ItemAt(at, WrittenBy(b), k)]
      /\ \A k \in 1 .. n : WrittenBy(b)[k] = Written(b.calls[k])
      /\ \A j, k \in 1 .. n : at[j - 1] = at[k - 1] => j = k
  BY <1>1, <1>2, <1>3, KeptItems
<1>5. /\ DOMAIN items = 1 .. n
      /\ \A k \in 1 .. n : /\ items[k].error = "none" /\ items[k].offset = at[k - 1]
                           /\ items[k].instr = Written(b.calls[k])
  <2> HIDE DEF items
  <2>1. DOMAIN items = 1 .. n
    BY <1>4
  <2>2. \A k \in 1 .. n : items[k] = ItemAt(at, WrittenBy(b), k)
    BY <1>4
  <2>3. \A k \in 1 .. n : /\ ItemAt(at, WrittenBy(b), k).error = "none"
                          /\ ItemAt(at, WrittenBy(b), k).offset = at[k - 1]
                          /\ ItemAt(at, WrittenBy(b), k).instr = WrittenBy(b)[k]
    BY DEF ItemAt
  <2> QED BY <1>4, <2>1, <2>2, <2>3
<1> HIDE DEF items
<1>6. ASSUME NEW k \in 1 .. n PROVE ops(at[k - 1]) = {Written(b.calls[k]).op}
  <2>1. {j \in DOMAIN items : items[j].offset = at[k - 1]} = {k}
    BY <1>4, <1>5
  <2> QED BY <1>5, <2>1
<1> HIDE DEF ops
<1>7. ASSUME NEW l \in Placed(b) PROVE ops(PlaceOf(b, l)) = {"TARGET"}
  <2>1. l \in 0 .. Len(b.label_positions) - 1 /\ PlaceOf(b, l) # Unplaced
    BY DEF Placed
  <2>2. PICK k \in 1 .. n : b.calls[k] = LabelItem(l) /\ PlaceOf(b, l) = at[k - 1]
    BY <1>1, <1>3, <2>1 DEF Kept, LabelsKept
  <2>3. Written(b.calls[k]).op = "TARGET"
    BY <2>2, WrittenOf DEF Instr
  <2> QED BY <1>6, <2>2, <2>3
<1>8. ASSUME NEW j \in DOMAIN b.fixups
      PROVE  ops(b.fixups[j].site) = {WideForm(b.fixups[j].kind)}
  <2>1. b.fixups \in Seq(FixupSet) /\ b.calls \in Seq(CallSet)
    BY <1>2 DEF BuilderSet
  <2>2. j \in 1 .. Len(b.fixups)
    BY <2>1, LenProperties
  <2>3. /\ call[j] \in 1 .. n /\ IsJumpCall(b, call[j])
        /\ b.fixups[j] = FixupOf(b.calls[call[j]], at[call[j] - 1])
    BY <1>1, <1>3, <2>2 DEF Kept, JumpsKept
  <2>4. b.calls[call[j]] \in CallSet
    BY <1>3, <2>1, <2>3, ElementOfSeq
  <2>5. PICK op \in JumpOps, l \in 0 .. MaxLabels : b.calls[call[j]] = JumpItem(op, l)
    BY <2>3, <2>4, CallFields DEF CallSet, IsJumpCall
  <2>6. b.fixups[j].site = at[call[j] - 1] /\ b.fixups[j].kind = op
    BY <2>3, <2>5, CallFields DEF FixupOf
  <2>7. Written(b.calls[call[j]]).op = WideForm(op)
    BY <2>5, WrittenOf DEF Placeholder, Instr
  <2> QED BY <1>6, <2>3, <2>6, <2>7
<1>9. \A k \in DOMAIN items : items[k].error = "none"
  BY <1>5
<1> QED BY <1>7, <1>8, <1>9 DEF BufferOK, items, ops

\* Whatever instructions and constants a client writes and whatever labels it
\* places and jumps to, in any order: the buffer decodes, a placed label is at
\* a TARGET and a fixup at a wide jump of its kind.
THEOREM BufferSound ==
    ASSUME EmitsInstructions
    PROVE  BuilderSpec => []BufferOK
<1>1. BuilderInv /\ [ClientNext]_builderVars => BuilderInv'
  BY NextKeeps
<1> QED BY <1>1, KeptInitially, KeptIsOK, PTL DEF BuilderSpec

--------------------------------------------------------------------------
(* Part II: the promise.                                                   *)

\* A client that leaves TARGETs to place, and whose constants are words.
PlacesTargets ==
    /\ EmitsInstructions
    /\ \A instr \in Emitted : instr.op # "TARGET"
    /\ \A val \in Constants : IsWord(val)

\* One that leaves jumps and constants to the calls that are for them too.
OrdinaryClient == PlacesTargets /\ \A instr \in Emitted : IsOrdinary(instr)

--------------------------------------------------------------------------
(* Patching.                                                               *)

\* p is code, of z bytes, with e bytes written over those after the site.
Overwritten(p, code, z, site, bytes, e) ==
    /\ p \in Seq(Values) /\ Len(p) = z
    /\ \A i \in 1 .. e : p[site + i] = bytes[i]
    /\ \A i \in 1 .. z : i <= site \/ i > site + e => p[i] = code[i]

LEMMA PatchPlaces ==
    ASSUME NEW code \in Seq(Values), NEW z \in Nat, z = Len(code),
           NEW site \in Nat, NEW bytes \in Seq(Values), NEW e \in Nat, e = Len(bytes),
           site + e <= z
    PROVE  Overwritten(Patch(code, site, bytes), code, z, site, bytes, e)
<1> DEFINE p == Patch(code, site, bytes)
<1>1. /\ DOMAIN code = 1 .. z /\ DOMAIN bytes = 1 .. e
      /\ \A i \in 1 .. z : code[i] \in Values
      /\ \A i \in 1 .. e : bytes[i] \in Values
  BY LenProperties, ElementOfSeq
<1>2. p = [i \in 1 .. z |-> IF i - site \in 1 .. e THEN bytes[i - site] ELSE code[i]]
  BY <1>1 DEF Patch
<1> HIDE DEF p
<1>3. p \in [1 .. z -> Values]
  BY <1>1, <1>2
<1>4. p \in Seq(Values) /\ Len(p) = z
  BY <1>3, SeqDef, LenProperties
<1>5. ASSUME NEW i \in 1 .. e PROVE p[site + i] = bytes[i]
  <2>1. site + i \in 1 .. z /\ (site + i) - site = i
    OBVIOUS
  <2> QED BY <1>2, <2>1
<1>6. ASSUME NEW i \in 1 .. z, i <= site \/ i > site + e PROVE p[i] = code[i]
  <2>1. i - site \notin 1 .. e
    BY <1>6
  <2> QED BY <1>2, <2>1
<1>7. Overwritten(p, code, z, site, bytes, e)
  BY <1>4, <1>5, <1>6 DEF Overwritten
<1> QED BY <1>7 DEF p

\* What Spells says of the places of two instructions.
InOrder(at, instrs, n, z) ==
    \A k \in 1 .. n :
       /\ at[k] \in 0 .. z /\ at[k - 1] \in 0 .. z
       /\ Len(Encode(instrs[k])) \in Nat /\ at[k] = at[k - 1] + Len(Encode(instrs[k]))
       /\ \A j \in 1 .. n : j < k => at[j] <= at[k - 1]

LEMMA SpelledOrder ==
    ASSUME NEW bytes, NEW at, NEW S, NEW instrs \in Seq(S), Spells(bytes, at, instrs),
           NEW n \in Nat, n = Len(instrs), NEW z \in Nat, z = Len(bytes)
    PROVE  InOrder(at, instrs, n, z)
<1> SUFFICES ASSUME NEW k \in 1 .. n
             PROVE  /\ at[k] \in 0 .. z /\ at[k - 1] \in 0 .. z
                    /\ Len(Encode(instrs[k])) \in Nat
                    /\ at[k] = at[k - 1] + Len(Encode(instrs[k]))
                    /\ \A j \in 1 .. n : j < k => at[j] <= at[k - 1]
  BY DEF InOrder
<1>1. k \in 0 .. n /\ k - 1 \in 0 .. n
  OBVIOUS
<1>2. \A i \in 0 .. n : at[i] \in 0 .. z
  BY SpelledPlaces
<1>3. \A i \in 1 .. n : \A h \in 0 .. i - 1 : at[h] < at[i]
  BY SpelledPlaces
<1>4. ASSUME NEW j \in 1 .. n, j < k PROVE at[j] <= at[k - 1]
  <2>1. CASE j = k - 1
    BY <1>1, <1>2, <2>1
  <2>2. CASE j # k - 1
    <3>1. k - 1 \in 1 .. n /\ j \in 0 .. (k - 1) - 1 /\ j \in 0 .. n
      BY <1>4, <2>2
    <3>2. at[j] < at[k - 1]
      BY <1>3, <3>1
    <3> QED BY <1>1, <1>2, <3>1, <3>2
  <2> QED BY <2>1, <2>2
<1>5. Len(Encode(instrs[k])) \in Nat /\ at[k] = at[k - 1] + Len(Encode(instrs[k]))
  BY EncodedLength DEF Spells
<1> QED BY <1>1, <1>2, <1>4, <1>5

\* An instruction written over one of its size.
LEMMA PatchSpells ==
    ASSUME NEW code, NEW at, NEW S, NEW instrs \in Seq(S), Spells(code, at, instrs),
           NEW n \in Nat, n = Len(instrs), NEW k \in 1 .. n,
           NEW instr, IsWritable(instr), Len(Encode(instr)) = Len(Encode(instrs[k])),
           NEW more \in Seq(S), Len(more) = n, more[k] = instr,
           \A j \in 1 .. n : j # k => more[j] = instrs[j]
    PROVE  Spells(Patch(code, at[k - 1], Encode(instr)), at, more)
<1>1. code \in Seq(Values) /\ Len(code) \in Nat
  BY LenProperties DEF Spells
<1>2. PICK z \in Nat : z = Len(code)
  BY <1>1
<1>3. PICK e \in Nat : e = Len(Encode(instr))
  BY EncodedLength
<1>0. \A j \in 1 .. n :
         /\ at[j] \in 0 .. z /\ at[j - 1] \in 0 .. z
         /\ Len(Encode(instrs[j])) \in Nat /\ at[j] = at[j - 1] + Len(Encode(instrs[j]))
         /\ \A i \in 1 .. n : i < j => at[i] <= at[j - 1]
  <2>1. InOrder(at, instrs, n, z)
    BY <1>2, SpelledOrder
  <2> QED BY <2>1 DEF InOrder
<1>4. PICK site \in Nat : site = at[k - 1] /\ at[k] = site + e /\ site + e <= z
  <2>1. at[k] \in 0 .. z /\ at[k - 1] \in 0 .. z /\ at[k] = at[k - 1] + Len(Encode(instrs[k]))
    BY <1>0
  <2>2. at[k - 1] \in Nat /\ at[k] = at[k - 1] + e /\ at[k - 1] + e <= z
    BY <1>3, <2>1
  <2> QED BY <2>2
<1> DEFINE p == Patch(code, at[k - 1], Encode(instr))
<1>5. /\ p \in Seq(Values) /\ Len(p) = z
      /\ \A i \in 1 .. e : p[site + i] = Encode(instr)[i]
      /\ \A i \in 1 .. z : i <= site \/ i > site + e => p[i] = code[i]
  <2>1. Encode(instr) \in Seq(Values)
    BY EncodedLength
  <2>2. Overwritten(Patch(code, site, Encode(instr)), code, z, site, Encode(instr), e)
    BY <1>1, <1>2, <1>3, <1>4, <2>1, PatchPlaces
  <2>3. Overwritten(p, code, z, site, Encode(instr), e)
    BY <1>4, <2>2
  <2> HIDE DEF p
  <2> QED BY <2>3 DEF Overwritten
<1> HIDE DEF p
<1>6. ASSUME NEW j \in 1 .. n
      PROVE  /\ IsWritable(more[j])
             /\ at[j] = at[j - 1] + Len(Encode(more[j]))
             /\ \A i \in 1 .. Len(Encode(more[j])) : p[at[j - 1] + i] = Encode(more[j])[i]
  <2>1. CASE j = k
    BY <1>3, <1>4, <1>5, <2>1
  <2>2. CASE j # k
    <3>1. /\ IsWritable(instrs[j])
          /\ \A i \in 1 .. Len(Encode(instrs[j])) : code[at[j - 1] + i] = Encode(instrs[j])[i]
      BY DEF Spells
    <3>2. PICK c \in Nat : c = Len(Encode(instrs[j]))
      BY <3>1, EncodedLength
    <3>3. /\ at[j] \in 0 .. z /\ at[j - 1] \in 0 .. z /\ at[j] = at[j - 1] + c
          /\ (j < k => at[j] <= site) /\ (k < j => site + e <= at[j - 1])
      <4>1. /\ at[j] \in 0 .. z /\ at[j - 1] \in 0 .. z
            /\ at[j] = at[j - 1] + Len(Encode(instrs[j]))
        BY <1>0
      <4>4. j < k => at[j] <= at[k - 1]
        BY <1>0
      <4>2. k < j => at[k] <= at[j - 1]
        BY <1>0
      <4>3. at[j] = at[j - 1] + c
        BY <3>2, <4>1
      <4> QED BY <1>4, <4>1, <4>2, <4>3, <4>4
    <3>4. PICK a \in Nat : a = at[j - 1]
      BY <3>3
    <3>5. j < k \/ k < j
      BY <2>2
    <3>6. \A i \in 1 .. c : a + i \in 1 .. z /\ (a + i <= site \/ a + i > site + e)
      <4>1. a + c <= z /\ (a + c <= site \/ site + e <= a)
        BY <3>3, <3>4, <3>5
      <4> QED BY <4>1
    <3>7. \A i \in 1 .. c : p[a + i] = Encode(instrs[j])[i]
      BY <1>5, <3>1, <3>2, <3>4, <3>6
    <3> QED BY <2>2, <3>1, <3>2, <3>3, <3>4, <3>7
  <2> QED BY <2>1, <2>2
<1>7. at \in [0 .. n -> Nat] /\ at[0] = 0 /\ at[n] = Len(p)
  BY <1>2, <1>5 DEF Spells
<1>8. Spells(p, at, more)
  BY <1>5, <1>6, <1>7 DEF Spells
<1> QED BY <1>8 DEF p

\* A jump that becomes narrow loses the third of its bytes.
Shrunk(at, n, k) == [j \in 0 .. n |-> IF j < k THEN at[j] ELSE at[j] - 1]

\* Taking the third byte out of a narrowed jump moves those after it.
LEMMA ShrinkSpells ==
    ASSUME NEW code, NEW at, NEW S, NEW instrs \in Seq(S), Spells(code, at, instrs),
           NEW n \in Nat, n = Len(instrs), NEW k \in 1 .. n,
           NEW instr, IsWritable(instr), Len(Encode(instr)) = 2,
           Len(Encode(instrs[k])) = 3,
           NEW more \in Seq(S), Len(more) = n, more[k] = instr,
           \A j \in 1 .. n : j # k => more[j] = instrs[j]
    PROVE  Spells(RemoveAt(Patch(code, at[k - 1], Encode(instr)), at[k - 1] + 3),
                  Shrunk(at, n, k), more)
<1>1. code \in Seq(Values) /\ Len(code) \in Nat
  BY LenProperties DEF Spells
<1>2. PICK z \in Nat : z = Len(code)
  BY <1>1
<1>0. \A j \in 1 .. n :
         /\ at[j] \in 0 .. z /\ at[j - 1] \in 0 .. z
         /\ Len(Encode(instrs[j])) \in Nat /\ at[j] = at[j - 1] + Len(Encode(instrs[j]))
         /\ \A i \in 1 .. n : i < j => at[i] <= at[j - 1]
  <2>1. InOrder(at, instrs, n, z)
    BY <1>2, SpelledOrder
  <2> QED BY <2>1 DEF InOrder
<1>3. PICK site \in Nat : site = at[k - 1] /\ at[k] = site + 3 /\ site + 3 <= z
  <2>1. at[k] \in 0 .. z /\ at[k - 1] \in 0 .. z /\ at[k] = at[k - 1] + Len(Encode(instrs[k]))
    BY <1>0
  <2>2. at[k - 1] \in Nat /\ at[k] = at[k - 1] + 3 /\ at[k - 1] + 3 <= z
    BY <2>1
  <2> QED BY <2>2
<1> DEFINE p == Patch(code, site, Encode(instr))
           r == RemoveAt(p, site + 3)
           up == Shrunk(at, n, k)
<1>4. /\ p \in Seq(Values) /\ Len(p) = z
      /\ \A i \in 1 .. 2 : p[site + i] = Encode(instr)[i]
      /\ \A i \in 1 .. z : i <= site \/ i > site + 2 => p[i] = code[i]
  <2>1. Encode(instr) \in Seq(Values) /\ 2 \in Nat /\ 2 = Len(Encode(instr)) /\ site + 2 <= z
    BY <1>3, EncodedLength
  <2>2. Overwritten(p, code, z, site, Encode(instr), 2)
    BY <1>1, <1>2, <2>1, PatchPlaces
  <2> HIDE DEF p
  <2> QED BY <2>2 DEF Overwritten
<1> HIDE DEF p
<1>5. /\ r \in Seq(Values) /\ Len(r) = z - 1
      /\ \A j \in 1 .. site + 2 : r[j] = p[j]
      /\ \A j \in site + 3 .. z - 1 : r[j] = p[j + 1]
  <2>1. site + 3 \in 1 .. z /\ (site + 3) - 1 = site + 2
    BY <1>3
  <2>2. Without(r, Values, p, z, site + 3)
    BY <1>4, <2>1, RemoveAtPlaces
  <2> HIDE DEF r
  <2> QED BY <2>1, <2>2 DEF Without
<1> HIDE DEF r
<1>6. /\ at \in [0 .. n -> Nat] /\ at[0] = 0 /\ at[n] = z
      /\ \A j \in 1 .. n :
          /\ IsWritable(instrs[j])
          /\ \A i \in 1 .. Len(Encode(instrs[j])) : code[at[j - 1] + i] = Encode(instrs[j])[i]
  BY <1>2 DEF Spells
<1>7. \A j \in 0 .. n : up[j] = IF j < k THEN at[j] ELSE at[j] - 1
  BY DEF Shrunk
<1>8. \A j \in k .. n : at[j] >= site + 3 /\ at[j] \in Nat
  <2> TAKE j \in k .. n
  <2>1. j \in 0 .. n /\ at[j] \in Nat
    BY <1>6
  <2>2. CASE j = k
    BY <1>3, <2>1, <2>2
  <2>3. CASE j # k
    <3>1. j \in 1 .. n /\ k \in 0 .. j - 1
      BY <2>3
    <3>2. at[k] < at[j]
      BY <3>1, SpelledPlaces
    <3> QED BY <1>3, <2>1, <3>2
  <2> QED BY <2>2, <2>3
<1>9. up \in [0 .. n -> Nat]
  <2>1. \A j \in 0 .. n : up[j] \in Nat
    <3> TAKE j \in 0 .. n
    <3>1. CASE j < k
      BY <1>6, <1>7, <3>1
    <3>2. CASE ~(j < k)
      <4>1. j \in k .. n
        BY <3>2
      <4>2. at[j] - 1 \in Nat
        BY <1>8, <4>1
      <4> QED BY <1>7, <3>2, <4>2
    <3> QED BY <3>1, <3>2
  <2>2. up = [j \in 0 .. n |-> up[j]]
    BY DEF Shrunk
  <2> HIDE DEF up
  <2> QED BY <2>1, <2>2
<1> HIDE DEF up
<1>10. ASSUME NEW j \in 1 .. n
       PROVE  /\ IsWritable(more[j])
              /\ up[j] = up[j - 1] + Len(Encode(more[j]))
              /\ \A i \in 1 .. Len(Encode(more[j])) : r[up[j - 1] + i] = Encode(more[j])[i]
  <2>0. j \in 0 .. n /\ j - 1 \in 0 .. n
    OBVIOUS
  <2>1. CASE j = k
    <3>1. up[j - 1] = site /\ up[j] = site + 2
      BY <1>3, <1>7, <2>0, <2>1
    <3>2. \A i \in 1 .. 2 : site + i \in 1 .. site + 2
      OBVIOUS
    <3>3. \A i \in 1 .. 2 : r[site + i] = Encode(instr)[i]
      BY <1>4, <1>5, <3>2
    <3> QED BY <2>1, <3>1, <3>3
  <2>2. CASE j # k
    <3>1. /\ IsWritable(instrs[j])
          /\ \A i \in 1 .. Len(Encode(instrs[j])) : code[at[j - 1] + i] = Encode(instrs[j])[i]
      BY <1>6
    <3>2. PICK c \in Nat : c = Len(Encode(instrs[j]))
      BY <3>1, EncodedLength
    <3>3. PICK a \in Nat : a = at[j - 1]
      BY <1>6, <2>0
    <3>4. at[j] = a + c /\ a + c <= z
      <4>1. at[j] \in 0 .. z /\ at[j] = at[j - 1] + Len(Encode(instrs[j]))
        BY <1>0
      <4> QED BY <3>2, <3>3, <4>1
    <3>5. \A i \in 1 .. c : code[a + i] = Encode(instrs[j])[i]
      BY <3>1, <3>2, <3>3
    <3>6. CASE j < k
      <4>1. at[j] <= site
        BY <1>0, <1>3, <3>6
      <4>2. up[j] = a + c /\ up[j - 1] = a
        <5>1. j - 1 < k
          BY <3>6
        <5>2. up[j] = at[j] /\ up[j - 1] = at[j - 1]
          BY <1>7, <2>0, <3>6, <5>1
        <5> QED BY <3>3, <3>4, <5>2
      <4>3. \A i \in 1 .. c : a + i \in 1 .. site + 2 /\ a + i \in 1 .. z /\ a + i <= site
        BY <1>3, <3>4, <4>1
      <4>4. \A i \in 1 .. c : r[a + i] = Encode(instrs[j])[i]
        <5> TAKE i \in 1 .. c
        <5>1. r[a + i] = p[a + i] /\ p[a + i] = code[a + i]
          BY <1>4, <1>5, <4>3
        <5> QED BY <3>5, <5>1
      <4> QED BY <2>2, <3>1, <3>2, <4>2, <4>4
    <3>7. CASE k < j
      <4>1. j - 1 \in k .. n /\ ~(j < k) /\ ~(j - 1 < k)
        BY <3>7
      <4>2. a >= site + 3
        BY <1>8, <3>3, <4>1
      <4>3. PICK d \in Nat : d = a - 1
        BY <4>2
      <4>4. up[j] = (a + c) - 1 /\ up[j - 1] = d
        BY <1>7, <2>0, <3>3, <3>4, <4>1, <4>3
      <4>5. up[j] = d + c
        BY <4>3, <4>4
      <4>6. \A i \in 1 .. c : /\ d + i \in site + 3 .. z - 1 /\ (d + i) + 1 = a + i
                             /\ a + i \in 1 .. z /\ a + i > site + 2
        BY <3>4, <4>2, <4>3
      <4>7. \A i \in 1 .. c : r[d + i] = Encode(instrs[j])[i]
        <5> TAKE i \in 1 .. c
        <5>1. r[d + i] = p[(d + i) + 1] /\ p[a + i] = code[a + i]
          BY <1>4, <1>5, <4>6
        <5> QED BY <3>5, <4>6, <5>1
      <4> QED BY <2>2, <3>1, <3>2, <4>4, <4>5, <4>7
    <3> QED BY <2>2, <3>6, <3>7
  <2> QED BY <2>1, <2>2
<1>11. up[0] = 0 /\ up[n] = Len(r)
  <2>1. 0 < k /\ 0 \in 0 .. n /\ n \in 0 .. n /\ ~(n < k)
    OBVIOUS
  <2> QED BY <1>5, <1>6, <1>7, <2>1
<1>12. Spells(r, up, more)
  BY <1>5, <1>9, <1>10, <1>11 DEF Spells
<1> QED BY <1>3, <1>12 DEF p, r, up

--------------------------------------------------------------------------
(* The jumps of a built program.                                           *)

LEMMA OneOperandLength ==
    ASSUME NEW row \in Table, NEW field \in Fields, row.fields = <<field>>,
           NEW instr, RowHolds(row, instr)
    PROVE  Len(Encode(instr)) = 1 + field.width
<1>1. PICK size : Sizes(row.fields, size)
  BY RowFields, SizesExist
<1>2. Len(Encode(instr)) = size[Len(row.fields)]
  <2>1. Encodes(Encode(instr), row, size, instr.args)
    BY <1>1, EncodeRow
  <2> QED BY <2>1 DEF Encodes
<1>3. Len(row.fields) = 1 /\ row.fields[1] = field
  BY RowFields
<1>4. size[0] = 1 /\ size[1] = size[0] + field.width
  <2>1. 1 \in 1 .. Len(row.fields) /\ 1 - 1 = 0
    BY <1>3
  <2> QED BY <1>1, <1>3, <2>1 DEF Sizes
<1> QED BY <1>2, <1>3, <1>4

LEMMA JumpLengths ==
    ASSUME NEW op \in JumpOps, NEW v \in Int
    PROVE  /\ Len(Encode(Instr(WideForm(op), <<v>>))) = 3
           /\ Len(Encode(Instr(NarrowForm(op), <<v>>))) = 2
<1>1. /\ WideField \in Fields /\ WideField.width = 2 /\ v \in OperandsOf(WideField)
      /\ NarrowField \in Fields /\ NarrowField.width = 1 /\ v \in OperandsOf(NarrowField)
  BY DEF Fields, WideField, NarrowField, OperandsOf
<1>2. Len(Encode(Instr(WideForm(op), <<v>>))) = 3
  <2>1. PICK row \in Table : row.op = WideForm(op) /\ row.fields = <<WideField>>
    BY RowsOfBuilder DEF JumpOps, WideForm
  <2>2. RowHolds(row, Instr(row.op, <<v>>))
    BY <1>1, <2>1, OneOperand
  <2>3. Len(Encode(Instr(row.op, <<v>>))) = 1 + WideField.width
    BY <1>1, <2>1, <2>2, OneOperandLength
  <2> QED BY <1>1, <2>1, <2>3
<1>3. Len(Encode(Instr(NarrowForm(op), <<v>>))) = 2
  <2>1. PICK row \in Table : row.op = NarrowForm(op) /\ row.fields = <<NarrowField>>
    BY RowsOfBuilder DEF JumpOps, NarrowForm
  <2>2. RowHolds(row, Instr(row.op, <<v>>))
    BY <1>1, <2>1, OneOperand
  <2>3. Len(Encode(Instr(row.op, <<v>>))) = 1 + NarrowField.width
    BY <1>1, <2>1, <2>2, OneOperandLength
  <2> QED BY <1>1, <2>1, <2>3
<1> QED BY <1>2, <1>3

WideJump(s, item) == Instr(WideForm(item.op), <<SequentialId(s, item.label)>>)
NarrowJump(s, item) == Instr(NarrowForm(item.op), <<SequentialId(s, item.label)>>)

\* The instructions when j fixups are patched, and when j of them have become
\* narrow, those whose label fits.
Reached(call, j, k) == \E i \in 1 .. j : call[i] = k
Mixed(s, call, j) ==
    [k \in 1 .. Len(s.calls) |-> IF Reached(call, j, k) THEN WideJump(s, s.calls[k])
                                 ELSE Written(s.calls[k])]
Shortened(s, call, j) ==
    [k \in 1 .. Len(s.calls) |->
        IF Reached(call, j, k) /\ SequentialId(s, s.calls[k].label) < NarrowLabels
        THEN NarrowJump(s, s.calls[k])
        ELSE Mixed(s, call, Len(s.fixups))[k]]

LEMMA PlacedFinite ==
    ASSUME NEW s \in BuilderSet
    PROVE  /\ IsFiniteSet(Placed(s))
           /\ \A l : SequentialId(s, l) \in Nat
<1>1. Len(s.label_positions) \in Nat
  BY LenProperties DEF BuilderSet
<1>2. IsFiniteSet(Placed(s))
  <2>1. IsFiniteSet(0 .. Len(s.label_positions) - 1)
    BY <1>1, FS_Interval
  <2> QED BY <2>1, FS_Subset DEF Placed
<1>3. ASSUME NEW l PROVE SequentialId(s, l) \in Nat
  <2>1. IsFiniteSet({k \in Placed(s) : PlaceOf(s, k) < PlaceOf(s, l)})
    BY <1>2, FS_Subset
  <2> QED BY <2>1, FS_CardinalityType DEF SequentialId
<1> QED BY <1>2, <1>3

\* What the invariant says of one fixup.
LEMMA FixupKept ==
    ASSUME NEW s \in BuilderSet, NEW at, NEW call, Kept(s, at, call),
           NEW j \in 1 .. Len(s.fixups)
    PROVE  /\ call[j] \in 1 .. Len(s.calls) /\ IsJumpCall(s, call[j])
           /\ s.calls[call[j]].op \in JumpOps
           /\ s.calls[call[j]].label \in 0 .. MaxLabels
           /\ s.calls[call[j]] = JumpItem(s.calls[call[j]].op, s.calls[call[j]].label)
           /\ s.fixups[j].site = at[call[j] - 1]
           /\ s.fixups[j].kind = s.calls[call[j]].op
           /\ s.fixups[j].label = s.calls[call[j]].label
<1>1. s.calls \in Seq(CallSet) /\ Len(s.calls) \in Nat
  BY LenProperties DEF BuilderSet
<1>2. /\ call[j] \in 1 .. Len(s.calls) /\ IsJumpCall(s, call[j])
      /\ s.fixups[j] = FixupOf(s.calls[call[j]], at[call[j] - 1])
  BY DEF Kept, JumpsKept
<1>3. s.calls[call[j]] \in CallSet
  BY <1>1, <1>2, ElementOfSeq
<1>4. PICK op \in JumpOps, l \in 0 .. MaxLabels : s.calls[call[j]] = JumpItem(op, l)
  BY <1>2, <1>3, CallFields DEF CallSet, IsJumpCall
<1>5. s.calls[call[j]].op = op /\ s.calls[call[j]].label = l
  BY <1>4, CallFields
<1>6. /\ s.fixups[j].site = at[call[j] - 1]
      /\ s.fixups[j].kind = s.calls[call[j]].op
      /\ s.fixups[j].label = s.calls[call[j]].label
  BY <1>2 DEF FixupOf
<1> QED BY <1>2, <1>4, <1>5, <1>6

--------------------------------------------------------------------------
(* build goes through the fixups twice.                                    *)

\* One turn of each loop.
PatchOne(s, code, f) ==
    Patch(code, f.site, Encode(Instr(WideForm(f.kind), <<SequentialId(s, f.label)>>)))
ShrinkOne(s, acc, f) ==
    IF Fits(s, f)
    THEN LET actual == f.site - acc.shrinkage
             bytes == Encode(Instr(NarrowForm(f.kind), <<SequentialId(s, f.label)>>))
         IN  [code |-> RemoveAt(Patch(acc.code, actual, bytes), actual + 3),
              shrinkage |-> acc.shrinkage + 1]
    ELSE acc

\* Patched and Narrowed are chains of such turns.
LEMMA PatchedTurns ==
    ASSUME NEW s, NEW m \in Nat, DOMAIN s.fixups = 1 .. m
    PROVE  \E turn : /\ Patched(s) = turn[m] /\ turn[0] = s.buf
                     /\ \A j \in 1 .. m : turn[j] = PatchOne(s, turn[j - 1], s.fixups[j])
<1> DEFINE base == s.buf
           step(v, j) == PatchOne(s, v, s.fixups[j])
           body(g, js) == IF js = {} THEN base ELSE step(g[js \ {Max(js)}], Max(js))
           it == CHOOSE g : g = [js \in SUBSET (1 .. m) |-> body(g, js)]
           turn == [j \in 0 .. m |-> it[1 .. j]]
<1>1. Patched(s) = it[1 .. m]
  BY DEF Patched, FoldLeft, MapThenFoldSet, PatchOne
<1> HIDE DEF base, step
<1>2. \E g : g = [js \in SUBSET (1 .. m) |-> body(g, js)]
  <2> DEFINE S == {k \in Nat : \E g : g = [js \in SUBSET (1 .. k) |-> body(g, js)]}
  <2>1. 0 \in S
    <3> DEFINE h == [js \in SUBSET (1 .. 0) |-> base]
    <3>1. \A js \in SUBSET (1 .. 0) : js = {}
      OBVIOUS
    <3>2. h = [js \in SUBSET (1 .. 0) |-> body(h, js)]
      BY <3>1
    <3> QED BY <3>2
  <2>2. ASSUME NEW k \in Nat, k \in S PROVE k + 1 \in S
    <3> DEFINE D == SUBSET (1 .. k)
               E == SUBSET (1 .. k + 1)
               last == k + 1
    <3>1. PICK g : g = [js \in D |-> body(g, js)]
      BY <2>2
    <3> DEFINE h == [js \in E |-> IF last \in js THEN step(g[js \ {last}], last) ELSE g[js]]
    <3>2. \A js \in E : /\ last \notin js => js \in D
                        /\ js \ {last} \in D
                        /\ last \in js => Max(js) = last
      <4> TAKE js \in E
      <4>1. last \notin js => js \in D
        OBVIOUS
      <4>2. js \ {last} \in D
        OBVIOUS
      <4>3. ASSUME last \in js PROVE Max(js) = last
        BY <4>3, TopWithin
      <4> QED BY <4>1, <4>2, <4>3
    <3>3. \A js \in D : /\ last \notin js /\ js \in E
                        /\ js # {} => Max(js) \in js /\ js \ {Max(js)} \in D
      <4> TAKE js \in D
      <4>1. last \notin js /\ js \in E
        OBVIOUS
      <4>2. js # {} => Max(js) \in js
        BY MaxOfSome
      <4>3. js \ {Max(js)} \in D
        OBVIOUS
      <4> QED BY <4>1, <4>2, <4>3
    <3> HIDE DEF D, E, last
    <3>4. \A js \in D : h[js] = g[js]
      BY <3>3
    <3>5. ASSUME NEW js \in E PROVE h[js] = body(h, js)
      <4>1. CASE last \in js
        <5>1. h[js] = step(g[js \ {last}], last)
          BY <4>1
        <5>2. h[js \ {last}] = g[js \ {last}]
          BY <3>2, <3>4
        <5> QED BY <3>2, <4>1, <5>1, <5>2
      <4>2. CASE last \notin js
        <5>1. js \in D /\ h[js] = g[js]
          BY <3>2, <3>4, <4>2
        <5>2. g[js] = body(g, js)
          BY <3>1, <5>1
        <5>3. js # {} => h[js \ {Max(js)}] = g[js \ {Max(js)}]
          BY <3>3, <3>4, <5>1
        <5> QED BY <5>1, <5>2, <5>3
      <4> QED BY <4>1, <4>2
    <3>6. h = [js \in E |-> body(h, js)]
      <4>1. h = [js \in E |-> h[js]]
        OBVIOUS
      <4> HIDE DEF h, body
      <4> QED BY <3>5, <4>1
    <3> HIDE DEF h, body
    <3> QED BY <3>6 DEF E, last
  <2>3. Nat \subseteq S
    <3> HIDE DEF S
    <3> QED BY <2>1, <2>2, UpFromZero
  <2> HIDE DEF body
  <2> QED BY <2>3
<1>3. it = [js \in SUBSET (1 .. m) |-> body(it, js)]
  <2> HIDE DEF body
  <2> QED BY <1>2
<1> HIDE DEF it
<1>4. turn[0] = base
  <2>1. 1 .. 0 = {} /\ {} \in SUBSET (1 .. m) /\ 0 \in 0 .. m
    OBVIOUS
  <2>2. it[{}] = base
    BY <1>3, <2>1
  <2> QED BY <2>1, <2>2
<1>5. ASSUME NEW j \in 1 .. m PROVE turn[j] = step(turn[j - 1], j)
  <2>1. /\ 1 .. j \in SUBSET (1 .. m) /\ 1 .. j # {} /\ Max(1 .. j) = j
        /\ (1 .. j) \ {j} = 1 .. j - 1
    BY TopOfInterval
  <2>2. it[1 .. j] = step(it[1 .. j - 1], j)
    BY <1>3, <2>1
  <2>3. j \in 0 .. m /\ j - 1 \in 0 .. m
    OBVIOUS
  <2> QED BY <2>2, <2>3
<1>6. Patched(s) = turn[m]
  BY <1>1
<1> HIDE DEF turn
<1> QED BY <1>4, <1>5, <1>6 DEF base, step

LEMMA NarrowedTurns ==
    ASSUME NEW s, NEW m \in Nat, DOMAIN s.fixups = 1 .. m
    PROVE  \E turn : /\ Narrowed(s) = turn[m].code
                     /\ turn[0] = [code |-> Patched(s), shrinkage |-> 0]
                     /\ \A j \in 1 .. m : turn[j] = ShrinkOne(s, turn[j - 1], s.fixups[j])
<1> DEFINE base == [code |-> Patched(s), shrinkage |-> 0]
           step(v, j) == ShrinkOne(s, v, s.fixups[j])
           body(g, js) == IF js = {} THEN base ELSE step(g[js \ {Max(js)}], Max(js))
           it == CHOOSE g : g = [js \in SUBSET (1 .. m) |-> body(g, js)]
           turn == [j \in 0 .. m |-> it[1 .. j]]
<1>1. Narrowed(s) = it[1 .. m].code
  BY DEF Narrowed, FoldLeft, MapThenFoldSet, ShrinkOne
<1> HIDE DEF base, step
<1>2. \E g : g = [js \in SUBSET (1 .. m) |-> body(g, js)]
  <2> DEFINE S == {k \in Nat : \E g : g = [js \in SUBSET (1 .. k) |-> body(g, js)]}
  <2>1. 0 \in S
    <3> DEFINE h == [js \in SUBSET (1 .. 0) |-> base]
    <3>1. \A js \in SUBSET (1 .. 0) : js = {}
      OBVIOUS
    <3>2. h = [js \in SUBSET (1 .. 0) |-> body(h, js)]
      BY <3>1
    <3> QED BY <3>2
  <2>2. ASSUME NEW k \in Nat, k \in S PROVE k + 1 \in S
    <3> DEFINE D == SUBSET (1 .. k)
               E == SUBSET (1 .. k + 1)
               last == k + 1
    <3>1. PICK g : g = [js \in D |-> body(g, js)]
      BY <2>2
    <3> DEFINE h == [js \in E |-> IF last \in js THEN step(g[js \ {last}], last) ELSE g[js]]
    <3>2. \A js \in E : /\ last \notin js => js \in D
                        /\ js \ {last} \in D
                        /\ last \in js => Max(js) = last
      <4> TAKE js \in E
      <4>1. last \notin js => js \in D
        OBVIOUS
      <4>2. js \ {last} \in D
        OBVIOUS
      <4>3. ASSUME last \in js PROVE Max(js) = last
        BY <4>3, TopWithin
      <4> QED BY <4>1, <4>2, <4>3
    <3>3. \A js \in D : /\ last \notin js /\ js \in E
                        /\ js # {} => Max(js) \in js /\ js \ {Max(js)} \in D
      <4> TAKE js \in D
      <4>1. last \notin js /\ js \in E
        OBVIOUS
      <4>2. js # {} => Max(js) \in js
        BY MaxOfSome
      <4>3. js \ {Max(js)} \in D
        OBVIOUS
      <4> QED BY <4>1, <4>2, <4>3
    <3> HIDE DEF D, E, last
    <3>4. \A js \in D : h[js] = g[js]
      BY <3>3
    <3>5. ASSUME NEW js \in E PROVE h[js] = body(h, js)
      <4>1. CASE last \in js
        <5>1. h[js] = step(g[js \ {last}], last)
          BY <4>1
        <5>2. h[js \ {last}] = g[js \ {last}]
          BY <3>2, <3>4
        <5> QED BY <3>2, <4>1, <5>1, <5>2
      <4>2. CASE last \notin js
        <5>1. js \in D /\ h[js] = g[js]
          BY <3>2, <3>4, <4>2
        <5>2. g[js] = body(g, js)
          BY <3>1, <5>1
        <5>3. js # {} => h[js \ {Max(js)}] = g[js \ {Max(js)}]
          BY <3>3, <3>4, <5>1
        <5> QED BY <5>1, <5>2, <5>3
      <4> QED BY <4>1, <4>2
    <3>6. h = [js \in E |-> body(h, js)]
      <4>1. h = [js \in E |-> h[js]]
        OBVIOUS
      <4> HIDE DEF h, body
      <4> QED BY <3>5, <4>1
    <3> HIDE DEF h, body
    <3> QED BY <3>6 DEF E, last
  <2>3. Nat \subseteq S
    <3> HIDE DEF S
    <3> QED BY <2>1, <2>2, UpFromZero
  <2> HIDE DEF body
  <2> QED BY <2>3
<1>3. it = [js \in SUBSET (1 .. m) |-> body(it, js)]
  <2> HIDE DEF body
  <2> QED BY <1>2
<1> HIDE DEF it
<1>4. turn[0] = base
  <2>1. 1 .. 0 = {} /\ {} \in SUBSET (1 .. m) /\ 0 \in 0 .. m
    OBVIOUS
  <2>2. it[{}] = base
    BY <1>3, <2>1
  <2> QED BY <2>1, <2>2
<1>5. ASSUME NEW j \in 1 .. m PROVE turn[j] = step(turn[j - 1], j)
  <2>1. /\ 1 .. j \in SUBSET (1 .. m) /\ 1 .. j # {} /\ Max(1 .. j) = j
        /\ (1 .. j) \ {j} = 1 .. j - 1
    BY TopOfInterval
  <2>2. it[1 .. j] = step(it[1 .. j - 1], j)
    BY <1>3, <2>1
  <2>3. j \in 0 .. m /\ j - 1 \in 0 .. m
    OBVIOUS
  <2> QED BY <2>2, <2>3
<1>6. Narrowed(s) = turn[m].code
  BY <1>1
<1> HIDE DEF turn
<1> QED BY <1>4, <1>5, <1>6 DEF base, step

--------------------------------------------------------------------------
(* What the loops keep.                                                    *)

\* The instructions a call may have become.
Forms(s) == {Written(s.calls[k]) : k \in 1 .. Len(s.calls)}
               \cup {WideJump(s, s.calls[k]) : k \in 1 .. Len(s.calls)}
               \cup {NarrowJump(s, s.calls[k]) : k \in 1 .. Len(s.calls)}

LEMMA FormsSeq ==
    ASSUME NEW s, NEW n \in Nat, n = Len(s.calls), NEW call, NEW j
    PROVE  /\ Mixed(s, call, j) \in Seq(Forms(s)) /\ Len(Mixed(s, call, j)) = n
           /\ Shortened(s, call, j) \in Seq(Forms(s)) /\ Len(Shortened(s, call, j)) = n
<1> DEFINE x == Mixed(s, call, j)
           y == Shortened(s, call, j)
<1>1. x \in [1 .. n -> Forms(s)]
  BY DEF Mixed, Forms
<1>2. \A k \in 1 .. n : Mixed(s, call, Len(s.fixups))[k] \in Forms(s)
  BY DEF Mixed, Forms
<1>3. y \in [1 .. n -> Forms(s)]
  BY <1>2 DEF Shortened, Forms
<1> HIDE DEF x, y
<1>4. x \in Seq(Forms(s)) /\ Len(x) = n
  BY <1>1, SeqDef, LenProperties
<1>5. y \in Seq(Forms(s)) /\ Len(y) = n
  BY <1>3, SeqDef, LenProperties
<1> QED BY <1>4, <1>5 DEF x, y

\* The fixups are in the order of the calls.
LEMMA TurnReaches ==
    ASSUME NEW s \in BuilderSet, NEW at, NEW call, Kept(s, at, call),
           NEW m \in Nat, m = Len(s.fixups), NEW j \in 1 .. m
    PROVE  /\ Reached(call, j, call[j]) /\ ~Reached(call, j - 1, call[j])
           /\ Reached(call, m, call[j])
           /\ \A k : k # call[j] => (Reached(call, j, k) <=> Reached(call, j - 1, k))
           /\ \A i \in 1 .. j - 1 : call[i] < call[j]
<1>1. \A i \in 1 .. m : call[i] \in 1 .. Len(s.calls)
  BY DEF Kept, JumpsKept
<1>2. \A i \in 1 .. j - 1 : call[i] < call[j]
  BY DEF Kept, JumpsKept
<1>3. j \in 1 .. j /\ \A i \in 1 .. j : i = j \/ i \in 1 .. j - 1
  OBVIOUS
<1>4. \A i \in 1 .. j - 1 : i \in 1 .. j /\ i \in 1 .. m
  OBVIOUS
<1>5. ASSUME NEW i \in 1 .. j - 1 PROVE call[i] # call[j]
  <2>1. call[i] \in Int /\ call[j] \in Int
    BY <1>1, <1>4
  <2> QED BY <1>2, <2>1
<1> QED BY <1>2, <1>3, <1>4, <1>5 DEF Reached

\* A turn of the first loop patches the jump of one call.
LEMMA PatchTurn ==
    ASSUME NEW s \in BuilderSet, NEW at, NEW call, Kept(s, at, call),
           NEW m \in Nat, m = Len(s.fixups), NEW j \in 1 .. m,
           NEW code, Spells(code, at, Mixed(s, call, j - 1))
    PROVE  Spells(PatchOne(s, code, s.fixups[j]), at, Mixed(s, call, j))
<1>1. PICK n \in Nat : n = Len(s.calls)
  BY WrittenSeq
<1>2. PICK k \in 1 .. n : k = call[j]
  BY <1>1, FixupKept
<1> DEFINE instrs == Mixed(s, call, j - 1)
           more == Mixed(s, call, j)
           instr == WideJump(s, s.calls[k])
<1>3. /\ s.calls[k].op \in JumpOps /\ IsJumpCall(s, k)
      /\ s.calls[k] = JumpItem(s.calls[k].op, s.calls[k].label)
      /\ s.fixups[j].site = at[k - 1] /\ s.fixups[j].kind = s.calls[k].op
      /\ s.fixups[j].label = s.calls[k].label
  BY <1>2, FixupKept
<1>4. SequentialId(s, s.calls[k].label) \in Int
  BY PlacedFinite
<1>5. IsWritable(instr) /\ Len(Encode(instr)) = 3
  BY <1>3, <1>4, PlaceholderWritable, JumpLengths DEF WideJump
<1>6. instrs[k] = Placeholder(s.calls[k].op)
  <2>1. instrs[k] = Written(s.calls[k])
    BY <1>1, <1>2, TurnReaches DEF Mixed
  <2> QED BY <1>3, <2>1, WrittenOf
<1>7. Len(Encode(instrs[k])) = 3
  <2>1. WideLabels - 1 \in Int
    BY BuilderAssumption
  <2> QED BY <1>3, <1>6, <2>1, JumpLengths DEF Placeholder
<1>8. more[k] = instr
  BY <1>1, <1>2, TurnReaches DEF Mixed
<1>9. \A i \in 1 .. n : i # k => more[i] = instrs[i]
  BY <1>1, <1>2, TurnReaches DEF Mixed
<1>10. PatchOne(s, code, s.fixups[j]) = Patch(code, at[k - 1], Encode(instr))
  <2> DEFINE f == s.fixups[j]
  <2>1. f.site = at[k - 1] /\ f.kind = s.calls[k].op /\ f.label = s.calls[k].label
    BY <1>3
  <2> HIDE DEF f
  <2>2. PatchOne(s, code, f) =
           Patch(code, f.site, Encode(Instr(WideForm(f.kind), <<SequentialId(s, f.label)>>)))
    BY DEF PatchOne
  <2>3. PatchOne(s, code, f) =
           Patch(code, at[k - 1],
                 Encode(Instr(WideForm(s.calls[k].op), <<SequentialId(s, s.calls[k].label)>>)))
    BY <2>1, <2>2
  <2> QED BY <2>3 DEF f, WideJump
<1>11. /\ instrs \in Seq(Forms(s)) /\ n = Len(instrs)
       /\ more \in Seq(Forms(s)) /\ Len(more) = n
  BY <1>1, FormsSeq
<1> HIDE DEF instrs, more, instr
<1>12. Spells(code, at, instrs) /\ Len(Encode(instr)) = Len(Encode(instrs[k]))
  BY <1>5, <1>7 DEF instrs
<1>13. Spells(Patch(code, at[k - 1], Encode(instr)), at, more)
  BY <1>5, <1>8, <1>9, <1>11, <1>12, PatchSpells
<1> QED BY <1>10, <1>13 DEF more

\* The first loop leaves every jump wide, with the number of its label.
LEMMA PatchedSpells ==
    ASSUME NEW s \in BuilderSet, NEW at, NEW call, Kept(s, at, call),
           NEW m \in Nat, m = Len(s.fixups)
    PROVE  Spells(Patched(s), at, Mixed(s, call, m))
<1>1. DOMAIN s.fixups = 1 .. m
  BY LenProperties DEF BuilderSet
<1>2. PICK turn : /\ Patched(s) = turn[m] /\ turn[0] = s.buf
                  /\ \A j \in 1 .. m : turn[j] = PatchOne(s, turn[j - 1], s.fixups[j])
  BY <1>1, PatchedTurns
<1> DEFINE V == {j \in 0 .. m : Spells(turn[j], at, Mixed(s, call, j))}
           chain == [j \in 0 .. m |-> j]
<1>3. chain[0] \in V
  <2>1. \A k : ~Reached(call, 0, k)
    BY DEF Reached
  <2>2. Mixed(s, call, 0) = WrittenBy(s)
    BY <2>1, WrittenSeq DEF Mixed, WrittenBy
  <2>3. Spells(turn[0], at, Mixed(s, call, 0))
    BY <1>2, <2>2 DEF Kept
  <2> QED BY <2>3
<1>4. ASSUME NEW j \in 1 .. m, chain[j - 1] \in V PROVE chain[j] \in V
  <2>1. chain[j - 1] = j - 1 /\ chain[j] = j /\ j \in 0 .. m
    OBVIOUS
  <2>2. Spells(turn[j - 1], at, Mixed(s, call, j - 1))
    BY <1>4, <2>1
  <2>3. Spells(turn[j], at, Mixed(s, call, j))
    BY <1>2, <2>2, PatchTurn
  <2> QED BY <2>1, <2>3
<1>5. \A j \in 0 .. m : chain[j] \in V
  <2> HIDE DEF chain, V
  <2> QED BY <1>3, <1>4, ChainStays
<1>6. m \in 0 .. m /\ chain[m] = m
  OBVIOUS
<1> QED BY <1>2, <1>5, <1>6

\* Where the instructions are once j fixups are shrunk: those after the last of
\* them have moved by what was taken out.
ShrunkTo(s, at, call, n, j, acc, up) ==
    /\ acc.shrinkage \in Nat
    /\ Spells(acc.code, up, Shortened(s, call, j))
    /\ \A k \in 0 .. n :
          (\A i \in 1 .. j : call[i] <= k) => up[k] + acc.shrinkage = at[k]

\* A turn of the second loop finds its jump where the narrowed ones before it
\* have moved it to.
LEMMA ShrinkTurn ==
    ASSUME NEW s \in BuilderSet, NEW at, NEW call, Kept(s, at, call),
           NEW m \in Nat, m = Len(s.fixups), NEW j \in 1 .. m,
           NEW n \in Nat, n = Len(s.calls),
           NEW acc, NEW up, ShrunkTo(s, at, call, n, j - 1, acc, up)
    PROVE  \E upper : ShrunkTo(s, at, call, n, j, ShrinkOne(s, acc, s.fixups[j]), upper)
<1>2. PICK k \in 1 .. n : k = call[j]
  BY FixupKept
<1> DEFINE instrs == Shortened(s, call, j - 1)
           more == Shortened(s, call, j)
           instr == NarrowJump(s, s.calls[k])
           wide == Mixed(s, call, m)
           id == SequentialId(s, s.calls[k].label)
           f == s.fixups[j]
<1>3. /\ s.calls[k].op \in JumpOps
      /\ s.fixups[j].site = at[k - 1] /\ s.fixups[j].kind = s.calls[k].op
      /\ s.fixups[j].label = s.calls[k].label
  BY <1>2, FixupKept
<1>4. id \in Int
  BY PlacedFinite
<1>5. /\ acc.shrinkage \in Nat /\ Spells(acc.code, up, instrs)
      /\ \A i \in 0 .. n : (\A h \in 1 .. j - 1 : call[h] <= i)
                              => up[i] + acc.shrinkage = at[i]
  BY DEF ShrunkTo
<1>6. \A h \in 1 .. j - 1 : call[h] \in 1 .. n /\ call[h] < k
  <2> TAKE h \in 1 .. j - 1
  <2>1. h \in 1 .. m
    OBVIOUS
  <2> QED BY <1>2, <2>1, FixupKept, TurnReaches
<1>7. up[k - 1] + acc.shrinkage = at[k - 1]
  <2>1. k - 1 \in 0 .. n /\ \A h \in 1 .. j - 1 : call[h] <= k - 1
    BY <1>6
  <2> HIDE DEF instrs
  <2> QED BY <1>5, <2>1
<1>8. /\ wide[k] = WideJump(s, s.calls[k])
      /\ instrs[k] = wide[k]
      /\ id < NarrowLabels => more[k] = instr
      /\ ~(id < NarrowLabels) => more[k] = wide[k]
      /\ \A i \in 1 .. n : i # k => more[i] = instrs[i]
  <2>1. Reached(call, m, k) /\ Reached(call, j, k) /\ ~Reached(call, j - 1, k)
        /\ \A i : i # k => (Reached(call, j, i) <=> Reached(call, j - 1, i))
    BY <1>2, TurnReaches
  <2>2. wide[k] = WideJump(s, s.calls[k])
    BY <2>1 DEF Mixed
  <2> HIDE DEF wide
  <2>3. /\ more = [i \in 1 .. n |->
                     IF Reached(call, j, i) /\ SequentialId(s, s.calls[i].label) < NarrowLabels
                     THEN NarrowJump(s, s.calls[i]) ELSE wide[i]]
        /\ instrs = [i \in 1 .. n |->
                     IF Reached(call, j - 1, i)
                        /\ SequentialId(s, s.calls[i].label) < NarrowLabels
                     THEN NarrowJump(s, s.calls[i]) ELSE wide[i]]
    BY DEF Shortened, wide
  <2> HIDE DEF more, instrs
  <2> QED BY <2>1, <2>2, <2>3
<1>9. /\ instrs \in Seq(Forms(s)) /\ n = Len(instrs)
      /\ more \in Seq(Forms(s)) /\ Len(more) = n
  BY FormsSeq
<1> HIDE DEF instrs, more, wide
<1>10. at \in [0 .. n -> Nat] /\ up \in [0 .. n -> Nat]
  <2>1. n = Len(WrittenBy(s))
    BY WrittenSeq
  <2> QED BY <1>5, <1>9, <2>1 DEF Kept, Spells
<1>11. Fits(s, f) <=> id < NarrowLabels
  BY <1>3 DEF Fits
<1>12. CASE Fits(s, f)
  <2> DEFINE upper == Shrunk(up, n, k)
             t == ShrinkOne(s, acc, f)
  <2>1. IsWritable(instr) /\ Len(Encode(instr)) = 2
    BY <1>3, <1>4, PlaceholderWritable, JumpLengths DEF NarrowJump
  <2>2. Len(Encode(instrs[k])) = 3
    BY <1>3, <1>4, <1>8, JumpLengths DEF WideJump
  <2>3. more[k] = instr
    BY <1>8, <1>11, <1>12
  <2>4. Spells(RemoveAt(Patch(acc.code, up[k - 1], Encode(instr)), up[k - 1] + 3),
               upper, more)
    <3> HIDE DEF instr
    <3> QED BY <1>5, <1>8, <1>9, <2>1, <2>2, <2>3, ShrinkSpells
  <2>5. t.shrinkage = acc.shrinkage + 1
        /\ t.code = RemoveAt(Patch(acc.code, up[k - 1], Encode(instr)), up[k - 1] + 3)
    <3>1. f.site - acc.shrinkage = up[k - 1]
      <4>1. k - 1 \in 0 .. n
        OBVIOUS
      <4>2. up[k - 1] \in Nat /\ at[k - 1] \in Nat
        BY <1>10, <4>1
      <4> QED BY <1>3, <1>5, <1>7, <4>2
    <3>2. Instr(NarrowForm(f.kind), <<SequentialId(s, f.label)>>) = instr
      BY <1>3 DEF NarrowJump
    <3> HIDE DEF f, instr
    <3>3. t = [code |-> RemoveAt(Patch(acc.code, f.site - acc.shrinkage, Encode(instr)),
                                 (f.site - acc.shrinkage) + 3),
               shrinkage |-> acc.shrinkage + 1]
      BY <1>12, <3>2 DEF ShrinkOne
    <3> QED BY <3>1, <3>3
  <2>6. ASSUME NEW i \in 0 .. n, \A h \in 1 .. j : call[h] <= i
        PROVE  upper[i] + (acc.shrinkage + 1) = at[i]
    <3>1. j \in 1 .. j /\ \A h \in 1 .. j - 1 : h \in 1 .. j
      OBVIOUS
    <3>2. ~(i < k)
      BY <1>2, <2>6, <3>1
    <3>3. upper[i] = up[i] - 1
      BY <3>2 DEF Shrunk
    <3>4. up[i] + acc.shrinkage = at[i]
      BY <1>5, <2>6, <3>1
    <3>5. PICK a \in Nat : a = up[i]
      BY <1>10
    <3>6. PICK c \in Nat : c = acc.shrinkage
      BY <1>5
    <3>7. (a - 1) + (c + 1) = a + c
      OBVIOUS
    <3> QED BY <3>3, <3>4, <3>5, <3>6, <3>7
  <2> HIDE DEF upper, t
  <2>7. ShrunkTo(s, at, call, n, j, t, upper)
    BY <1>5, <2>4, <2>5, <2>6 DEF ShrunkTo, more
  <2> QED BY <2>7 DEF t
<1>13. CASE ~Fits(s, f)
  <2>1. ShrinkOne(s, acc, f) = acc
    BY <1>13 DEF ShrinkOne
  <2>2. more = instrs
    <3>1. more[k] = instrs[k]
      BY <1>8, <1>11, <1>13
    <3>2. \A i \in 1 .. n : more[i] = instrs[i]
      BY <1>8, <3>1
    <3> QED BY <1>9, <3>2, SeqEqual
  <2>3. \A h \in 1 .. j - 1 : h \in 1 .. j
    OBVIOUS
  <2>4. ShrunkTo(s, at, call, n, j, acc, up)
    <3>1. Spells(acc.code, up, Shortened(s, call, j))
      BY <1>5, <2>2 DEF more, instrs
    <3> QED BY <1>5, <2>3, <3>1 DEF ShrunkTo
  <2> QED BY <2>1, <2>4
<1> QED BY <1>12, <1>13

\* The instructions of a built program.
BuiltFrom(s) ==
    [k \in 1 .. Len(s.calls) |->
        IF IsJumpCall(s, k)
        THEN IF SequentialId(s, s.calls[k].label) < NarrowLabels
             THEN NarrowJump(s, s.calls[k]) ELSE WideJump(s, s.calls[k])
        ELSE Written(s.calls[k])]

\* The code of a built program decodes to its instructions.
LEMMA NarrowedSpells ==
    ASSUME NEW s \in BuilderSet, NEW at, NEW call, Kept(s, at, call)
    PROVE  \E up : Spells(Narrowed(s), up, BuiltFrom(s))
<1>1. PICK m \in Nat : m = Len(s.fixups)
  BY LenProperties DEF BuilderSet
<1>2. PICK n \in Nat : n = Len(s.calls)
  BY WrittenSeq
<1>3. DOMAIN s.fixups = 1 .. m
  BY <1>1, LenProperties DEF BuilderSet
<1>4. PICK turn : /\ Narrowed(s) = turn[m].code
                  /\ turn[0] = [code |-> Patched(s), shrinkage |-> 0]
                  /\ \A j \in 1 .. m : turn[j] = ShrinkOne(s, turn[j - 1], s.fixups[j])
  BY <1>3, NarrowedTurns
<1> DEFINE V == {j \in 0 .. m : \E up : ShrunkTo(s, at, call, n, j, turn[j], up)}
           chain == [j \in 0 .. m |-> j]
<1>5. chain[0] \in V
  <2>1. \A k : ~Reached(call, 0, k)
    BY DEF Reached
  <2>2. Shortened(s, call, 0) = Mixed(s, call, m)
    <3> DEFINE wide == Mixed(s, call, m)
    <3>1. wide = [k \in 1 .. Len(s.calls) |-> wide[k]]
      BY DEF Mixed
    <3> HIDE DEF wide
    <3> QED BY <1>1, <2>1, <3>1 DEF Shortened, wide
  <2>3. Spells(Patched(s), at, Mixed(s, call, m))
    BY <1>1, PatchedSpells
  <2>4. \A k \in 0 .. n : at[k] \in Nat
    <3>1. n = Len(WrittenBy(s))
      BY <1>2, WrittenSeq
    <3> QED BY <3>1 DEF Kept, Spells
  <2>5. turn[0].code = Patched(s) /\ turn[0].shrinkage = 0
    BY <1>4
  <2>6. ShrunkTo(s, at, call, n, 0, turn[0], at)
    BY <2>2, <2>3, <2>4, <2>5 DEF ShrunkTo
  <2> QED BY <2>6
<1>6. ASSUME NEW j \in 1 .. m, chain[j - 1] \in V PROVE chain[j] \in V
  <2>1. chain[j - 1] = j - 1 /\ chain[j] = j /\ j \in 0 .. m
    OBVIOUS
  <2>2. PICK up : ShrunkTo(s, at, call, n, j - 1, turn[j - 1], up)
    BY <1>6, <2>1
  <2>3. \E upper : ShrunkTo(s, at, call, n, j, ShrinkOne(s, turn[j - 1], s.fixups[j]), upper)
    BY <1>1, <1>2, <2>2, ShrinkTurn
  <2> QED BY <1>4, <2>1, <2>3
<1>7. \A j \in 0 .. m : chain[j] \in V
  <2> HIDE DEF chain, V
  <2> QED BY <1>5, <1>6, ChainStays
<1>8. m \in 0 .. m /\ chain[m] = m
  OBVIOUS
<1>9. PICK up : ShrunkTo(s, at, call, n, m, turn[m], up)
  BY <1>7, <1>8
<1>10. Shortened(s, call, m) = BuiltFrom(s)
  <2>1. \A k \in 1 .. n : Reached(call, m, k) <=> IsJumpCall(s, k)
    BY <1>1, <1>2 DEF Kept, JumpsKept, Reached
  <2> DEFINE wide == Mixed(s, call, m)
  <2>2. \A k \in 1 .. n : wide[k] = IF IsJumpCall(s, k) THEN WideJump(s, s.calls[k])
                                    ELSE Written(s.calls[k])
    BY <1>2, <2>1 DEF Mixed
  <2> HIDE DEF wide
  <2>3. Shortened(s, call, m) =
           [k \in 1 .. n |->
               IF Reached(call, m, k) /\ SequentialId(s, s.calls[k].label) < NarrowLabels
               THEN NarrowJump(s, s.calls[k]) ELSE wide[k]]
    BY <1>1, <1>2 DEF Shortened, wide
  <2>4. BuiltFrom(s) =
           [k \in 1 .. n |->
              IF IsJumpCall(s, k)
              THEN IF SequentialId(s, s.calls[k].label) < NarrowLabels
                   THEN NarrowJump(s, s.calls[k]) ELSE WideJump(s, s.calls[k])
              ELSE Written(s.calls[k])]
    BY <1>2 DEF BuiltFrom
  <2> QED BY <2>1, <2>2, <2>3, <2>4
<1> QED BY <1>4, <1>9, <1>10 DEF ShrunkTo

--------------------------------------------------------------------------
(* The numbers of the labels.                                              *)

\* The labels placed before an offset, and how many k calls have placed.
Before(s, offset) == {l \in Placed(s) : PlaceOf(s, l) < offset}
CountTo(s, at, k) == Cardinality(Before(s, at[k]))

\* Every placed label is the label of one call.
LEMMA PlacedCalls ==
    ASSUME NEW s \in BuilderSet, NEW at, NEW call, Kept(s, at, call),
           NEW n \in Nat, n = Len(s.calls)
    PROVE  /\ \A l \in Placed(s) : \E k \in 1 .. n :
                 IsLabelCall(s, k) /\ s.calls[k] = LabelItem(l) /\ PlaceOf(s, l) = at[k - 1]
           /\ \A k \in 1 .. n : IsLabelCall(s, k) =>
                 /\ s.calls[k].label \in Placed(s)
                 /\ s.calls[k] = LabelItem(s.calls[k].label)
                 /\ PlaceOf(s, s.calls[k].label) = at[k - 1]
           /\ \A k \in 0 .. n : at[k] \in Nat
           /\ at[0] = 0
           /\ \A j, k \in 0 .. n : at[j] < at[k] <=> j < k
<1>1. LabelsKept(s, at)
  BY DEF Kept
<1>2. n = Len(WrittenBy(s)) /\ Spells(s.buf, at, WrittenBy(s))
      /\ WrittenBy(s) \in Seq({Written(s.calls[k]) : k \in 1 .. Len(s.calls)})
  BY WrittenSeq DEF Kept
<1>3. (\A k \in 0 .. n : at[k] \in Nat) /\ at[0] = 0
  BY <1>2 DEF Spells
<1>4. \A k \in 1 .. n : \A j \in 0 .. k - 1 : at[j] < at[k]
  BY <1>2, SpelledPlaces
<1>5. ASSUME NEW j \in 0 .. n, NEW k \in 0 .. n PROVE at[j] < at[k] <=> j < k
  <2>1. at[j] \in Nat /\ at[k] \in Nat
    BY <1>3
  <2>2. CASE j < k
    <3>1. k \in 1 .. n /\ j \in 0 .. k - 1
      BY <2>2
    <3> QED BY <1>4, <2>2, <3>1
  <2>3. CASE j = k
    BY <2>1, <2>3
  <2>4. CASE k < j
    <3>1. j \in 1 .. n /\ k \in 0 .. j - 1
      BY <2>4
    <3>2. at[k] < at[j]
      BY <1>4, <3>1
    <3> QED BY <2>1, <2>4, <3>2
  <2> QED BY <2>2, <2>3, <2>4
<1>6. ASSUME NEW l \in Placed(s)
      PROVE  \E k \in 1 .. n : IsLabelCall(s, k) /\ s.calls[k] = LabelItem(l)
                                  /\ PlaceOf(s, l) = at[k - 1]
  <2>1. PICK k \in 1 .. n : s.calls[k] = LabelItem(l) /\ PlaceOf(s, l) = at[k - 1]
    BY <1>1 DEF LabelsKept, Placed
  <2> QED BY <2>1, CallFields DEF IsLabelCall
<1>7. ASSUME NEW k \in 1 .. n, IsLabelCall(s, k)
      PROVE  /\ s.calls[k].label \in Placed(s)
             /\ s.calls[k] = LabelItem(s.calls[k].label)
             /\ PlaceOf(s, s.calls[k].label) = at[k - 1]
  <2>1. /\ s.calls[k].label \in 0 .. Len(s.label_positions) - 1
        /\ s.calls[k] = LabelItem(s.calls[k].label)
        /\ PlaceOf(s, s.calls[k].label) = at[k - 1]
    BY <1>1, <1>7 DEF LabelsKept
  <2>2. k - 1 \in 0 .. n
    OBVIOUS
  <2>3. at[k - 1] # Unplaced
    BY <1>3, <2>2 DEF Unplaced
  <2> QED BY <2>1, <2>3 DEF Placed
<1> QED BY <1>3, <1>5, <1>6, <1>7

\* The number of a label is how many were placed before it.
LEMMA LabelsCounted ==
    ASSUME NEW s \in BuilderSet, NEW at, NEW call, Kept(s, at, call),
           NEW n \in Nat, n = Len(s.calls)
    PROVE  /\ \A k \in 0 .. n : CountTo(s, at, k) \in Nat
           /\ CountTo(s, at, 0) = 0
           /\ CountTo(s, at, n) = Cardinality(Placed(s))
           /\ \A k \in 1 .. n :
                 IF IsLabelCall(s, k)
                 THEN /\ CountTo(s, at, k) = CountTo(s, at, k - 1) + 1
                      /\ SequentialId(s, s.calls[k].label) = CountTo(s, at, k - 1)
                 ELSE CountTo(s, at, k) = CountTo(s, at, k - 1)
<1>1. \A l \in Placed(s) : \E k \in 1 .. n :
         IsLabelCall(s, k) /\ s.calls[k] = LabelItem(l) /\ PlaceOf(s, l) = at[k - 1]
  BY PlacedCalls
<1>2. \A k \in 1 .. n : IsLabelCall(s, k) =>
         /\ s.calls[k].label \in Placed(s)
         /\ s.calls[k] = LabelItem(s.calls[k].label)
         /\ PlaceOf(s, s.calls[k].label) = at[k - 1]
  BY PlacedCalls
<1>3. (\A k \in 0 .. n : at[k] \in Nat) /\ at[0] = 0
  BY PlacedCalls
<1>4. \A j, k \in 0 .. n : at[j] < at[k] <=> j < k
  BY PlacedCalls
<1>5. \A k \in 1 .. n : k - 1 \in 0 .. n /\ k \in 0 .. n /\ k - 1 < k
  OBVIOUS
<1>6. \A offset : IsFiniteSet(Before(s, offset)) /\ Cardinality(Before(s, offset)) \in Nat
  <2> TAKE offset
  <2>1. IsFiniteSet(Before(s, offset))
    BY PlacedFinite, FS_Subset DEF Before
  <2> QED BY <2>1, FS_CardinalityType
<1>7. CountTo(s, at, 0) = 0
  <2>1. ASSUME NEW l \in Before(s, at[0]) PROVE FALSE
    <3>1. PICK k \in 1 .. n : PlaceOf(s, l) = at[k - 1]
      BY <1>1 DEF Before
    <3>2. at[k - 1] \in Nat /\ at[k - 1] < 0
      BY <1>3, <1>5, <3>1 DEF Before
    <3> QED BY <3>2
  <2>2. Before(s, at[0]) = {}
    BY <2>1
  <2> QED BY <2>2, FS_EmptySet DEF CountTo
<1>8. CountTo(s, at, n) = Cardinality(Placed(s))
  <2>1. ASSUME NEW l \in Placed(s) PROVE PlaceOf(s, l) < at[n]
    <3>1. PICK k \in 1 .. n : PlaceOf(s, l) = at[k - 1]
      BY <1>1
    <3>2. k - 1 \in 0 .. n /\ n \in 0 .. n /\ k - 1 < n
      OBVIOUS
    <3> QED BY <1>4, <3>1, <3>2
  <2>2. Before(s, at[n]) = Placed(s)
    BY <2>1 DEF Before
  <2> QED BY <2>2 DEF CountTo
<1>9. ASSUME NEW k \in 1 .. n, NEW l \in Placed(s),
             s.calls[k] # LabelItem(l)
      PROVE  PlaceOf(s, l) < at[k] <=> PlaceOf(s, l) < at[k - 1]
  <2>1. PICK i \in 1 .. n : s.calls[i] = LabelItem(l) /\ PlaceOf(s, l) = at[i - 1]
    BY <1>1
  <2>2. i # k
    BY <1>9, <2>1
  <2>3. i - 1 < k <=> i - 1 < k - 1
    BY <2>2
  <2>4. i - 1 \in 0 .. n /\ k \in 0 .. n /\ k - 1 \in 0 .. n
    OBVIOUS
  <2> QED BY <1>4, <2>1, <2>3, <2>4
<1>10. ASSUME NEW k \in 1 .. n, ~IsLabelCall(s, k)
       PROVE  CountTo(s, at, k) = CountTo(s, at, k - 1)
  <2>1. \A l : s.calls[k] # LabelItem(l)
    BY <1>10, CallFields DEF IsLabelCall
  <2>2. Before(s, at[k]) = Before(s, at[k - 1])
    BY <1>9, <2>1 DEF Before
  <2> QED BY <2>2 DEF CountTo
<1>11. ASSUME NEW k \in 1 .. n, IsLabelCall(s, k)
       PROVE  /\ CountTo(s, at, k) = CountTo(s, at, k - 1) + 1
              /\ SequentialId(s, s.calls[k].label) = CountTo(s, at, k - 1)
  <2> DEFINE o == s.calls[k].label
  <2>1. o \in Placed(s) /\ s.calls[k] = LabelItem(o) /\ PlaceOf(s, o) = at[k - 1]
    BY <1>2, <1>11
  <2>2. at[k - 1] \in Nat /\ at[k - 1] < at[k]
    BY <1>3, <1>4, <1>5
  <2> HIDE DEF o
  <2>3. ASSUME NEW l \in Placed(s), l # o
        PROVE  PlaceOf(s, l) < at[k] <=> PlaceOf(s, l) < at[k - 1]
    <3>1. LabelItem(o) # LabelItem(l)
      BY <2>3, CallFields
    <3> QED BY <1>9, <2>1, <3>1
  <2>4. Before(s, at[k]) = Before(s, at[k - 1]) \cup {o}
    BY <2>1, <2>2, <2>3 DEF Before
  <2>5. o \notin Before(s, at[k - 1])
    BY <2>1, <2>2 DEF Before
  <2>6. Cardinality(Before(s, at[k - 1]) \cup {o}) = Cardinality(Before(s, at[k - 1])) + 1
    BY <1>6, <2>5, FS_AddElement
  <2>7. SequentialId(s, o) = Cardinality(Before(s, at[k - 1]))
    BY <2>1 DEF SequentialId, Before
  <2> QED BY <2>4, <2>6, <2>7 DEF CountTo, o
<1>12. \A k \in 0 .. n : CountTo(s, at, k) \in Nat
  BY <1>6 DEF CountTo
<1> QED BY <1>7, <1>8, <1>10, <1>11, <1>12

--------------------------------------------------------------------------
(* The jump table of a built program.                                      *)

\* One turn of the scan for an opcode.
OffsetOne(op, offsets, item) ==
    IF IsInstr(item, op) THEN Append(offsets, item.offset) ELSE offsets

\* The turns a scan of the stream takes, one for each item.
Turns(bytes, op, m, items, turn) ==
    /\ OffsetsOf(bytes, op) = turn[m] /\ turn[0] = <<>>
    /\ \A j \in 1 .. m : turn[j] = OffsetOne(op, turn[j - 1], items[j])

\* Every scan takes such turns.
LEMMA OffsetTurns ==
    ASSUME NEW bytes, NEW op, NEW m \in Nat, DOMAIN Stream(bytes) = 1 .. m
    PROVE  \E turn : Turns(bytes, op, m, Stream(bytes), turn)
<1> DEFINE base == <<>>
           step(v, j) == OffsetOne(op, v, Stream(bytes)[j])
           body(g, js) == IF js = {} THEN base ELSE step(g[js \ {Max(js)}], Max(js))
           it == CHOOSE g : g = [js \in SUBSET (1 .. m) |-> body(g, js)]
           turn == [j \in 0 .. m |-> it[1 .. j]]
<1>1. OffsetsOf(bytes, op) = it[1 .. m]
  BY DEF OffsetsOf, FoldLeft, MapThenFoldSet, OffsetOne
<1> HIDE DEF base, step
<1>2. \E g : g = [js \in SUBSET (1 .. m) |-> body(g, js)]
  <2> DEFINE S == {k \in Nat : \E g : g = [js \in SUBSET (1 .. k) |-> body(g, js)]}
  <2>1. 0 \in S
    <3> DEFINE h == [js \in SUBSET (1 .. 0) |-> base]
    <3>1. \A js \in SUBSET (1 .. 0) : js = {}
      OBVIOUS
    <3>2. h = [js \in SUBSET (1 .. 0) |-> body(h, js)]
      BY <3>1
    <3> QED BY <3>2
  <2>2. ASSUME NEW k \in Nat, k \in S PROVE k + 1 \in S
    <3> DEFINE D == SUBSET (1 .. k)
               E == SUBSET (1 .. k + 1)
               last == k + 1
    <3>1. PICK g : g = [js \in D |-> body(g, js)]
      BY <2>2
    <3> DEFINE h == [js \in E |-> IF last \in js THEN step(g[js \ {last}], last) ELSE g[js]]
    <3>2. \A js \in E : /\ last \notin js => js \in D
                        /\ js \ {last} \in D
                        /\ last \in js => Max(js) = last
      <4> TAKE js \in E
      <4>1. last \notin js => js \in D
        OBVIOUS
      <4>2. js \ {last} \in D
        OBVIOUS
      <4>3. ASSUME last \in js PROVE Max(js) = last
        BY <4>3, TopWithin
      <4> QED BY <4>1, <4>2, <4>3
    <3>3. \A js \in D : /\ last \notin js /\ js \in E
                        /\ js # {} => Max(js) \in js /\ js \ {Max(js)} \in D
      <4> TAKE js \in D
      <4>1. last \notin js /\ js \in E
        OBVIOUS
      <4>2. js # {} => Max(js) \in js
        BY MaxOfSome
      <4>3. js \ {Max(js)} \in D
        OBVIOUS
      <4> QED BY <4>1, <4>2, <4>3
    <3> HIDE DEF D, E, last
    <3>4. \A js \in D : h[js] = g[js]
      BY <3>3
    <3>5. ASSUME NEW js \in E PROVE h[js] = body(h, js)
      <4>1. CASE last \in js
        <5>1. h[js] = step(g[js \ {last}], last)
          BY <4>1
        <5>2. h[js \ {last}] = g[js \ {last}]
          BY <3>2, <3>4
        <5> QED BY <3>2, <4>1, <5>1, <5>2
      <4>2. CASE last \notin js
        <5>1. js \in D /\ h[js] = g[js]
          BY <3>2, <3>4, <4>2
        <5>2. g[js] = body(g, js)
          BY <3>1, <5>1
        <5>3. js # {} => h[js \ {Max(js)}] = g[js \ {Max(js)}]
          BY <3>3, <3>4, <5>1
        <5> QED BY <5>1, <5>2, <5>3
      <4> QED BY <4>1, <4>2
    <3>6. h = [js \in E |-> body(h, js)]
      <4>1. h = [js \in E |-> h[js]]
        OBVIOUS
      <4> HIDE DEF h, body
      <4> QED BY <3>5, <4>1
    <3> HIDE DEF h, body
    <3> QED BY <3>6 DEF E, last
  <2>3. Nat \subseteq S
    <3> HIDE DEF S
    <3> QED BY <2>1, <2>2, UpFromZero
  <2> HIDE DEF body
  <2> QED BY <2>3
<1>3. it = [js \in SUBSET (1 .. m) |-> body(it, js)]
  <2> HIDE DEF body
  <2> QED BY <1>2
<1> HIDE DEF it
<1>4. turn[0] = base
  <2>1. 1 .. 0 = {} /\ {} \in SUBSET (1 .. m) /\ 0 \in 0 .. m
    OBVIOUS
  <2>2. it[{}] = base
    BY <1>3, <2>1
  <2> QED BY <2>1, <2>2
<1>5. ASSUME NEW j \in 1 .. m PROVE turn[j] = step(turn[j - 1], j)
  <2>1. /\ 1 .. j \in SUBSET (1 .. m) /\ 1 .. j # {} /\ Max(1 .. j) = j
        /\ (1 .. j) \ {j} = 1 .. j - 1
    BY TopOfInterval
  <2>2. it[1 .. j] = step(it[1 .. j - 1], j)
    BY <1>3, <2>1
  <2>3. j \in 0 .. m /\ j - 1 \in 0 .. m
    OBVIOUS
  <2> QED BY <2>2, <2>3
<1>6. OffsetsOf(bytes, op) = turn[m]
  BY <1>1
<1> HIDE DEF turn
<1>7. Turns(bytes, op, m, Stream(bytes), turn)
  BY <1>4, <1>5, <1>6 DEF base, step, Turns
<1> QED BY <1>7

\* The TARGETs of a built program are those of its labels.
LEMMA BuiltForms ==
    ASSUME PlacesTargets, NEW s \in BuilderSet, NEW k \in 1 .. Len(s.calls)
    PROVE  BuiltFrom(s)[k].op = "TARGET" <=> IsLabelCall(s, k)
<1>1. s.calls[k] \in CallSet
  BY ElementOfSeq DEF BuilderSet
<1>2. BuiltFrom(s)[k] = IF IsJumpCall(s, k)
                        THEN IF SequentialId(s, s.calls[k].label) < NarrowLabels
                             THEN NarrowJump(s, s.calls[k]) ELSE WideJump(s, s.calls[k])
                        ELSE Written(s.calls[k])
  BY DEF BuiltFrom
<1>3. \A op, args : Instr(op, args).op = op
  BY DEF Instr
<1>4. CASE \E l \in 0 .. MaxLabels : s.calls[k] = LabelItem(l)
  BY <1>2, <1>3, <1>4, CallFields, WrittenOf DEF IsLabelCall, IsJumpCall
<1>5. CASE \E op \in JumpOps, l \in 0 .. MaxLabels : s.calls[k] = JumpItem(op, l)
  <2>1. s.calls[k].kind = "jump" /\ s.calls[k].op \in JumpOps
    BY <1>5, CallFields
  <2>2. WideForm(s.calls[k].op) # "TARGET" /\ NarrowForm(s.calls[k].op) # "TARGET"
    BY <2>1 DEF WideForm, NarrowForm
  <2> QED BY <1>2, <1>3, <2>1, <2>2 DEF IsLabelCall, IsJumpCall, WideJump, NarrowJump
<1>6. CASE \E val \in Constants : s.calls[k] = ConstItem(val)
  <2>1. PICK val \in Constants : s.calls[k] = ConstItem(val)
    BY <1>6
  <2>2. PICK n \in 1 .. WordBytes :
           MinimalPush(val) = Instr(PushName[n], <<LowBytes(val, n)>>)
    BY PushWritable
  <2>3. PushName[n] # "TARGET"
    <3>1. n \in 1 .. 8
      BY CodecAssumption
    <3> QED BY <3>1, Pushes
  <2>4. s.calls[k].kind = "push" /\ Written(s.calls[k]) = MinimalPush(val)
    BY <2>1, CallFields, WrittenOf
  <2> QED BY <1>2, <1>3, <2>2, <2>3, <2>4 DEF IsLabelCall, IsJumpCall
<1>7. CASE \E instr \in Emitted : s.calls[k] = CodeItem(instr)
  <2>1. PICK instr \in Emitted : s.calls[k] = CodeItem(instr)
    BY <1>7
  <2>2. s.calls[k].kind = "code" /\ Written(s.calls[k]) = instr /\ instr.op # "TARGET"
    BY <2>1, CallFields, WrittenOf DEF PlacesTargets
  <2> QED BY <1>2, <2>2 DEF IsLabelCall, IsJumpCall
<1> QED BY <1>1, <1>4, <1>5, <1>6, <1>7 DEF CallSet

\* A label is found in the jump table under its number.
Found(table, s, at, up, n, k) ==
    /\ table \in Seq(Nat) /\ Len(table) = CountTo(s, at, k)
    /\ \A j \in 1 .. n :
          IsLabelCall(s, j) /\ j <= k =>
             /\ CountTo(s, at, j - 1) + 1 \in 1 .. CountTo(s, at, k)
             /\ table[CountTo(s, at, j - 1) + 1] = up[j - 1]

LEMMA FoundOneMore ==
    ASSUME NEW s \in BuilderSet, NEW at, NEW call, Kept(s, at, call),
           NEW n \in Nat, n = Len(s.calls), NEW k \in 1 .. n, NEW up, up[k - 1] \in Nat,
           NEW table, Found(table, s, at, up, n, k - 1)
    PROVE  IF IsLabelCall(s, k) THEN Found(Append(table, up[k - 1]), s, at, up, n, k)
           ELSE Found(table, s, at, up, n, k)
<1>1. k - 1 \in 0 .. n /\ k \in 0 .. n
  OBVIOUS
<1>2. PICK c \in Nat : c = CountTo(s, at, k - 1)
  BY <1>1, LabelsCounted
<1>3. /\ table \in Seq(Nat) /\ Len(table) = c
      /\ \A j \in 1 .. n : IsLabelCall(s, j) /\ j <= k - 1 =>
             /\ CountTo(s, at, j - 1) + 1 \in 1 .. c
             /\ table[CountTo(s, at, j - 1) + 1] = up[j - 1]
  BY <1>2 DEF Found
<1>4. \A j \in 1 .. n : j <= k <=> j <= k - 1 \/ j = k
  OBVIOUS
<1>5. CASE IsLabelCall(s, k)
  <2> DEFINE more == Append(table, up[k - 1])
  <2>1. CountTo(s, at, k) = c + 1
    BY <1>2, <1>5, LabelsCounted
  <2>2. /\ more \in Seq(Nat) /\ Len(more) = c + 1 /\ more[c + 1] = up[k - 1]
        /\ \A i \in 1 .. c : more[i] = table[i]
    BY <1>3, AppendProperties
  <2> HIDE DEF more
  <2>3. c + 1 \in 1 .. c + 1 /\ \A i \in 1 .. c : i \in 1 .. c + 1
    OBVIOUS
  <2>4. ASSUME NEW j \in 1 .. n, IsLabelCall(s, j), j <= k
        PROVE  /\ CountTo(s, at, j - 1) + 1 \in 1 .. c + 1
               /\ more[CountTo(s, at, j - 1) + 1] = up[j - 1]
    <3>1. CASE j = k
      BY <1>2, <2>2, <2>3, <3>1
    <3>2. CASE j # k
      <4>1. j <= k - 1
        BY <2>4, <1>4, <3>2
      <4> QED BY <1>3, <2>2, <2>3, <2>4, <4>1
    <3> QED BY <3>1, <3>2
  <2>5. Found(more, s, at, up, n, k)
    BY <2>1, <2>2, <2>4 DEF Found
  <2> QED BY <1>5, <2>5 DEF more
<1>6. CASE ~IsLabelCall(s, k)
  <2>1. CountTo(s, at, k) = c
    BY <1>2, <1>6, LabelsCounted
  <2>2. Found(table, s, at, up, n, k)
    BY <1>3, <1>4, <1>6, <2>1 DEF Found
  <2> QED BY <1>6, <2>2
<1> QED BY <1>5, <1>6

\* The stream of a built program, and its jump table.
LEMMA TableFound ==
    ASSUME PlacesTargets, NEW s \in BuilderSet, NEW at, NEW call, Kept(s, at, call),
           NEW n \in Nat, n = Len(s.calls), NEW up, Spells(Narrowed(s), up, BuiltFrom(s))
    PROVE  /\ Stream(Narrowed(s)) = [k \in 1 .. n |-> ItemAt(up, BuiltFrom(s), k)]
           /\ Found(OffsetsOf(Narrowed(s), "TARGET"), s, at, up, n, n)
           /\ \A j, k \in 1 .. n : up[j - 1] = up[k - 1] => j = k
<1> DEFINE code == Narrowed(s)
           instrs == BuiltFrom(s)
           I == {instrs[k] : k \in 1 .. n}
           items == Stream(code)
<1>1. instrs \in Seq(I) /\ Len(instrs) = n
  <2>1. instrs = [k \in 1 .. n |-> instrs[k]]
    BY DEF BuiltFrom
  <2> HIDE DEF instrs
  <2> QED BY <2>1, MadeSeq
<1> HIDE DEF I, code
<1>2. Spells(code, up, instrs)
  BY DEF code
<1>3. items = [k \in 1 .. n |-> ItemAt(up, instrs, k)]
  <2> HIDE DEF instrs
  <2> QED BY <1>1, <1>2, StreamSpelled
<1>4. /\ \A k \in 0 .. n : up[k] \in Nat
      /\ \A k \in 1 .. n : \A j \in 0 .. k - 1 : up[j] < up[k]
  <2> HIDE DEF instrs
  <2> QED BY <1>1, <1>2, SpelledPlaces DEF Spells
<1>5. ASSUME NEW k \in 1 .. n
      PROVE  items[k].offset = up[k - 1] /\ (IsInstr(items[k], "TARGET") <=> IsLabelCall(s, k))
  <2>1. items[k] = ItemAt(up, instrs, k)
    BY <1>3
  <2>2. /\ items[k].offset = up[k - 1] /\ items[k].error = "none"
        /\ items[k].instr = instrs[k]
    BY <2>1 DEF ItemAt
  <2> QED BY <2>2, BuiltForms DEF IsInstr
<1>6. DOMAIN items = 1 .. n
  BY <1>3
<1> HIDE DEF instrs
<1>7. PICK turn : Turns(code, "TARGET", n, items, turn)
  <2>1. n \in Nat
    OBVIOUS
  <2>2. DOMAIN Stream(code) = 1 .. n
    BY <1>6
  <2>3. \E turn : Turns(code, "TARGET", n, Stream(code), turn)
    BY <2>1, <2>2, OffsetTurns
  <2> QED BY <2>3
<1> HIDE DEF items
<1> USE DEF Turns
<1> DEFINE V == {k \in 0 .. n : Found(turn[k], s, at, up, n, k)}
           chain == [k \in 0 .. n |-> k]
<1>8. chain[0] \in V
  <2>1. turn[0] \in Seq(Nat) /\ Len(turn[0]) = 0
    BY <1>7
  <2>2. CountTo(s, at, 0) = 0
    BY LabelsCounted
  <2>3. \A j \in 1 .. n : ~(j <= 0)
    OBVIOUS
  <2>4. Found(turn[0], s, at, up, n, 0)
    BY <2>1, <2>2, <2>3 DEF Found
  <2> QED BY <2>4
<1>9. ASSUME NEW k \in 1 .. n, chain[k - 1] \in V PROVE chain[k] \in V
  <2>1. chain[k - 1] = k - 1 /\ chain[k] = k /\ k \in 0 .. n /\ k - 1 \in 0 .. n
    OBVIOUS
  <2>2. Found(turn[k - 1], s, at, up, n, k - 1)
    BY <1>9, <2>1
  <2>3. up[k - 1] \in Nat
    BY <1>4, <2>1
  <2>4. IF IsLabelCall(s, k) THEN Found(Append(turn[k - 1], up[k - 1]), s, at, up, n, k)
        ELSE Found(turn[k - 1], s, at, up, n, k)
    BY <2>2, <2>3, FoundOneMore
  <2>5. turn[k] = IF IsLabelCall(s, k) THEN Append(turn[k - 1], up[k - 1]) ELSE turn[k - 1]
    BY <1>5, <1>7 DEF OffsetOne
  <2>6. Found(turn[k], s, at, up, n, k)
    BY <2>4, <2>5
  <2> QED BY <2>1, <2>6
<1>10. \A k \in 0 .. n : chain[k] \in V
  <2> HIDE DEF chain, V
  <2> QED BY <1>8, <1>9, ChainStays
<1>11. n \in 0 .. n /\ chain[n] = n
  OBVIOUS
<1>12. Found(OffsetsOf(code, "TARGET"), s, at, up, n, n)
  BY <1>7, <1>10, <1>11
<1>13. ASSUME NEW j \in 1 .. n, NEW k \in 1 .. n, j < k PROVE up[j - 1] # up[k - 1]
  <2>1. k - 1 \in 1 .. n /\ j - 1 \in 0 .. (k - 1) - 1 /\ j - 1 \in 0 .. n /\ k - 1 \in 0 .. n
    BY <1>13
  <2>2. up[j - 1] < up[k - 1]
    BY <1>4, <2>1
  <2>3. up[j - 1] \in Int /\ up[k - 1] \in Int
    BY <1>4, <2>1
  <2> QED BY <2>2, <2>3
<1>14. ASSUME NEW j \in 1 .. n, NEW k \in 1 .. n, up[j - 1] = up[k - 1] PROVE j = k
  <2>1. ~(j < k) /\ ~(k < j)
    BY <1>13, <1>14
  <2> QED BY <2>1
<1> QED BY <1>3, <1>12, <1>14 DEF code, items, instrs

--------------------------------------------------------------------------
(* A built program means what the calls said.                              *)

LEMMA OneCallPerLabel ==
    ASSUME NEW s \in BuilderSet, NEW at, NEW call, Kept(s, at, call),
           NEW n \in Nat, n = Len(s.calls), NEW j \in 1 .. n, NEW l,
           s.calls[j] = LabelItem(l)
    PROVE  Promise!PositionOf(s.calls, l) = j
<1>1. DOMAIN s.calls = 1 .. n
  BY WrittenSeq
<1>2. \A k \in 1 .. n : s.calls[k] = LabelItem(l) => PlaceOf(s, l) = at[k - 1]
  <2> TAKE k \in 1 .. n
  <2> HAVE s.calls[k] = LabelItem(l)
  <2>1. IsLabelCall(s, k) /\ s.calls[k].label = l
    BY CallFields DEF IsLabelCall
  <2> QED BY <2>1, PlacedCalls
<1>3. \A k \in 1 .. n : at[j - 1] = at[k - 1] => j = k
  BY KeptItems
<1>4. \A k \in 1 .. n : s.calls[k] = LabelItem(l) => k = j
  BY <1>2, <1>3
<1>5. Promise!PositionOf(s.calls, l) = CHOOSE k \in 1 .. n : s.calls[k] = LabelItem(l)
  BY <1>1 DEF Promise!PositionOf, Promise!LabelItem, LabelItem
<1> QED BY <1>4, <1>5

LEMMA JumpForms ==
    ASSUME NEW op \in JumpOps
    PROVE  /\ WideForm(op) \in DOMAIN JumpKinds /\ JumpKinds[WideForm(op)] = op
           /\ NarrowForm(op) \in DOMAIN JumpKinds /\ JumpKinds[NarrowForm(op)] = op
           /\ WideForm(op) # "TARGET" /\ NarrowForm(op) # "TARGET"
BY DEF JumpOps, WideForm, NarrowForm, JumpKinds

LEMMA PushesAreNoJumps ==
    ASSUME NEW n \in 1 .. WordBytes
    PROVE  PushName[n] # "TARGET" /\ PushName[n] \notin DOMAIN JumpKinds
<1>1. n \in {1, 2, 3, 4, 5, 6, 7, 8}
  <2>1. n \in 1 .. 8
    BY CodecAssumption
  <2> QED BY <2>1, Pushes
<1>2. DOMAIN JumpKinds = {"JUMP1", "JUMP2", "JUMPI1", "JUMPI2"}
  BY DEF JumpKinds
<1> QED BY <1>1, <1>2, Pushes

\* At each position a built program does what the call at that position meant.
LEMMA RunsAsMeant ==
    ASSUME PlacesTargets, NEW s \in BuilderSet, NEW at, NEW call, Kept(s, at, call),
           Missing(s) = {}, NEW n \in Nat, n = Len(s.calls),
           NEW up, Spells(Narrowed(s), up, BuiltFrom(s)),
           NEW k \in 1 .. n, s.calls[k].kind = "code" => IsOrdinary(s.calls[k].instr),
           NEW p, p = NewProgram(Narrowed(s)), NEW items, items = Stream(Narrowed(s))
    PROVE  Running(p, items, items[k]) = Promise!Meaning(s.calls, s.calls[k])
<1> DEFINE item == s.calls[k]
           instr == BuiltFrom(s)[k]
           run == Running(p, items, items[k])
           means == Promise!Meaning(s.calls, s.calls[k])
<1>1. item \in CallSet
  BY ElementOfSeq DEF BuilderSet
<1>2. instr = IF IsJumpCall(s, k)
              THEN IF SequentialId(s, item.label) < NarrowLabels
                   THEN NarrowJump(s, item) ELSE WideJump(s, item)
              ELSE Written(item)
  BY DEF BuiltFrom
<1>3. /\ items = [j \in 1 .. n |-> ItemAt(up, BuiltFrom(s), j)]
      /\ Found(p.jump_table, s, at, up, n, n)
      /\ \A i, j \in 1 .. n : up[i - 1] = up[j - 1] => i = j
  BY TableFound DEF NewProgram
<1>4. items[k].error = "none" /\ items[k].instr = instr
  BY <1>3 DEF ItemAt
<1>5. run = IF instr.op = "TARGET" THEN [kind |-> "target"]
            ELSE IF instr.op \in DOMAIN JumpKinds
            THEN IF instr.args[1] < Len(p.jump_table)
                 THEN [kind |-> "jump", op |-> JumpKinds[instr.op],
                       to |-> PositionAt(items, p.jump_table[instr.args[1] + 1])]
                 ELSE [kind |-> "InvalidLabel"]
            ELSE IF IsConst(instr)
            THEN [kind |-> "push", val |-> SignExtend(instr.args[1])]
            ELSE [kind |-> "code", instr |-> instr]
  <2> HIDE DEF instr
  <2> QED BY <1>4 DEF Running
<1>6. means = CASE item.kind = "label" -> [kind |-> "target"]
                [] item.kind = "jump"  -> [kind |-> "jump", op |-> item.op,
                                           to |-> Promise!PositionOf(s.calls, item.label)]
                [] OTHER -> item
  BY DEF Promise!Meaning
<1> HIDE DEF item, instr, run, means
<1>7. \A op, args : Instr(op, args).op = op /\ Instr(op, args).args = args
  BY DEF Instr
<1>8. CASE \E l \in 0 .. MaxLabels : item = LabelItem(l)
  <2>1. item.kind = "label" /\ Written(item) = Instr("TARGET", <<>>) /\ ~IsJumpCall(s, k)
    BY <1>8, CallFields, WrittenOf DEF IsJumpCall, item
  <2>2. run = [kind |-> "target"]
    BY <1>2, <1>5, <1>7, <2>1
  <2>3. means = [kind |-> "target"]
    BY <1>6, <2>1
  <2> QED BY <2>2, <2>3 DEF run, means
<1>9. CASE \E op \in JumpOps, l \in 0 .. MaxLabels : item = JumpItem(op, l)
  <2>1. PICK op \in JumpOps, l \in 0 .. MaxLabels : item = JumpItem(op, l)
    BY <1>9
  <2>2. item.kind = "jump" /\ item.op = op /\ item.label = l /\ IsJumpCall(s, k)
    BY <2>1, CallFields DEF IsJumpCall, item
  <2> DEFINE id == SequentialId(s, l)
  <2>3. l \in Placed(s)
    <3>1. PICK i \in 1 .. Len(s.fixups) : call[i] = k
      BY <2>2 DEF Kept, JumpsKept
    <3>2. s.fixups[i].label = l
      <4>1. s.fixups[i].label = s.calls[call[i]].label
        BY <3>1, FixupKept
      <4>2. s.calls[k].label = l
        BY <2>2 DEF item
      <4> QED BY <3>1, <4>1, <4>2
    <3>3. i \in DOMAIN s.fixups
      BY <3>1, LenProperties DEF BuilderSet
    <3>4. PlaceOf(s, l) # Unplaced
      BY <3>2, <3>3 DEF Missing
    <3>5. IsLabel(s, l) /\ l \in Nat /\ Len(s.label_positions) \in Nat
      BY <3>4, BuilderAssumption, LenProperties DEF PlaceOf, BuilderSet
    <3> QED BY <3>4, <3>5 DEF Placed, IsLabel
  <2>4. PICK j \in 1 .. n : IsLabelCall(s, j) /\ s.calls[j] = LabelItem(l)
    BY <2>3, PlacedCalls
  <2>5. s.calls[j].label = l
    BY <2>4, CallFields
  <2>6. id = CountTo(s, at, j - 1)
    BY <2>4, <2>5, LabelsCounted
  <2>7. PICK e \in Nat : e = id
    BY PlacedFinite
  <2>8. e + 1 \in 1 .. Len(p.jump_table) /\ p.jump_table[e + 1] = up[j - 1]
        /\ Len(p.jump_table) \in Nat
    <3>1. j <= n
      OBVIOUS
    <3>2. p.jump_table \in Seq(Nat) /\ Len(p.jump_table) = CountTo(s, at, n)
          /\ CountTo(s, at, j - 1) + 1 \in 1 .. CountTo(s, at, n)
          /\ p.jump_table[CountTo(s, at, j - 1) + 1] = up[j - 1]
      BY <1>3, <2>4, <3>1 DEF Found
    <3> QED BY <2>6, <2>7, <3>2, LenProperties
  <2>9. e < Len(p.jump_table)
    BY <2>8
  <2>10. PositionAt(items, up[j - 1]) = j
    <3>1. DOMAIN items = 1 .. n /\ \A i \in 1 .. n : items[i].offset = up[i - 1]
      BY <1>3 DEF ItemAt
    <3>2. PositionAt(items, up[j - 1]) = CHOOSE i \in 1 .. n : items[i].offset = up[j - 1]
      BY <3>1 DEF PositionAt
    <3> QED BY <1>3, <3>1, <3>2
  <2>11. Promise!PositionOf(s.calls, l) = j
    BY <2>4, OneCallPerLabel
  <2> HIDE DEF id
  <2>12. \E form \in DOMAIN JumpKinds :
            form # "TARGET" /\ JumpKinds[form] = op /\ instr = Instr(form, <<id>>)
    BY <1>2, <2>2, JumpForms DEF NarrowJump, WideJump, id
  <2>13. PICK form \in DOMAIN JumpKinds :
            form # "TARGET" /\ JumpKinds[form] = op /\ instr = Instr(form, <<id>>)
    BY <2>12
  <2>14. instr.op = form /\ instr.args[1] = e
    <3>1. <<id>>[1] = id
      OBVIOUS
    <3> QED BY <1>7, <2>7, <2>13, <3>1
  <2>15. run = [kind |-> "jump", op |-> op, to |-> j]
    BY <1>5, <2>8, <2>9, <2>10, <2>13, <2>14
  <2>16. means = [kind |-> "jump", op |-> op, to |-> j]
    BY <1>6, <2>2, <2>11
  <2> QED BY <2>15, <2>16 DEF run, means
<1>10. CASE \E val \in Constants : item = ConstItem(val)
  <2>1. PICK val \in Constants : item = ConstItem(val)
    BY <1>10
  <2>2. PICK m \in 1 .. WordBytes :
           /\ MinimalPush(val) = Instr(PushName[m], <<LowBytes(val, m)>>)
           /\ m = WordBytes \/ SignExtend(LowBytes(val, m)) = val
    BY PushWritable
  <2>3. /\ item.kind = "push" /\ item.kind # "label" /\ item.kind # "jump"
        /\ ~IsJumpCall(s, k) /\ Written(item) = MinimalPush(val)
    BY <2>1, CallFields, WrittenOf DEF IsJumpCall, item
  <2>4. instr.op = PushName[m] /\ instr.args[1] = LowBytes(val, m)
    <3>1. <<LowBytes(val, m)>>[1] = LowBytes(val, m)
      OBVIOUS
    <3> QED BY <1>2, <1>7, <2>2, <2>3, <3>1
  <2>5. SignExtend(instr.args[1]) = val
    BY <2>2, <2>4 DEF PlacesTargets, IsWord
  <2>6. IsConst(instr)
    BY <2>4 DEF IsConst
  <2>7. run = [kind |-> "push", val |-> val]
    BY <1>5, <2>4, <2>5, <2>6, PushesAreNoJumps
  <2>8. means = item
    BY <1>6, <2>3
  <2> QED BY <2>1, <2>7, <2>8 DEF run, means, ConstItem
<1>11. CASE \E code \in Emitted : item = CodeItem(code)
  <2>1. PICK code \in Emitted : item = CodeItem(code)
    BY <1>11
  <2>2. /\ item.kind = "code" /\ item.kind # "label" /\ item.kind # "jump"
        /\ ~IsJumpCall(s, k) /\ Written(item) = code
    BY <2>1, CallFields, WrittenOf DEF IsJumpCall, item
  <2>3. instr = code
    BY <1>2, <2>2
  <2>4. run = [kind |-> "code", instr |-> code]
    <3>1. IsOrdinary(code)
      <4>1. item.kind = "code" => IsOrdinary(item.instr)
        BY DEF item
      <4> QED BY <2>1, <4>1, CallFields
    <3> QED BY <1>5, <2>3, <3>1 DEF IsOrdinary
  <2>5. means = item
    BY <1>6, <2>2
  <2> QED BY <2>1, <2>4, <2>5 DEF run, means, CodeItem
<1> QED BY <1>1, <1>8, <1>9, <1>10, <1>11 DEF CallSet

--------------------------------------------------------------------------
(* build, and the steps of a client.                                       *)

\* What build asks of the labels is what Assembly asks of the calls.
LEMMA SameLabels ==
    ASSUME NEW s \in BuilderSet, NEW at, NEW call, Kept(s, at, call)
    PROVE  /\ Promise!Placed(s.calls) = Placed(s)
           /\ Promise!Used(s.calls) = Referenced(s)
           /\ Promise!UnusedLabels(s.calls) = UnusedOf(s)
           /\ Missing(s) = {} <=> Referenced(s) \subseteq Placed(s)
<1>1. PICK n \in Nat : n = Len(s.calls)
  BY WrittenSeq
<1>2. DOMAIN s.calls = 1 .. n /\ s.calls \in Seq(CallSet)
  BY <1>1, WrittenSeq DEF BuilderSet
<1>3. PICK m \in Nat : m = Len(s.fixups)
  BY LenProperties DEF BuilderSet
<1>4. DOMAIN s.fixups = 1 .. m
  BY <1>3, LenProperties DEF BuilderSet
<1>5. \A l \in Placed(s) : \E k \in 1 .. n :
         IsLabelCall(s, k) /\ s.calls[k] = LabelItem(l) /\ PlaceOf(s, l) = at[k - 1]
  BY <1>1, PlacedCalls
<1>6. \A k \in 1 .. n : IsLabelCall(s, k) => s.calls[k].label \in Placed(s)
  BY <1>1, PlacedCalls
<1>7. Promise!Placed(s.calls) = Placed(s)
  <2>1. Promise!Placed(s.calls) =
           {s.calls[k].label : k \in {k \in 1 .. n : s.calls[k].kind = "label"}}
    BY <1>2 DEF Promise!Placed
  <2>2. ASSUME NEW l \in Placed(s)
        PROVE  \E k \in {k \in 1 .. n : s.calls[k].kind = "label"} : l = s.calls[k].label
    <3>1. PICK k \in 1 .. n : s.calls[k] = LabelItem(l)
      BY <1>5
    <3> QED BY <3>1, CallFields
  <2>3. \A k \in {k \in 1 .. n : s.calls[k].kind = "label"} : s.calls[k].label \in Placed(s)
    BY <1>6 DEF IsLabelCall
  <2> QED BY <2>1, <2>2, <2>3
<1>8. Promise!Used(s.calls) = Referenced(s)
  <2>1. Promise!Used(s.calls) =
           {s.calls[k].label : k \in {k \in 1 .. n : s.calls[k].kind = "jump"}}
    BY <1>2 DEF Promise!Used
  <2>2. Referenced(s) = {s.fixups[j].label : j \in 1 .. m}
    BY <1>4 DEF Referenced
  <2>3. \A j \in 1 .. m : /\ call[j] \in 1 .. n /\ IsJumpCall(s, call[j])
                          /\ s.fixups[j].label = s.calls[call[j]].label
    BY <1>1, <1>3, FixupKept
  <2>4. \A k \in 1 .. n : IsJumpCall(s, k) => \E j \in 1 .. m : call[j] = k
    BY <1>1, <1>3 DEF Kept, JumpsKept
  <2>5. ASSUME NEW j \in 1 .. m
        PROVE  \E k \in {k \in 1 .. n : s.calls[k].kind = "jump"} :
                  s.fixups[j].label = s.calls[k].label
    BY <2>3 DEF IsJumpCall
  <2>6. ASSUME NEW k \in 1 .. n, s.calls[k].kind = "jump"
        PROVE  \E j \in 1 .. m : s.calls[k].label = s.fixups[j].label
    <3>1. PICK j \in 1 .. m : call[j] = k
      BY <2>4, <2>6 DEF IsJumpCall
    <3> QED BY <2>3, <3>1
  <2> QED BY <2>1, <2>2, <2>5, <2>6
<1>9. ASSUME NEW l \in Placed(s)
      PROVE  Promise!PositionOf(s.calls, l) # 1 <=> PlaceOf(s, l) # 0
  <2>1. PICK k \in 1 .. n : s.calls[k] = LabelItem(l) /\ PlaceOf(s, l) = at[k - 1]
    BY <1>5
  <2>2. Promise!PositionOf(s.calls, l) = k
    BY <1>1, <2>1, OneCallPerLabel
  <2>3. /\ \A i \in 0 .. n : at[i] \in Nat
        /\ at[0] = 0
        /\ \A i, j \in 0 .. n : at[i] < at[j] <=> i < j
    BY <1>1, PlacedCalls
  <2>4. 0 \in 0 .. n /\ k - 1 \in 0 .. n /\ (0 < k - 1 <=> k # 1)
    OBVIOUS
  <2>5. 0 < at[k - 1] <=> k # 1
    BY <2>3, <2>4
  <2>6. at[k - 1] \in Nat
    BY <2>3, <2>4
  <2>7. at[k - 1] # 0 <=> k # 1
    BY <2>5, <2>6
  <2> QED BY <2>1, <2>2, <2>7
<1>10. Promise!UnusedLabels(s.calls) = UnusedOf(s)
  <2>1. Promise!UnusedLabels(s.calls) =
           {l \in Placed(s) \ Referenced(s) : Promise!PositionOf(s.calls, l) # 1}
    BY <1>7, <1>8 DEF Promise!UnusedLabels
  <2> QED BY <1>9, <2>1 DEF UnusedOf
<1>11. \A j \in 1 .. m : PlaceOf(s, s.fixups[j].label) # Unplaced
                            <=> s.fixups[j].label \in Placed(s)
  <2> TAKE j \in 1 .. m
  <2>1. PICK l \in 0 .. MaxLabels : s.fixups[j].label = l
    BY <1>3, FixupKept
  <2>2. l \in Nat /\ Len(s.label_positions) \in Nat
    BY BuilderAssumption, LenProperties DEF BuilderSet
  <2>3. ASSUME PlaceOf(s, l) # Unplaced PROVE l \in Placed(s)
    <3>1. IsLabel(s, l)
      BY <2>3 DEF PlaceOf
    <3> QED BY <2>2, <2>3, <3>1 DEF Placed, IsLabel
  <2>4. ASSUME l \in Placed(s) PROVE PlaceOf(s, l) # Unplaced
    BY <2>4 DEF Placed
  <2> QED BY <2>1, <2>3, <2>4
<1>12. Missing(s) = {} <=> Referenced(s) \subseteq Placed(s)
  <2>1. Missing(s) = {} <=> \A j \in 1 .. m : PlaceOf(s, s.fixups[j].label) # Unplaced
    BY <1>4 DEF Missing
  <2>2. Referenced(s) \subseteq Placed(s) <=> \A j \in 1 .. m : s.fixups[j].label \in Placed(s)
    BY <1>4 DEF Referenced
  <2> QED BY <1>11, <2>1, <2>2
<1> QED BY <1>7, <1>8, <1>10, <1>12

\* The outcome the refinement gives to what build returned.
OutcomeOf(result) ==
    IF result.status = "ok" THEN [status |-> "ok", program |-> result.meaning]
    ELSE [status |-> result.status]

\* What build returns when there is nothing wrong.
BuildsTo(s, n, result) ==
    /\ result.status = "ok" /\ result.meaning = [k \in 1 .. n |-> result.meaning[k]]
    /\ \A k \in 1 .. n :
          (s.calls[k].kind = "code" => IsOrdinary(s.calls[k].instr)) =>
             result.meaning[k] = Promise!Meaning(s.calls, s.calls[k])

LEMMA BuiltRuns ==
    ASSUME PlacesTargets, NEW s \in BuilderSet, NEW at, NEW call, Kept(s, at, call),
           NEW n \in Nat, n = Len(s.calls),
           Missing(s) = {}, UnusedOf(s) = {}, ~(Cardinality(Placed(s)) > WideLabels)
    PROVE  BuildsTo(s, n, BuildOf(s))
<1> DEFINE p == NewProgram(Narrowed(s))
           stream == Stream(Narrowed(s))
<1>1. BuildOf(s) = BuiltAs(p)
  BY DEF BuildOf
<1>2. PICK up : Spells(Narrowed(s), up, BuiltFrom(s))
  BY NarrowedSpells
<1>3. stream = [k \in 1 .. n |-> ItemAt(up, BuiltFrom(s), k)]
  BY <1>2, TableFound
<1>4. DOMAIN stream = 1 .. n
  BY <1>3
<1>5. p.code = Narrowed(s)
  BY DEF NewProgram
<1>6. Behaviour(p) = [k \in 1 .. n |-> Running(p, stream, stream[k])]
  BY <1>4, <1>5 DEF Behaviour, BehaviourOf
<1>7. ASSUME NEW k \in 1 .. n, s.calls[k].kind = "code" => IsOrdinary(s.calls[k].instr)
      PROVE  Running(p, stream, stream[k]) = Promise!Meaning(s.calls, s.calls[k])
  BY <1>2, <1>7, RunsAsMeant
<1> HIDE DEF p, stream
<1>8. BuiltAs(p).status = "ok" /\ BuiltAs(p).meaning = Behaviour(p)
  BY DEF BuiltAs
<1>9. BuildsTo(s, n, BuiltAs(p))
  BY <1>6, <1>7, <1>8 DEF BuildsTo
<1> QED BY <1>1, <1>9

LEMMA BuildMeans ==
    ASSUME OrdinaryClient, NEW s \in BuilderSet, NEW at, NEW call, Kept(s, at, call)
    PROVE  OutcomeOf(BuildOf(s)) = Promise!Finished(s.calls)
<1>1. /\ Promise!Placed(s.calls) = Placed(s)
      /\ Promise!Used(s.calls) = Referenced(s)
      /\ Promise!UnusedLabels(s.calls) = UnusedOf(s)
      /\ Missing(s) = {} <=> Referenced(s) \subseteq Placed(s)
  BY SameLabels
<1>0. \A S : Promise!Cardinality(S) = Cardinality(S)
  BY DEF Promise!Cardinality, Cardinality
<1> DEFINE finished == Promise!Finished(s.calls)
           means == [k \in DOMAIN s.calls |-> Promise!Meaning(s.calls, s.calls[k])]
<1>2. finished = IF ~(Referenced(s) \subseteq Placed(s)) THEN [status |-> "UnplacedLabel"]
                 ELSE IF UnusedOf(s) # {} THEN [status |-> "UnusedLabel"]
                 ELSE IF Cardinality(Placed(s)) > WideLabels
                 THEN [status |-> "TooManyTargets"]
                 ELSE [status |-> "ok", program |-> means]
  BY <1>0, <1>1 DEF Promise!Finished, Promise!Refused, Promise!Done
<1> HIDE DEF finished, means
<1>3. \A error, id : OutcomeOf(BuildError(error, id)) =
         IF error = "ok" THEN OutcomeOf(BuildError(error, id)) ELSE [status |-> error]
  BY DEF OutcomeOf, BuildError
<1>4. CASE Missing(s) # {}
  <2>1. BuildOf(s) = BuildError("UnplacedLabel", s.fixups[Min(Missing(s))].label)
    BY <1>4 DEF BuildOf
  <2>2. OutcomeOf(BuildOf(s)) = [status |-> "UnplacedLabel"]
    BY <1>3, <2>1
  <2> QED BY <1>1, <1>2, <1>4, <2>2 DEF finished
<1>5. CASE Missing(s) = {} /\ UnusedOf(s) # {}
  <2>1. BuildOf(s) = BuildError("UnusedLabel", Min(UnusedOf(s)))
    BY <1>5 DEF BuildOf
  <2>2. OutcomeOf(BuildOf(s)) = [status |-> "UnusedLabel"]
    BY <1>3, <2>1
  <2> QED BY <1>1, <1>2, <1>5, <2>2 DEF finished
<1>6. CASE Missing(s) = {} /\ UnusedOf(s) = {} /\ Cardinality(Placed(s)) > WideLabels
  <2>1. BuildOf(s) = BuildError("TooManyTargets", Cardinality(Placed(s)))
    BY <1>6 DEF BuildOf
  <2>2. OutcomeOf(BuildOf(s)) = [status |-> "TooManyTargets"]
    BY <1>3, <2>1
  <2> QED BY <1>1, <1>2, <1>6, <2>2 DEF finished
<1>7. CASE Missing(s) = {} /\ UnusedOf(s) = {} /\ ~(Cardinality(Placed(s)) > WideLabels)
  <2>1. PICK n \in Nat : n = Len(s.calls)
    BY WrittenSeq
  <2>2. DOMAIN s.calls = 1 .. n /\ s.calls \in Seq(CallSet)
    BY <2>1, WrittenSeq DEF BuilderSet
  <2> DEFINE result == BuildOf(s)
  <2>3. /\ result.status = "ok" /\ result.meaning = [k \in 1 .. n |-> result.meaning[k]]
        /\ \A k \in 1 .. n :
              (s.calls[k].kind = "code" => IsOrdinary(s.calls[k].instr)) =>
                 result.meaning[k] = Promise!Meaning(s.calls, s.calls[k])
    <3>1. BuildsTo(s, n, result)
      BY <1>7, <2>1, BuiltRuns DEF OrdinaryClient
    <3> HIDE DEF result
    <3> QED BY <3>1 DEF BuildsTo
  <2> HIDE DEF result
  <2>4. ASSUME NEW k \in 1 .. n, s.calls[k].kind = "code" PROVE IsOrdinary(s.calls[k].instr)
    <3>1. s.calls[k] \in CallSet
      BY <2>1, <2>2, ElementOfSeq
    <3>2. PICK instr \in Emitted : s.calls[k] = CodeItem(instr)
      BY <2>4, <3>1, CallFields DEF CallSet
    <3> QED BY <3>2, CallFields DEF OrdinaryClient
  <2>5. \A k \in 1 .. n : result.meaning[k] = Promise!Meaning(s.calls, s.calls[k])
    BY <2>3, <2>4
  <2>6. result.meaning = means
    BY <2>2, <2>3, <2>5 DEF means
  <2>7. OutcomeOf(result) = [status |-> "ok", program |-> result.meaning]
    BY <2>3 DEF OutcomeOf
  <2> QED BY <1>1, <1>2, <1>7, <2>6, <2>7 DEF finished, result
<1> QED BY <1>4, <1>5, <1>6, <1>7

\* A call records its item and leaves the other calls as they were.
LEMMA CallsRecorded ==
    ASSUME NEW s \in BuilderSet
    PROVE  /\ WithLabel(s).calls = s.calls
           /\ \A instr, item : Writes(s, instr, item).calls = Append(s.calls, item)
           /\ \A l : PlaceIn(s, l).calls = Append(s.calls, LabelItem(l))
           /\ \A op, l : EmitJumpTo(s, op, l).calls = Append(s.calls, JumpItem(op, l))
<1>1. WithLabel(s).calls = s.calls
  BY DEF WithLabel, BuilderSet
<1>2. \A instr, item : Writes(s, instr, item).calls = Append(s.calls, item)
  BY DEF Writes, BuilderSet
<1>3. \A l : PlaceIn(s, l).calls = Append(s.calls, LabelItem(l))
  BY DEF PlaceIn, Writes, BuilderSet
<1>4. \A op, l : EmitJumpTo(s, op, l).calls = Append(s.calls, JumpItem(op, l))
  <2> TAKE op, l
  <2> DEFINE r == Writes(s, Instr(WideForm(op), <<WideLabels - 1>>), JumpItem(op, l))
             f == [site |-> Len(s.buf), kind |-> op, label |-> l]
  <2>1. r.calls = Append(s.calls, JumpItem(op, l))
    BY <1>2
  <2>2. EmitJumpTo(s, op, l) = [r EXCEPT !.fixups = Append(@, f)]
    BY DEF EmitJumpTo
  <2>3. [r EXCEPT !.fixups = Append(@, f)].calls = r.calls
    BY DEF Writes, BuilderSet
  <2> QED BY <2>1, <2>2, <2>3
<1> QED BY <1>1, <1>2, <1>3, <1>4

LEMMA CallImplements ==
    ASSUME BuilderInv, IsOpen, UNCHANGED built, NEW item \in CallSet,
           b'.calls = Append(b.calls, item),
           item.kind = "label" => item.label \notin Placed(b)
    PROVE  Promise!Next
<1>1. Promise!Placed(b.calls) = Placed(b)
  BY SameLabels DEF BuilderInv
<1>2. OutcomeOf(built) = [status |-> "open"]
  BY DEF OutcomeOf, IsOpen
<1> QED BY <1>1, <1>2 DEF Promise!Next, Promise!Write, Promise!Open, CallSet, JumpOps, OutcomeOf

LEMMA BuildImplements ==
    ASSUME OrdinaryClient, BuilderInv, CallBuild
    PROVE  Promise!Next
<1>1. IsOpen /\ built' = BuildOf(b) /\ UNCHANGED b
  BY DEF CallBuild
<1>2. OutcomeOf(built) = [status |-> "open"]
  BY <1>1 DEF OutcomeOf, IsOpen
<1>3. OutcomeOf(BuildOf(b)) = Promise!Finished(b.calls)
  BY BuildMeans DEF BuilderInv
<1>4. OutcomeOf(built)' = Promise!Finished(b.calls)
  BY <1>1, <1>3 DEF OutcomeOf
<1>5. UNCHANGED b.calls
  BY <1>1
<1> QED BY <1>2, <1>4, <1>5 DEF Promise!Next, Promise!Finish, Promise!Open, OutcomeOf

LEMMA StepImplements ==
    ASSUME OrdinaryClient, BuilderInv, [ClientNext]_builderVars
    PROVE  [Promise!Next]_<<b.calls, OutcomeOf(built)>>
<1> DEFINE stays == UNCHANGED <<b.calls, OutcomeOf(built)>>
<1>1. b \in BuilderSet
  BY DEF BuilderInv
<1>2. CASE UNCHANGED builderVars
  BY <1>2 DEF builderVars
<1>3. CASE CallLabel
  <2>1. b' = WithLabel(b) /\ UNCHANGED built
    BY <1>3 DEF CallLabel, Calls
  <2>2. b'.calls = b.calls
    BY <1>1, <2>1, CallsRecorded
  <2> QED BY <2>1, <2>2 DEF OutcomeOf
<1>4. ASSUME NEW l \in 0 .. MaxLabels, CallPlace(l)
      PROVE  Promise!Next \/ stays
  <2>1. CASE PlaceError(b, l) = "none"
    <3>1. IsOpen /\ b' = PlaceIn(b, l) /\ UNCHANGED built
      BY <1>4, <2>1 DEF CallPlace, Calls
    <3>2. b'.calls = Append(b.calls, LabelItem(l))
      BY <1>1, <3>1, CallsRecorded
    <3>3. LabelItem(l) \in CallSet /\ LabelItem(l).label = l
      BY CallFields DEF CallSet
    <3>4. l \notin Placed(b)
      BY <2>1 DEF PlaceError, Placed
    <3> QED BY <3>1, <3>2, <3>3, <3>4, CallImplements
  <2>2. CASE PlaceError(b, l) # "none"
    <3>1. b' = b /\ UNCHANGED built
      BY <1>4, <2>2 DEF CallPlace, Calls
    <3> QED BY <3>1 DEF OutcomeOf
  <2> QED BY <2>1, <2>2
<1>5. ASSUME NEW l \in 0 .. MaxLabels, NEW kind \in {"Jump", "JumpIf"}, CallJump(kind, l)
      PROVE  Promise!Next
  <2>1. IsOpen /\ b' = EmitJumpTo(b, kind, l) /\ UNCHANGED built
    BY <1>5 DEF CallJump, Calls
  <2>2. b'.calls = Append(b.calls, JumpItem(kind, l))
    BY <1>1, <2>1, CallsRecorded
  <2>3. JumpItem(kind, l) \in CallSet /\ JumpItem(kind, l).kind # "label"
    BY CallFields DEF CallSet, JumpOps
  <2> QED BY <2>1, <2>2, <2>3, CallImplements
<1>6. ASSUME NEW instr \in Emitted, CallEmit(instr) PROVE Promise!Next
  <2>1. IsOpen /\ b' = Writes(b, instr, CodeItem(instr)) /\ UNCHANGED built
    BY <1>6 DEF CallEmit, Calls, EmitTo
  <2>2. b'.calls = Append(b.calls, CodeItem(instr))
    BY <1>1, <2>1, CallsRecorded
  <2>3. CodeItem(instr) \in CallSet /\ CodeItem(instr).kind # "label"
    BY CallFields DEF CallSet
  <2> QED BY <2>1, <2>2, <2>3, CallImplements
<1>7. ASSUME NEW val \in Constants, CallPush(val) PROVE Promise!Next
  <2>1. IsOpen /\ b' = Writes(b, MinimalPush(val), ConstItem(val)) /\ UNCHANGED built
    BY <1>7 DEF CallPush, Calls, EmitPush
  <2>2. b'.calls = Append(b.calls, ConstItem(val))
    BY <1>1, <2>1, CallsRecorded
  <2>3. ConstItem(val) \in CallSet /\ ConstItem(val).kind # "label"
    BY CallFields DEF CallSet
  <2> QED BY <2>1, <2>2, <2>3, CallImplements
<1>8. CASE CallBuild
  BY <1>8, BuildImplements
<1> QED BY <1>2, <1>3, <1>4, <1>5, <1>6, <1>7, <1>8 DEF ClientNext, builderVars

\* The builder implements Assembly.  Whatever an ordinary client writes, in any
\* order: every call writes its item or, if place refuses it, nothing; and build
\* refuses exactly what Assembly refuses, or returns a program in which each
\* jump, narrow or wide, goes to the TARGET of its label, each constant has its
\* value in the width chosen for it, and the rest is as it was written.
THEOREM BuilderImplements ==
    ASSUME OrdinaryClient
    PROVE  BuilderSpec => KeepsItsPromise
<1>1. BuilderInit => Promise!Init
  <2> SUFFICES ASSUME BuilderInit PROVE Promise!Init
    OBVIOUS
  <2>1. b.calls = <<>>
    BY DEF BuilderInit, NewBuilder
  <2>2. built.status = "open"
    BY DEF BuilderInit
  <2> QED BY <2>1, <2>2 DEF Promise!Init, Promise!Open
<1>2. BuilderInv /\ [ClientNext]_builderVars => [Promise!Next]_<<b.calls, OutcomeOf(built)>>
  BY StepImplements
<1>3. EmitsInstructions
  BY DEF OrdinaryClient, PlacesTargets
<1>4. BuilderInv /\ [ClientNext]_builderVars => BuilderInv'
  BY <1>3, NextKeeps
<1> QED BY <1>1, <1>2, <1>4, KeptInitially, PTL
         DEF BuilderSpec, KeepsItsPromise, Promise!Spec, OutcomeOf

--------------------------------------------------------------------------
(* The assembler: which lines, what it knows, and that each of its steps   *)
(* is a step of an ordinary client.                                        *)

\* The labels the lines name, in their definitions and in their jumps.
LabelNames == UNION {DefinedBy(line) \cup ReferredBy(line) : line \in Lines}

\* What a line that is neither a label, a jump nor a constant stands for.
OtherInstr(line) ==
    Instr(line.mnemonic, [k \in DOMAIN line.operands |-> line.operands[k].value])

\* Lines of which none is a bare TARGET: the labels, the constants and the other
\* instructions they name are within what the builder's client may use.
OrdinarySource ==
    /\ PlacesTargets
    /\ IsFiniteSet(LabelNames) /\ Cardinality(LabelNames) <= MaxLabels
    /\ \A line \in Lines :
          /\ Mnemonic(line, {"PUSH", "PUSHC"}) /\ Len(line.operands) = 1
                /\ line.operands[1].kind = "integer"
             => line.operands[1].value \in Constants
          /\ line.kind = "instruction" /\ InstrError(line) = "none"
                /\ line.mnemonic \notin {"JUMP", "JUMPI", "PUSH", "PUSHC"}
                /\ (line.mnemonic = "TARGET" => line.operands = <<>>)
             => OtherInstr(line) \in Emitted

--------------------------------------------------------------------------
(* The invariant: each call of the builder is that of one line, and the    *)
(* label map gives each name a label of its own.                           *)

Names(map, s) ==
    /\ IsFiniteSet(DOMAIN map) /\ Cardinality(DOMAIN map) = Len(s.label_positions)
    /\ DOMAIN map \subseteq LabelNames
    /\ \A n \in DOMAIN map :
          /\ map[n].id \in 0 .. Len(s.label_positions) - 1
          /\ map[n].placed = (PlaceOf(s, map[n].id) # Unplaced)
          /\ \A m \in DOMAIN map : map[m].id = map[n].id => m = n

\* The call a line makes.
Answers(map, line, item) ==
    /\ \A n \in DefinedBy(line) : n \in DOMAIN map /\ item = LabelItem(map[n].id)
    /\ \A n \in ReferredBy(line) :
          n \in DOMAIN map /\ item = JumpItem(JumpKind(line), map[n].id)
    /\ Mnemonic(line, {"PUSH"}) => item = ConstItem(line.operands[1].value)
    /\ item.kind = "label" => DefinedBy(line) # {}
    /\ item.kind = "jump" => ReferredBy(line) # {}

Follows(map, calls, lines) ==
    \A k \in 1 .. Len(calls) : Answers(map, lines[k], calls[k])

\* Errors of a line by itself.
LineErrors == {"UnknownMnemonic", "WrongOperandCount", "WrongOperandKind"}

\* What build returned, and the outcome the assembler makes of it.
BuildStatus(s) ==
    IF Missing(s) # {} THEN "UnplacedLabel"
    ELSE IF UnusedOf(s) # {} THEN "UnusedLabel"
    ELSE IF Cardinality(Placed(s)) > WideLabels THEN "TooManyTargets"
    ELSE "ok"
EndStatus(s) ==
    IF BuildStatus(s) = "UnplacedLabel" THEN "UndefinedLabel" ELSE BuildStatus(s)
EndOutcome(result) ==
    IF result.status = "ok" THEN [status |-> "ok"] ELSE ConvertBuildError(result)

OutcomeInv ==
    LET read == Len(source)
        called == Len(b.calls)
    IN  \/ /\ outcome.status = "reading" /\ built.status = "open"
           /\ read = called
        \/ /\ outcome.status \in LineErrors \cup {"DuplicateLabel"} /\ built.status = "open"
           /\ read = called + 1
           /\ outcome.status = "DuplicateLabel" =>
                 DefinedBy(source[read]) = {outcome.label} /\ IsPlaced(outcome.label)
        \/ /\ built = BuildOf(b)
           /\ outcome = EndOutcome(built)
           /\ read = called

AssemblerInv ==
    /\ BuilderInv
    /\ source \in Seq(Lines)
    /\ Names(label_map, b)
    /\ Follows(label_map, b.calls, source)
    /\ OutcomeInv

LEMMA AssembledInitially == AssemblerInit => AssemblerInv
<1> SUFFICES ASSUME AssemblerInit PROVE AssemblerInv
  OBVIOUS
<1>1. /\ b.label_positions = <<>> /\ b.calls = <<>> /\ built.status = "open"
      /\ source = <<>> /\ label_map = <<>> /\ outcome.status = "reading"
  BY DEF AssemblerInit, BuilderInit, NewBuilder
<1>2. BuilderInv
  BY KeptInitially DEF AssemblerInit
<1>3. Names(label_map, b)
  <2>1. DOMAIN label_map = {} /\ Len(b.label_positions) = 0
    BY <1>1
  <2> QED BY <2>1, FS_EmptySet DEF Names
<1>4. Follows(label_map, b.calls, source)
  BY <1>1 DEF Follows
<1>5. source \in Seq(Lines)
  BY <1>1
<1>6. OutcomeInv
  BY <1>1 DEF OutcomeInv
<1> QED BY <1>2, <1>3, <1>4, <1>5, <1>6 DEF AssemblerInv

LEMMA InstrErrors == \A line : InstrError(line) \in LineErrors \cup {"none"}
<1>1. \A field, operand : OperandError(field, operand) \in LineErrors \cup {"none"}
  BY DEF OperandError, LineErrors
<1> QED BY <1>1 DEF InstrError, LineErrors

--------------------------------------------------------------------------
(* Labels.                                                                 *)

\* Every name keeps its label.
Extends(map, more) ==
    \A n \in DOMAIN map : n \in DOMAIN more /\ more[n].id = map[n].id

LEMMA InsertTwice ==
    \A map, n, e, f : Insert(OrInsert(map, n, e), n, f) = Insert(map, n, f)
<1> TAKE map, n, e, f
<1>1. CASE n \in DOMAIN map
  BY <1>1 DEF OrInsert
<1>2. CASE n \notin DOMAIN map
  <2> DEFINE mid == Insert(map, n, e)
  <2>1. DOMAIN mid = DOMAIN map \cup {n} /\ \A m \in DOMAIN map : m # n => mid[m] = map[m]
    BY DEF Insert
  <2>2. (DOMAIN map \cup {n}) \cup {n} = DOMAIN map \cup {n}
    OBVIOUS
  <2> HIDE DEF mid
  <2>3. Insert(mid, n, f) = [m \in DOMAIN map \cup {n} |-> IF m = n THEN f ELSE map[m]]
    BY <2>1, <2>2 DEF Insert
  <2>4. Insert(map, n, f) = [m \in DOMAIN map \cup {n} |-> IF m = n THEN f ELSE map[m]]
    BY DEF Insert
  <2> QED BY <1>2, <2>3, <2>4 DEF OrInsert, mid
<1> QED BY <1>1, <1>2

\* A map with an entry for the name, of the same label if it had one.
Allots(n, s, map) ==
    /\ s \in BuilderSet /\ (\E at, call : Kept(s, at, call))
    /\ s.calls = b.calls
    /\ Names(map, s) /\ Extends(label_map, map)
    /\ n \in DOMAIN map /\ map[n].id = IdOf(n)
    /\ IdOf(n) \in 0 .. MaxLabels
    /\ ~IsPlaced(n) => PlaceOf(s, IdOf(n)) = Unplaced

LEMMA Allocates ==
    ASSUME OrdinarySource, BuilderInv, Names(label_map, b), NEW n \in LabelNames
    PROVE  Allots(n, Allocated(n), OrInsert(label_map, n, [id |-> IdOf(n), placed |-> FALSE]))
<1> DEFINE z == Len(b.label_positions)
           entry == [id |-> IdOf(n), placed |-> FALSE]
           map == OrInsert(label_map, n, entry)
           s == Allocated(n)
<1>1. b \in BuilderSet
  BY DEF BuilderInv
<1>2. PICK at, call : Kept(b, at, call)
  BY DEF BuilderInv
<1>3. b.label_positions \in Seq(Nat \cup {Unplaced}) /\ z \in Nat
  BY <1>1, LenProperties DEF BuilderSet
<1>4. MaxLabels \in Nat /\ Cardinality(LabelNames) \in Nat /\ Cardinality(LabelNames) <= MaxLabels
      /\ IsFiniteSet(LabelNames)
  BY BuilderAssumption, FS_CardinalityType DEF OrdinarySource
<1>5. /\ IsFiniteSet(DOMAIN label_map) /\ Cardinality(DOMAIN label_map) = z
      /\ DOMAIN label_map \subseteq LabelNames
      /\ \A m \in DOMAIN label_map :
            /\ label_map[m].id \in 0 .. z - 1
            /\ label_map[m].placed = (PlaceOf(b, label_map[m].id) # Unplaced)
            /\ \A o \in DOMAIN label_map : label_map[o].id = label_map[m].id => o = m
  BY DEF Names
<1>6. CASE n \in DOMAIN label_map
  <2>1. s = b /\ map = label_map /\ IdOf(n) = label_map[n].id
    BY <1>6 DEF Allocated, Known, OrInsert, IdOf
  <2>2. z <= MaxLabels
    <3>1. z <= Cardinality(LabelNames)
      BY <1>4, <1>5, FS_Subset
    <3> QED BY <1>3, <1>4, <3>1
  <2>3. IdOf(n) \in 0 .. z - 1
    BY <1>5, <1>6, <2>1
  <2>4. IdOf(n) \in 0 .. MaxLabels
    BY <1>3, <1>4, <2>2, <2>3
  <2>5. ~IsPlaced(n) => PlaceOf(s, IdOf(n)) = Unplaced
    BY <1>5, <1>6, <2>1 DEF IsPlaced, Known
  <2>6. Extends(label_map, map)
    BY <2>1 DEF Extends
  <2> QED BY <1>1, <1>2, <1>6, <2>1, <2>4, <2>5, <2>6 DEF Allots
<1>7. CASE n \notin DOMAIN label_map
  <2>1. s = WithLabel(b) /\ map = Insert(label_map, n, entry) /\ IdOf(n) = z
    BY <1>7 DEF Allocated, Known, OrInsert, IdOf
  <2>2. s \in BuilderSet /\ Kept(s, at, call)
    BY <1>1, <1>2, <2>1, LabelKeeps
  <2>3. s.calls = b.calls /\ s.label_positions = Append(b.label_positions, Unplaced)
    BY <1>1, <2>1 DEF WithLabel, BuilderSet
  <2>4. Len(s.label_positions) = z + 1 /\ s.label_positions[z + 1] = Unplaced
        /\ \A i \in 1 .. z : s.label_positions[i] = b.label_positions[i]
    BY <1>3, <2>3, AppendProperties
  <2>5. PlaceOf(s, z) = Unplaced
    BY <1>3, <2>4 DEF PlaceOf, IsLabel
  <2>6. \A l \in 0 .. z - 1 : PlaceOf(s, l) = PlaceOf(b, l)
    <3> TAKE l \in 0 .. z - 1
    <3>1. l + 1 \in 1 .. z /\ l < z /\ l < z + 1
      BY <1>3
    <3> QED BY <2>4, <3>1 DEF PlaceOf, IsLabel
  <2>7. /\ DOMAIN map = DOMAIN label_map \cup {n} /\ map[n] = entry
        /\ \A m \in DOMAIN label_map : map[m] = label_map[m]
    BY <1>7, <2>1 DEF Insert
  <2>8. entry.id = z /\ entry.placed = FALSE
    BY <2>1
  <2> HIDE DEF entry, map, s, z
  <2>9. /\ IsFiniteSet(DOMAIN map) /\ Cardinality(DOMAIN map) = z + 1
        /\ DOMAIN map \subseteq LabelNames
    BY <1>5, <1>7, <2>7, FS_AddElement
  <2>10. z + 1 <= MaxLabels
    <3>1. z + 1 <= Cardinality(LabelNames)
      BY <1>4, <2>9, FS_Subset
    <3> QED BY <1>3, <1>4, <3>1
  <2>11. ASSUME NEW m \in DOMAIN map
         PROVE  /\ map[m].id \in 0 .. (z + 1) - 1
                /\ map[m].placed = (PlaceOf(s, map[m].id) # Unplaced)
                /\ \A o \in DOMAIN map : map[o].id = map[m].id => o = m
    <3>1. CASE m = n
      <4>1. map[m].id = z /\ map[m].placed = FALSE
        BY <2>7, <2>8, <3>1
      <4>2. \A o \in DOMAIN label_map : map[o].id # z
        <5> TAKE o \in DOMAIN label_map
        <5>1. map[o].id \in 0 .. z - 1
          BY <1>5, <2>7
        <5> QED BY <1>3, <5>1
      <4>3. z \in 0 .. (z + 1) - 1
        BY <1>3
      <4> QED BY <2>5, <2>7, <3>1, <4>1, <4>2, <4>3
    <3>2. CASE m # n
      <4>1. m \in DOMAIN label_map /\ map[m] = label_map[m]
        BY <2>7, <3>2
      <4>2. map[m].id \in 0 .. z - 1
        BY <1>5, <4>1
      <4>3. map[m].id # z /\ map[m].id \in 0 .. (z + 1) - 1
        BY <1>3, <4>2
      <4>4. map[m].placed = (PlaceOf(s, map[m].id) # Unplaced)
        BY <1>5, <2>6, <4>1, <4>2
      <4>5. \A o \in DOMAIN map : map[o].id = map[m].id => o = m
        BY <1>5, <2>7, <2>8, <4>1, <4>3
      <4> QED BY <4>3, <4>4, <4>5
    <3> QED BY <3>1, <3>2
  <2>12. Names(map, s)
    BY <2>4, <2>9, <2>11 DEF Names
  <2>13. IdOf(n) \in 0 .. MaxLabels
    BY <1>3, <1>4, <2>1, <2>10
  <2>14. Extends(label_map, map) /\ n \in DOMAIN map /\ map[n].id = IdOf(n)
    BY <2>1, <2>7, <2>8 DEF Extends
  <2> QED BY <2>1, <2>2, <2>3, <2>5, <2>12, <2>13, <2>14 DEF Allots, map, s, entry
<1> QED BY <1>6, <1>7

LEMMA NamesStay ==
    ASSUME NEW map, NEW s, NEW t, Names(map, s), t.label_positions = s.label_positions
    PROVE  Names(map, t)
BY DEF Names, PlaceOf, IsLabel

\* A label of the map that is placed.
LEMMA NamePlaced ==
    ASSUME NEW map, NEW s \in BuilderSet, Names(map, s), NEW n \in DOMAIN map,
           NEW l \in Nat, l = map[n].id
    PROVE  Names(Insert(map, n, [id |-> l, placed |-> TRUE]), PlaceIn(s, l))
<1> DEFINE z == Len(s.label_positions)
           t == PlaceIn(s, l)
           entry == [id |-> l, placed |-> TRUE]
           more == Insert(map, n, entry)
           places == [s.label_positions EXCEPT ![l + 1] = Len(s.buf)]
<1>1. s.label_positions \in Seq(Nat \cup {Unplaced}) /\ z \in Nat /\ Len(s.buf) \in Nat
  BY LenProperties DEF BuilderSet
<1>2. /\ IsFiniteSet(DOMAIN map) /\ Cardinality(DOMAIN map) = z
      /\ DOMAIN map \subseteq LabelNames
      /\ \A m \in DOMAIN map :
            /\ map[m].id \in 0 .. z - 1
            /\ map[m].placed = (PlaceOf(s, map[m].id) # Unplaced)
            /\ \A o \in DOMAIN map : map[o].id = map[m].id => o = m
  BY DEF Names
<1>3. t.label_positions = places
  BY DEF PlaceIn, Writes, BuilderSet
<1>4. l \in 0 .. z - 1 /\ l + 1 \in 1 .. z /\ l < z
  <2>1. l \in 0 .. z - 1
    BY <1>2
  <2> QED BY <1>1, <2>1
<1>5. /\ Len(places) = z /\ places[l + 1] = Len(s.buf)
      /\ \A i \in 1 .. z : i # l + 1 => places[i] = s.label_positions[i]
  BY <1>1, <1>4, ExceptSeq
<1> HIDE DEF places
<1>6. PlaceOf(t, l) = Len(s.buf) /\ Len(s.buf) # Unplaced
  <2>1. PlaceOf(t, l) = Len(s.buf)
    BY <1>3, <1>4, <1>5 DEF PlaceOf, IsLabel
  <2> QED BY <1>1, <2>1 DEF Unplaced
<1>7. ASSUME NEW o \in 0 .. z - 1, o # l PROVE PlaceOf(t, o) = PlaceOf(s, o)
  <2>1. o + 1 \in 1 .. z /\ o + 1 # l + 1 /\ o < z
    BY <1>1, <1>7
  <2> QED BY <1>3, <1>5, <2>1 DEF PlaceOf, IsLabel
<1>8. /\ DOMAIN more = DOMAIN map /\ more[n] = entry
      /\ \A m \in DOMAIN map : m # n => more[m] = map[m]
  BY DEF Insert
<1>9. entry.id = l /\ entry.placed = TRUE
  OBVIOUS
<1> HIDE DEF entry, more, t
<1>10. \A m \in DOMAIN map : more[m].id = map[m].id
  BY <1>8, <1>9
<1>11. ASSUME NEW m \in DOMAIN map
       PROVE  more[m].placed = (PlaceOf(t, more[m].id) # Unplaced)
  <2>1. CASE m = n
    BY <1>6, <1>8, <1>9, <2>1
  <2>2. CASE m # n
    <3>1. map[m].id # l /\ map[m].id \in 0 .. z - 1
      BY <1>2, <2>2
    <3> QED BY <1>2, <1>7, <1>8, <2>2, <3>1
  <2> QED BY <2>1, <2>2
<1>12. Len(t.label_positions) = z
  BY <1>3, <1>5
<1> HIDE DEF z
<1>13. Names(more, t)
  BY <1>2, <1>8, <1>10, <1>11, <1>12 DEF Names
<1> QED BY <1>13 DEF more, entry, t

--------------------------------------------------------------------------
(* Lines and calls.                                                        *)

LEMMA AnswersStay ==
    ASSUME NEW map, NEW more, NEW line, NEW item, Answers(map, line, item), Extends(map, more)
    PROVE  Answers(more, line, item)
BY DEF Answers, Extends

\* One line more, one call more.
LEMMA OneMore ==
    ASSUME NEW calls \in Seq(CallSet), NEW lines \in Seq(Lines), Len(lines) = Len(calls),
           NEW map, NEW more, Follows(map, calls, lines), Extends(map, more),
           NEW item \in CallSet, NEW line \in Lines, Answers(more, line, item)
    PROVE  /\ Follows(more, Append(calls, item), Append(lines, line))
           /\ Append(lines, line) \in Seq(Lines)
           /\ Len(Append(lines, line)) = Len(Append(calls, item))
<1>1. PICK n \in Nat : n = Len(calls)
  BY LenProperties
<1> DEFINE cs == Append(calls, item)
           ls == Append(lines, line)
<1>2. /\ Len(cs) = n + 1 /\ cs[n + 1] = item /\ \A k \in 1 .. n : cs[k] = calls[k]
      /\ Len(ls) = n + 1 /\ ls[n + 1] = line /\ \A k \in 1 .. n : ls[k] = lines[k]
      /\ ls \in Seq(Lines)
  BY <1>1, AppendProperties
<1> HIDE DEF cs, ls
<1>3. ASSUME NEW k \in 1 .. n + 1 PROVE Answers(more, ls[k], cs[k])
  <2>1. CASE k = n + 1
    BY <1>2, <2>1
  <2>2. CASE k # n + 1
    <3>1. k \in 1 .. n
      BY <2>2
    <3>2. Answers(map, lines[k], calls[k])
      BY <1>1, <3>1 DEF Follows
    <3>3. Answers(more, lines[k], calls[k])
      BY <3>2, AnswersStay
    <3> QED BY <1>2, <3>1, <3>3
  <2> QED BY <2>1, <2>2
<1>4. Follows(more, cs, ls)
  BY <1>2, <1>3 DEF Follows
<1> QED BY <1>2, <1>4 DEF cs, ls

LEMMA BuildEnds ==
    \A s : BuildOf(s).status = BuildStatus(s) /\ EndOutcome(BuildOf(s)).status = EndStatus(s)
<1> SUFFICES ASSUME NEW s
             PROVE  /\ BuildOf(s).status = BuildStatus(s)
                    /\ EndOutcome(BuildOf(s)).status = EndStatus(s)
  OBVIOUS
<1>1. /\ \A e, i : BuildError(e, i).status = e
      /\ \A p : BuiltAs(p).status = "ok"
  BY DEF BuildError, BuiltAs
<1>2. BuildOf(s).status = BuildStatus(s)
  BY <1>1 DEF BuildOf, BuildStatus
<1> DEFINE result == BuildOf(s)
<1> HIDE DEF result
<1>3. EndOutcome(result).status =
         IF result.status = "UnplacedLabel" THEN "UndefinedLabel" ELSE result.status
  <2>1. CASE result.status = "ok"
    BY <2>1 DEF EndOutcome
  <2>2. CASE result.status = "UnplacedLabel"
    BY <2>2 DEF EndOutcome, ConvertBuildError
  <2>3. CASE result.status = "UnusedLabel"
    BY <2>3 DEF EndOutcome, ConvertBuildError
  <2>4. CASE result.status \notin {"ok", "UnplacedLabel", "UnusedLabel"}
    BY <2>4 DEF EndOutcome, ConvertBuildError
  <2> QED BY <2>1, <2>2, <2>3, <2>4
<1> QED BY <1>2, <1>3 DEF result, EndStatus

LEMMA StillOpen ==
    ASSUME AssemblerInv, outcome.status = "reading"
    PROVE  built.status = "open" /\ Len(b.calls) = Len(source)
<1>1. built = BuildOf(b) /\ outcome = EndOutcome(built) => outcome.status = EndStatus(b)
  BY BuildEnds
<1>2. EndStatus(b) # "reading"
  BY DEF EndStatus, BuildStatus
<1>3. outcome.status \notin LineErrors \cup {"DuplicateLabel"}
  BY DEF LineErrors
<1>4. OutcomeInv
  BY DEF AssemblerInv
<1> QED BY <1>1, <1>2, <1>3, <1>4 DEF OutcomeInv

\* What a step of the assembler is to the builder: nothing, a call that the
\* builder does not refuse, or build.
BuilderStep ==
    \/ UNCHANGED builderVars
    \/ \E item \in CallSet :
          /\ IsOpen /\ UNCHANGED built
          /\ b'.calls = Append(b.calls, item)
          /\ item.kind = "label" => item.label \notin Placed(b)
    \/ CallBuild

\* A line that is refused.
LEMMA RefusalKeeps ==
    ASSUME AssemblerInv, NEW line \in Lines, Reads(line), NEW error, NEW label,
           Rejects(error, label), error \in LineErrors \cup {"DuplicateLabel"},
           error = "DuplicateLabel" => DefinedBy(line) = {label} /\ IsPlaced(label)
    PROVE  AssemblerInv' /\ BuilderStep
<1>1. /\ b' = b /\ label_map' = label_map /\ built' = built
      /\ outcome' = [status |-> error, label |-> label]
      /\ source' = Append(source, line) /\ outcome.status = "reading"
  BY DEF Rejects, Reads
<1>2. PICK n \in Nat : n = Len(source)
  BY LenProperties DEF AssemblerInv
<1>3. source \in Seq(Lines) /\ Follows(label_map, b.calls, source) /\ OutcomeInv
  BY DEF AssemblerInv
<1>4. /\ source' \in Seq(Lines) /\ Len(source') = n + 1 /\ source'[n + 1] = line
      /\ \A k \in 1 .. n : source'[k] = source[k]
  BY <1>1, <1>2, <1>3, AppendProperties
<1>5. built.status = "open" /\ Len(b.calls) = n
  BY <1>1, <1>2, StillOpen
<1>6. Follows(label_map', b'.calls, source')
  <2>1. \A k \in 1 .. n : Answers(label_map, source[k], b.calls[k])
    BY <1>3, <1>5 DEF Follows
  <2> QED BY <1>1, <1>4, <1>5, <2>1 DEF Follows
<1>7. OutcomeInv'
  <2>1. outcome'.status = error /\ outcome'.label = label
    BY <1>1
  <2>2. error = "DuplicateLabel" =>
           DefinedBy(source'[n + 1]) = {outcome'.label} /\ IsPlaced(outcome.label)'
    BY <1>1, <1>4, <2>1 DEF IsPlaced, Known
  <2> QED BY <1>1, <1>4, <1>5, <2>1, <2>2 DEF OutcomeInv
<1>8. BuilderInv' /\ Names(label_map', b')
  BY <1>1 DEF AssemblerInv, BuilderInv
<1>9. BuilderStep
  BY <1>1 DEF BuilderStep, builderVars
<1> QED BY <1>4, <1>6, <1>7, <1>8, <1>9 DEF AssemblerInv

\* A line that is assembled.
LEMMA CallKeeps ==
    ASSUME AssemblerInv, NEW line \in Lines, Reads(line), NEW item \in CallSet,
           b' \in BuilderSet, NEW at, NEW call, Kept(b', at, call),
           b'.calls = Append(b.calls, item), UNCHANGED outcome,
           Names(label_map', b'), Extends(label_map, label_map'),
           Answers(label_map', line, item),
           item.kind = "label" => item.label \notin Placed(b)
    PROVE  AssemblerInv' /\ BuilderStep
<1>1. /\ built' = built /\ source' = Append(source, line) /\ outcome.status = "reading"
  BY DEF Reads
<1>2. source \in Seq(Lines) /\ Follows(label_map, b.calls, source) /\ OutcomeInv
      /\ b.calls \in Seq(CallSet)
  BY DEF AssemblerInv, BuilderInv, BuilderSet
<1>3. built.status = "open" /\ Len(b.calls) = Len(source)
  BY <1>1, StillOpen
<1>4. /\ Follows(label_map', b'.calls, source') /\ source' \in Seq(Lines)
      /\ Len(source') = Len(b'.calls)
  BY <1>1, <1>2, <1>3, OneMore
<1>5. OutcomeInv'
  BY <1>1, <1>3, <1>4 DEF OutcomeInv
<1>6. BuilderInv'
  BY DEF BuilderInv
<1>7. BuilderStep
  BY <1>1, <1>3 DEF BuilderStep, IsOpen
<1> QED BY <1>4, <1>5, <1>6, <1>7 DEF AssemblerInv

\* What OrdinarySource says of a line.
LEMMA NamesOfLine ==
    ASSUME NEW line \in Lines
    PROVE  DefinedBy(line) \subseteq LabelNames /\ ReferredBy(line) \subseteq LabelNames
BY DEF LabelNames

\* .N: and TARGET .N
LEMMA PlaceLabelKeeps ==
    ASSUME OrdinarySource, AssemblerInv, NEW line \in Lines, Reads(line),
           NEW n, DefinedBy(line) = {n}, ReferredBy(line) = {}, ~Mnemonic(line, {"PUSH"}),
           PlaceLabel(n)
    PROVE  AssemblerInv' /\ BuilderStep
<1>1. CASE IsPlaced(n)
  <2>1. Rejects("DuplicateLabel", n)
    BY <1>1 DEF PlaceLabel
  <2> QED BY <1>1, <2>1, RefusalKeeps
<1>2. CASE ~IsPlaced(n)
  <2> DEFINE l == IdOf(n)
             s == Allocated(n)
             map == OrInsert(label_map, n, [id |-> IdOf(n), placed |-> FALSE])
             entry == [id |-> IdOf(n), placed |-> TRUE]
  <2>1. /\ b' = PlaceIn(s, l) /\ label_map' = Insert(label_map, n, entry)
        /\ UNCHANGED outcome
    BY <1>2 DEF PlaceLabel
  <2>2. n \in LabelNames
    BY NamesOfLine
  <2>3. /\ s \in BuilderSet /\ \E at, call : Kept(s, at, call)
        /\ s.calls = b.calls
        /\ Names(map, s) /\ Extends(label_map, map)
        /\ n \in DOMAIN map /\ map[n].id = l
        /\ l \in 0 .. MaxLabels
        /\ PlaceOf(s, l) = Unplaced
    <3>1. Allots(n, s, map)
      BY <2>2, Allocates DEF AssemblerInv
    <3> HIDE DEF s, map
    <3> QED BY <1>2, <3>1 DEF Allots
  <2>4. label_map' = Insert(map, n, entry)
    BY <2>1, InsertTwice
  <2>5. entry.id = l
    OBVIOUS
  <2>6. l \in Nat
    BY <2>3, BuilderAssumption
  <2> HIDE DEF l, s, map
  <2>7. Names(label_map', b')
    <3>1. Names(Insert(map, n, [id |-> l, placed |-> TRUE]), PlaceIn(s, l))
      BY <2>3, <2>6, NamePlaced
    <3> QED BY <2>1, <2>4, <3>1 DEF l
  <2> HIDE DEF entry
  <2>8. Extends(label_map, label_map') /\ n \in DOMAIN label_map' /\ label_map'[n].id = l
    <3>1. /\ DOMAIN label_map' = DOMAIN map \cup {n}
          /\ label_map'[n] = entry /\ \A m \in DOMAIN map : m # n => label_map'[m] = map[m]
      BY <2>4 DEF Insert
    <3> QED BY <2>3, <2>5, <3>1 DEF Extends
  <2>9. PlaceError(s, l) = "none"
    <3>1. l \in 0 .. Len(s.label_positions) - 1
      BY <2>3 DEF Names
    <3>2. Len(s.label_positions) \in Nat
      BY <2>3, LenProperties DEF BuilderSet
    <3>3. IsLabel(s, l)
      BY <2>6, <3>1, <3>2 DEF IsLabel
    <3> QED BY <2>3, <3>3 DEF PlaceError
  <2>10. PICK at, call : Kept(s, at, call)
    BY <2>3
  <2>11. PICK up : b' \in BuilderSet /\ Kept(b', up, call)
    BY <2>1, <2>3, <2>9, <2>10, PlaceKeeps
  <2>12. b'.calls = Append(b.calls, LabelItem(l))
    BY <2>1, <2>3, CallsRecorded
  <2>13. LabelItem(l) \in CallSet
    BY <2>3 DEF CallSet
  <2>14. Answers(label_map', line, LabelItem(l))
    BY <2>8, CallFields DEF Answers
  <2>15. l \notin Placed(b) /\ LabelItem(l).label = l
    <3>1. Promise!Placed(s.calls) = Placed(s)
      BY <2>3, <2>10, SameLabels
    <3>2. Promise!Placed(b.calls) = Placed(b)
      BY SameLabels DEF AssemblerInv, BuilderInv
    <3>3. l \notin Placed(s)
      BY <2>3 DEF Placed
    <3> QED BY <2>3, <3>1, <3>2, <3>3, CallFields
  <2> QED BY <2>1, <2>7, <2>8, <2>11, <2>12, <2>13, <2>14, <2>15, CallKeeps
<1> QED BY <1>1, <1>2

LEMMA JumpLineKeeps ==
    ASSUME OrdinarySource, AssemblerInv, NEW line \in Lines, AssembleJump(line)
    PROVE  AssemblerInv' /\ BuilderStep
<1> DEFINE n == line.operands[1].value
<1>1. Reads(line) /\ Mnemonic(line, {"JUMP", "JUMPI"})
  BY DEF AssembleJump
<1>2. CASE Len(line.operands) # 1
  <2>1. Rejects("WrongOperandCount", Unplaced)
    BY <1>2 DEF AssembleJump, RejectsLine
  <2> QED BY <1>1, <2>1, RefusalKeeps DEF LineErrors
<1>3. CASE Len(line.operands) = 1 /\ line.operands[1].kind # "label"
  <2>1. Rejects("WrongOperandKind", Unplaced)
    BY <1>3 DEF AssembleJump, RejectsLine
  <2> QED BY <1>1, <2>1, RefusalKeeps DEF LineErrors
<1>4. CASE Len(line.operands) = 1 /\ line.operands[1].kind = "label"
  <2> DEFINE l == IdOf(n)
             op == JumpKind(line)
             s == Allocated(n)
             map == OrInsert(label_map, n, [id |-> IdOf(n), placed |-> FALSE])
  <2>1. /\ b' = EmitJumpTo(s, op, l) /\ label_map' = map /\ UNCHANGED outcome
    BY <1>4 DEF AssembleJump
  <2>2. /\ ReferredBy(line) = {n} /\ DefinedBy(line) = {} /\ ~Mnemonic(line, {"PUSH"})
    BY <1>1, <1>4 DEF ReferredBy, DefinedBy, Mnemonic
  <2>3. n \in LabelNames
    BY <2>2, NamesOfLine
  <2>4. /\ s \in BuilderSet /\ \E at, call : Kept(s, at, call)
        /\ s.calls = b.calls
        /\ Names(map, s) /\ Extends(label_map, map)
        /\ n \in DOMAIN map /\ map[n].id = l
        /\ l \in 0 .. MaxLabels
    <3>1. Allots(n, s, map)
      BY <2>3, Allocates DEF AssemblerInv
    <3> HIDE DEF s, map
    <3> QED BY <3>1 DEF Allots
  <2>5. op \in JumpOps
    BY DEF JumpKind, JumpOps
  <2>6. JumpItem(op, l) \in CallSet
    BY <2>4, <2>5 DEF CallSet
  <2> HIDE DEF l, s, map, n
  <2>7. PICK at, call : Kept(s, at, call)
    BY <2>4
  <2>8. PICK up, calls : b' \in BuilderSet /\ Kept(b', up, calls)
    BY <2>1, <2>4, <2>5, <2>7, JumpKeeps
  <2>9. b'.calls = Append(b.calls, JumpItem(op, l))
    BY <2>1, <2>4, CallsRecorded
  <2>10. b'.label_positions = s.label_positions
    <3>1. s \in BuilderSet
      BY <2>4
    <3> QED BY <2>1, <3>1 DEF EmitJumpTo, Writes, BuilderSet
  <2>11. Names(label_map', b')
    BY <2>1, <2>4, <2>10, NamesStay
  <2>12. Answers(label_map', line, JumpItem(op, l))
    BY <2>1, <2>2, <2>4, CallFields DEF Answers
  <2>13. JumpItem(op, l).kind # "label"
    BY CallFields
  <2> QED BY <1>1, <2>1, <2>4, <2>6, <2>8, <2>9, <2>11, <2>12, <2>13, CallKeeps
<1> QED BY <1>2, <1>3, <1>4

\* A constant, or an instruction that is written as it is.
LEMMA CodeLineKeeps ==
    ASSUME AssemblerInv, NEW line \in Lines, Reads(line), NEW item \in CallSet, NEW instr,
           IsWritable(instr), Written(item) = instr, item.kind # "label", item.kind # "jump",
           b' = Writes(b, instr, item), UNCHANGED <<label_map, outcome>>,
           DefinedBy(line) = {}, ReferredBy(line) = {},
           Mnemonic(line, {"PUSH"}) => item = ConstItem(line.operands[1].value)
    PROVE  AssemblerInv' /\ BuilderStep
<1>1. b \in BuilderSet /\ Names(label_map, b)
  BY DEF AssemblerInv, BuilderInv
<1>2. PICK at, call : Kept(b, at, call)
  BY DEF AssemblerInv, BuilderInv
<1>3. PICK up : b' \in BuilderSet /\ Kept(b', up, call)
  BY <1>1, <1>2, CodeKeeps
<1>4. b'.calls = Append(b.calls, item)
  BY <1>1, CallsRecorded
<1>5. b'.label_positions = b.label_positions
  BY <1>1 DEF Writes, BuilderSet
<1>6. Names(label_map', b')
  BY <1>1, <1>5, NamesStay
<1>7. Answers(label_map', line, item) /\ Extends(label_map, label_map')
  BY DEF Answers, Extends
<1> QED BY <1>3, <1>4, <1>6, <1>7, CallKeeps

LEMMA PushLineKeeps ==
    ASSUME OrdinarySource, AssemblerInv, NEW line \in Lines, AssemblePush(line)
    PROVE  AssemblerInv' /\ BuilderStep
<1> DEFINE val == line.operands[1].value
<1>1. Reads(line) /\ Mnemonic(line, {"PUSH", "PUSHC"})
  BY DEF AssemblePush
<1>2. CASE Len(line.operands) # 1
  <2>1. Rejects("WrongOperandCount", Unplaced)
    BY <1>2 DEF AssemblePush, RejectsLine
  <2> QED BY <1>1, <2>1, RefusalKeeps DEF LineErrors
<1>3. CASE Len(line.operands) = 1 /\ line.operands[1].kind # "integer"
  <2>1. Rejects("WrongOperandKind", Unplaced)
    BY <1>3 DEF AssemblePush, RejectsLine
  <2> QED BY <1>1, <2>1, RefusalKeeps DEF LineErrors
<1>4. CASE Len(line.operands) = 1 /\ line.operands[1].kind = "integer"
  <2>1. b' = Writes(b, MinimalPush(val), ConstItem(val)) /\ UNCHANGED <<label_map, outcome>>
    BY <1>4 DEF AssemblePush, EmitPush
  <2>2. val \in Constants
    BY <1>1, <1>4 DEF OrdinarySource
  <2>3. DefinedBy(line) = {} /\ ReferredBy(line) = {}
    BY <1>1 DEF Mnemonic, DefinedBy, ReferredBy
  <2> HIDE DEF val
  <2>4. IsWritable(MinimalPush(val))
    BY <2>2, PushWritable
  <2>5. ConstItem(val) \in CallSet /\ Written(ConstItem(val)) = MinimalPush(val)
        /\ ConstItem(val).kind # "label" /\ ConstItem(val).kind # "jump"
    BY <2>2, WrittenOf, CallFields DEF CallSet
  <2>6. ConstItem(val) = ConstItem(line.operands[1].value)
    BY DEF val
  <2> QED BY <1>1, <2>1, <2>3, <2>4, <2>5, <2>6, CodeLineKeeps
<1> QED BY <1>2, <1>3, <1>4

LEMMA OtherLineKeeps ==
    ASSUME OrdinarySource, AssemblerInv, NEW line \in Lines, AssembleOther(line)
    PROVE  AssemblerInv' /\ BuilderStep
<1>1. /\ Reads(line) /\ line.kind = "instruction"
      /\ line.mnemonic \notin {"JUMP", "JUMPI", "PUSH", "PUSHC"}
      /\ line.mnemonic = "TARGET" => line.operands = <<>>
  BY DEF AssembleOther
<1>2. CASE InstrError(line) # "none"
  <2>1. Rejects(InstrError(line), Unplaced)
    BY <1>2 DEF AssembleOther, RejectsLine
  <2>2. InstrError(line) \in LineErrors /\ InstrError(line) # "DuplicateLabel"
    BY <1>2, InstrErrors DEF LineErrors
  <2> QED BY <1>1, <2>1, <2>2, RefusalKeeps
<1>3. CASE InstrError(line) = "none"
  <2> DEFINE instr == OtherInstr(line)
  <2>1. b' = Writes(b, instr, CodeItem(instr)) /\ UNCHANGED <<label_map, outcome>>
    BY <1>3 DEF AssembleOther, EmitTo, OtherInstr
  <2>2. instr \in Emitted
    BY <1>1, <1>3 DEF OrdinarySource
  <2>3. DefinedBy(line) = {} /\ ReferredBy(line) = {} /\ ~Mnemonic(line, {"PUSH"})
    <3>1. line.mnemonic = "TARGET" => Len(line.operands) = 0
      BY <1>1
    <3> QED BY <1>1, <3>1 DEF Mnemonic, DefinedBy, ReferredBy
  <2> HIDE DEF instr
  <2>4. IsWritable(instr)
    BY <2>2 DEF OrdinarySource, PlacesTargets, EmitsInstructions
  <2>5. CodeItem(instr) \in CallSet /\ Written(CodeItem(instr)) = instr
        /\ CodeItem(instr).kind # "label" /\ CodeItem(instr).kind # "jump"
    BY <2>2, WrittenOf, CallFields DEF CallSet
  <2> QED BY <1>1, <2>1, <2>3, <2>4, <2>5, CodeLineKeeps
<1> QED BY <1>2, <1>3

LEMMA EndKeeps ==
    ASSUME AssemblerInv, EndOfSource
    PROVE  AssemblerInv' /\ BuilderStep
<1>1. /\ outcome.status = "reading" /\ built' = BuildOf(b) /\ outcome' = EndOutcome(built')
      /\ UNCHANGED <<b, source, label_map, first_ref>>
  BY DEF EndOfSource, EndOutcome
<1>2. Len(b.calls) = Len(source)
  BY <1>1, StillOpen
<1>3. BuildOf(b)' = BuildOf(b)
  BY <1>1
<1>4. OutcomeInv'
  BY <1>1, <1>2, <1>3 DEF OutcomeInv
<1>5. /\ BuilderInv' /\ source' \in Seq(Lines) /\ Names(label_map', b')
      /\ Follows(label_map', b'.calls, source')
  BY <1>1 DEF AssemblerInv, BuilderInv
<1>6. BuilderStep
  <2>1. IsOpen
    BY <1>1, StillOpen DEF IsOpen
  <2> QED BY <1>1, <2>1 DEF BuilderStep, CallBuild
<1> QED BY <1>4, <1>5, <1>6 DEF AssemblerInv

LEMMA AssemblerKeeps ==
    ASSUME OrdinarySource, AssemblerInv, [AssemblerNext]_assemblerVars
    PROVE  AssemblerInv' /\ BuilderStep
<1>1. CASE UNCHANGED assemblerVars
  <2>1. UNCHANGED <<b, built, source, label_map, outcome>>
    BY <1>1 DEF assemblerVars
  <2> QED BY <2>1 DEF AssemblerInv, BuilderInv, OutcomeInv, IsPlaced, Known, BuilderStep, builderVars
<1>2. ASSUME NEW line \in Lines, AssembleLabelDef(line) PROVE AssemblerInv' /\ BuilderStep
  <2>1. Reads(line) /\ PlaceLabel(line.label) /\ DefinedBy(line) = {line.label}
        /\ ReferredBy(line) = {} /\ ~Mnemonic(line, {"PUSH"})
    BY <1>2 DEF AssembleLabelDef, DefinedBy, ReferredBy, Mnemonic
  <2> QED BY <2>1, PlaceLabelKeeps
<1>3. ASSUME NEW line \in Lines, AssembleTarget(line) PROVE AssemblerInv' /\ BuilderStep
  <2>1. Reads(line) /\ line.kind = "instruction" /\ line.mnemonic = "TARGET"
    BY <1>3 DEF AssembleTarget, Mnemonic
  <2>2. CASE Len(line.operands) # 1
    <3>1. Rejects("WrongOperandCount", Unplaced)
      BY <1>3, <2>2 DEF AssembleTarget, RejectsLine
    <3> QED BY <2>1, <3>1, RefusalKeeps DEF LineErrors
  <2>3. CASE Len(line.operands) = 1 /\ line.operands[1].kind # "label"
    <3>1. Rejects("WrongOperandKind", Unplaced)
      BY <1>3, <2>3 DEF AssembleTarget, RejectsLine
    <3> QED BY <2>1, <3>1, RefusalKeeps DEF LineErrors
  <2>4. CASE Len(line.operands) = 1 /\ line.operands[1].kind = "label"
    <3>1. PlaceLabel(line.operands[1].value)
      BY <1>3, <2>4 DEF AssembleTarget
    <3>2. /\ DefinedBy(line) = {line.operands[1].value} /\ ReferredBy(line) = {}
          /\ ~Mnemonic(line, {"PUSH"})
      BY <2>1, <2>4 DEF DefinedBy, ReferredBy, Mnemonic
    <3> QED BY <2>1, <3>1, <3>2, PlaceLabelKeeps
  <2> QED BY <2>2, <2>3, <2>4
<1> QED BY <1>1, <1>2, <1>3, JumpLineKeeps, PushLineKeeps, OtherLineKeeps, EndKeeps
        DEF AssemblerNext, AssembleLine

--------------------------------------------------------------------------
(* What the source says of its labels is what the builder knows of them.   *)

LEMMA NamedCalls ==
    ASSUME AssemblerInv, NEW k \in 1 .. Len(b.calls)
    PROVE  /\ \A n \in DOMAIN label_map :
                 /\ n \in DefinedBy(source[k]) <=> b.calls[k] = LabelItem(label_map[n].id)
                 /\ n \in ReferredBy(source[k]) =>
                       b.calls[k] = JumpItem(JumpKind(source[k]), label_map[n].id)
           /\ DefinedBy(source[k]) \cup ReferredBy(source[k]) \subseteq DOMAIN label_map
           /\ IsLabelCall(b, k) <=> DefinedBy(source[k]) # {}
           /\ IsJumpCall(b, k) <=> ReferredBy(source[k]) # {}
<1>1. Answers(label_map, source[k], b.calls[k])
  BY DEF AssemblerInv, Follows
<1>2. \A m, n \in DOMAIN label_map : label_map[m].id = label_map[n].id => m = n
  BY DEF AssemblerInv, Names
<1>3. \A l, m : LabelItem(l) = LabelItem(m) => l = m
  BY CallFields
<1>4. ASSUME NEW n \in DOMAIN label_map, b.calls[k] = LabelItem(label_map[n].id)
      PROVE  n \in DefinedBy(source[k])
  <2>1. PICK m \in DefinedBy(source[k]) : TRUE
    BY <1>1, <1>4, CallFields DEF Answers
  <2>2. m \in DOMAIN label_map /\ b.calls[k] = LabelItem(label_map[m].id)
    BY <1>1 DEF Answers
  <2> QED BY <1>2, <1>3, <1>4, <2>2
<1>5. /\ \A n \in DefinedBy(source[k]) :
            n \in DOMAIN label_map /\ b.calls[k] = LabelItem(label_map[n].id)
      /\ \A n \in ReferredBy(source[k]) :
            n \in DOMAIN label_map /\ b.calls[k] = JumpItem(JumpKind(source[k]), label_map[n].id)
      /\ b.calls[k].kind = "label" => DefinedBy(source[k]) # {}
      /\ b.calls[k].kind = "jump" => ReferredBy(source[k]) # {}
  BY <1>1 DEF Answers
<1> QED BY <1>4, <1>5, CallFields DEF IsLabelCall, IsJumpCall

\* The labels of the lines and those of the builder, once every line is a call.
Agreed ==
    /\ Placed(b) = {label_map[n].id : n \in Defined}
    /\ Referenced(b) = {label_map[n].id : n \in Referred}
    /\ Defined \cup Referred \subseteq DOMAIN label_map
    /\ \A n \in Defined : DefinitionOf(n) = Promise!PositionOf(b.calls, label_map[n].id)

LEMMA LabelsAgree ==
    ASSUME AssemblerInv, Len(b.calls) = Len(source)
    PROVE  Agreed
<1>1. PICK z \in Nat : z = Len(b.calls)
  BY LenProperties DEF AssemblerInv
<1>2. DOMAIN source = 1 .. z /\ Len(source) = z
  BY <1>1, LenProperties DEF AssemblerInv
<1>3. b \in BuilderSet
  BY DEF AssemblerInv, BuilderInv
<1>4. PICK at, call : Kept(b, at, call)
  BY DEF AssemblerInv, BuilderInv
<1>5. ASSUME NEW k \in 1 .. z
      PROVE  /\ \A n \in DOMAIN label_map :
                   /\ n \in DefinedBy(source[k]) <=> b.calls[k] = LabelItem(label_map[n].id)
                   /\ n \in ReferredBy(source[k]) =>
                         b.calls[k] = JumpItem(JumpKind(source[k]), label_map[n].id)
             /\ DefinedBy(source[k]) \cup ReferredBy(source[k]) \subseteq DOMAIN label_map
             /\ IsLabelCall(b, k) <=> DefinedBy(source[k]) # {}
             /\ IsJumpCall(b, k) <=> ReferredBy(source[k]) # {}
  BY <1>1, NamedCalls
<1>6. /\ \A n : n \in Defined <=> \E k \in 1 .. z : n \in DefinedBy(source[k])
      /\ \A n : n \in Referred <=> \E k \in 1 .. z : n \in ReferredBy(source[k])
  BY <1>2 DEF Defined, DefinedIn, Referred
<1>7. Defined \cup Referred \subseteq DOMAIN label_map
  BY <1>5, <1>6
<1>8. ASSUME NEW l \in Placed(b) PROVE \E n \in Defined : l = label_map[n].id
  <2>1. PICK k \in 1 .. z : IsLabelCall(b, k) /\ b.calls[k] = LabelItem(l)
    BY <1>1, <1>3, <1>4, PlacedCalls
  <2>2. PICK n \in DefinedBy(source[k]) : TRUE
    BY <1>5, <2>1
  <2>3. n \in Defined /\ b.calls[k] = LabelItem(label_map[n].id)
    BY <1>5, <1>6
  <2>4. l = label_map[n].id
    <3>1. LabelItem(l).label = l /\ LabelItem(label_map[n].id).label = label_map[n].id
      BY CallFields
    <3> QED BY <2>1, <2>3, <3>1
  <2> QED BY <2>3, <2>4
<1>9. ASSUME NEW n \in Defined
      PROVE  /\ label_map[n].id \in Placed(b)
             /\ DefinitionOf(n) = Promise!PositionOf(b.calls, label_map[n].id)
  <2>1. PICK j \in 1 .. z : n \in DefinedBy(source[j])
    BY <1>6
  <2>2. n \in DOMAIN label_map
    BY <1>7
  <2>3. b.calls[j] = LabelItem(label_map[n].id) /\ IsLabelCall(b, j)
    BY <1>5, <2>1, <2>2
  <2>4. label_map[n].id \in Placed(b)
    <3>1. b.calls[j].label \in Placed(b)
      BY <1>1, <1>3, <1>4, <2>3, PlacedCalls
    <3> QED BY <2>3, <3>1, CallFields
  <2>5. \A k \in 1 .. z : b.calls[k] = LabelItem(label_map[n].id) =>
                             Promise!PositionOf(b.calls, label_map[n].id) = k
    BY <1>1, <1>3, <1>4, OneCallPerLabel
  <2>6. \A k \in 1 .. z : n \in DefinedBy(source[k]) =>
                             Promise!PositionOf(b.calls, label_map[n].id) = k
    BY <1>5, <2>2, <2>5
  <2>7. DefinitionOf(n) = CHOOSE k \in 1 .. z : n \in DefinedBy(source[k])
    BY <1>2 DEF DefinitionOf
  <2>8. n \in DefinedBy(source[DefinitionOf(n)]) /\ DefinitionOf(n) \in 1 .. z
    BY <2>1, <2>7
  <2> QED BY <2>4, <2>6, <2>8
<1>10. Placed(b) = {label_map[n].id : n \in Defined}
  BY <1>8, <1>9
<1>11. Referenced(b) = {label_map[n].id : n \in Referred}
  <2>1. Referenced(b) = {b.calls[k].label : k \in {k \in 1 .. z : IsJumpCall(b, k)}}
    <3>1. Promise!Used(b.calls) = Referenced(b) /\ DOMAIN b.calls = 1 .. z
      BY <1>1, <1>3, <1>4, SameLabels, WrittenSeq
    <3> QED BY <3>1 DEF Promise!Used, IsJumpCall
  <2>2. ASSUME NEW k \in 1 .. z, IsJumpCall(b, k)
        PROVE  \E n \in Referred : b.calls[k].label = label_map[n].id
    <3>1. PICK n \in ReferredBy(source[k]) : TRUE
      BY <1>5, <2>2
    <3>2. n \in Referred /\ n \in DOMAIN label_map
      BY <1>6, <1>7
    <3>3. b.calls[k] = JumpItem(JumpKind(source[k]), label_map[n].id)
      BY <1>5, <3>2
    <3> QED BY <3>2, <3>3, CallFields
  <2>3. ASSUME NEW n \in Referred
        PROVE  \E k \in 1 .. z : IsJumpCall(b, k) /\ b.calls[k].label = label_map[n].id
    <3>1. PICK k \in 1 .. z : n \in ReferredBy(source[k])
      BY <1>6
    <3>2. b.calls[k] = JumpItem(JumpKind(source[k]), label_map[n].id) /\ IsJumpCall(b, k)
      BY <1>5, <1>7, <3>1
    <3> QED BY <3>2, CallFields
  <2> QED BY <2>1, <2>2, <2>3
<1> QED BY <1>7, <1>9, <1>10, <1>11 DEF Agreed

\* What build finds wrong is what is wrong with the source.
LEMMA ErrorsAgree ==
    ASSUME AssemblerInv, Len(b.calls) = Len(source)
    PROVE  /\ Missing(b) = {} <=> Referred \subseteq Defined
           /\ UnusedOf(b) = {} <=> Idle = {}
           /\ Cardinality(Placed(b)) <= Cardinality(Defined)
           /\ Cardinality(Placed(b)) \in Nat /\ Cardinality(Defined) \in Nat
<1>1. Agreed
  BY LabelsAgree
<1>2. b \in BuilderSet
  BY DEF AssemblerInv, BuilderInv
<1>3. PICK at, call : Kept(b, at, call)
  BY DEF AssemblerInv, BuilderInv
<1>4. \A m, n \in DOMAIN label_map : label_map[m].id = label_map[n].id => m = n
  BY DEF AssemblerInv, Names
<1>5. ASSUME NEW n \in Defined \cup Referred
      PROVE  /\ n \in Defined <=> label_map[n].id \in Placed(b)
             /\ n \in Referred <=> label_map[n].id \in Referenced(b)
  BY <1>1, <1>4 DEF Agreed
<1>6. Missing(b) = {} <=> Referred \subseteq Defined
  <2>1. Missing(b) = {} <=> Referenced(b) \subseteq Placed(b)
    BY <1>2, <1>3, SameLabels
  <2>2. Referenced(b) \subseteq Placed(b) => Referred \subseteq Defined
    BY <1>5
  <2>3. Referred \subseteq Defined => Referenced(b) \subseteq Placed(b)
    BY <1>1 DEF Agreed
  <2> QED BY <2>1, <2>2, <2>3
<1>7. ASSUME NEW n \in Defined
      PROVE  Promise!PositionOf(b.calls, label_map[n].id) # 1 <=> n \notin DefinedIn(1)
  <2>1. PICK z \in Nat : z = Len(source)
    BY LenProperties DEF AssemblerInv
  <2>2. DOMAIN source = 1 .. z
    BY <2>1, LenProperties DEF AssemblerInv
  <2>3. PICK j \in 1 .. z : n \in DefinedBy(source[j])
    BY <2>1 DEF Defined, DefinedIn
  <2>4. DefinitionOf(n) = Promise!PositionOf(b.calls, label_map[n].id)
    BY <1>1 DEF Agreed
  <2>5. n \in DefinedIn(1) <=> n \in DefinedBy(source[1])
    BY DEF DefinedIn
  <2>6. DefinitionOf(n) = CHOOSE k \in 1 .. z : n \in DefinedBy(source[k])
    BY <2>2 DEF DefinitionOf
  <2>7. n \in DefinedBy(source[DefinitionOf(n)])
    BY <2>3, <2>6
  <2>8. ASSUME n \in DefinedBy(source[1]) PROVE DefinitionOf(n) = 1
    <3>1. 1 \in 1 .. Len(b.calls) /\ n \in DOMAIN label_map
      BY <1>1, <2>1, <2>3 DEF Agreed
    <3>2. b.calls[1] = LabelItem(label_map[n].id)
      BY <2>8, <3>1, NamedCalls
    <3>3. PICK y \in Nat : y = Len(b.calls)
      BY <2>1
    <3>4. 1 \in 1 .. y
      BY <3>1, <3>3
    <3>5. Promise!PositionOf(b.calls, label_map[n].id) = 1
      BY <1>2, <1>3, <3>2, <3>3, <3>4, OneCallPerLabel
    <3> QED BY <2>4, <3>5
  <2> QED BY <2>4, <2>5, <2>7, <2>8
<1>8. UnusedOf(b) = {} <=> Idle = {}
  <2>1. UnusedOf(b) = {l \in Placed(b) \ Referenced(b) : Promise!PositionOf(b.calls, l) # 1}
    <3>1. /\ Promise!Placed(b.calls) = Placed(b) /\ Promise!Used(b.calls) = Referenced(b)
          /\ Promise!UnusedLabels(b.calls) = UnusedOf(b)
      BY <1>2, <1>3, SameLabels
    <3> QED BY <3>1 DEF Promise!UnusedLabels
  <2>2. ASSUME NEW n \in Idle PROVE label_map[n].id \in UnusedOf(b)
    BY <1>5, <1>7, <2>1 DEF Idle
  <2>3. ASSUME NEW l \in UnusedOf(b) PROVE \E n : n \in Idle
    <3>1. PICK n \in Defined : l = label_map[n].id
      BY <1>1, <2>1 DEF Agreed
    <3> QED BY <1>5, <1>7, <2>1, <3>1 DEF Idle
  <2> QED BY <2>2, <2>3
<1>9. /\ Cardinality(Placed(b)) <= Cardinality(Defined)
      /\ Cardinality(Placed(b)) \in Nat /\ Cardinality(Defined) \in Nat
  <2> DEFINE f == [n \in Defined |-> label_map[n].id]
  <2>1. IsFiniteSet(Defined)
    <3>1. IsFiniteSet(DOMAIN label_map) /\ Defined \subseteq DOMAIN label_map
      BY <1>1 DEF Agreed, AssemblerInv, Names
    <3> QED BY <3>1, FS_Subset
  <2>2. f \in Surjection(Defined, Placed(b))
    BY <1>1 DEF Agreed, Surjection
  <2>3. IsFiniteSet(Placed(b)) /\ Cardinality(Placed(b)) <= Cardinality(Defined)
    BY <2>1, <2>2, FS_Surjection
  <2> QED BY <2>1, <2>3, FS_CardinalityType
<1> QED BY <1>6, <1>8, <1>9

--------------------------------------------------------------------------
(* The theorems.                                                           *)

LEMMA SourceKept == ASSUME OrdinarySource, AssemblerInv PROVE SourceIsProgram
<1> SUFFICES ASSUME outcome.status = "ok"
             PROVE  LET code == built.meaning
                    IN  /\ Len(code) = Len(source)
                        /\ \A k \in DOMAIN source :
                              /\ \A n \in ReferredBy(source[k]) :
                                    code[k] = [kind |-> "jump", op |-> JumpKind(source[k]),
                                               to |-> DefinitionOf(n)]
                              /\ DefinedBy(source[k]) # {} => code[k] = [kind |-> "target"]
                              /\ Mnemonic(source[k], {"PUSH"}) =>
                                    code[k] = [kind |-> "push",
                                               val |-> source[k].operands[1].value]
  BY DEF SourceIsProgram
<1> DEFINE code == built.meaning
<1>1. built = BuildOf(b) /\ outcome = EndOutcome(built) /\ Len(b.calls) = Len(source)
  BY DEF AssemblerInv, OutcomeInv, LineErrors
<1>2. EndStatus(b) = "ok"
  BY <1>1, BuildEnds
<1>3. Missing(b) = {} /\ UnusedOf(b) = {} /\ ~(Cardinality(Placed(b)) > WideLabels)
  BY <1>2 DEF EndStatus, BuildStatus
<1>4. b \in BuilderSet
  BY DEF AssemblerInv, BuilderInv
<1>5. PICK at, call : Kept(b, at, call)
  BY DEF AssemblerInv, BuilderInv
<1>6. PICK z \in Nat : z = Len(source)
  BY LenProperties DEF AssemblerInv
<1>7. DOMAIN source = 1 .. z
  BY <1>6, LenProperties DEF AssemblerInv
<1>8. /\ code = [k \in 1 .. z |-> code[k]]
      /\ \A k \in 1 .. z : (b.calls[k].kind = "code" => IsOrdinary(b.calls[k].instr)) =>
                              code[k] = Promise!Meaning(b.calls, b.calls[k])
  <2>1. BuildsTo(b, z, built)
    BY <1>1, <1>3, <1>4, <1>5, <1>6, BuiltRuns DEF OrdinarySource
  <2> QED BY <2>1 DEF BuildsTo
<1> HIDE DEF code
<1>9. Len(code) = z
  BY <1>8, MadeSeq
<1>10. Agreed /\ Referred \subseteq Defined
  BY <1>1, <1>3, LabelsAgree, ErrorsAgree
<1>11. ASSUME NEW k \in 1 .. z, b.calls[k].kind # "code"
       PROVE  code[k] = CASE b.calls[k].kind = "label" -> [kind |-> "target"]
                          [] b.calls[k].kind = "jump"  ->
                                [kind |-> "jump", op |-> b.calls[k].op,
                                 to |-> Promise!PositionOf(b.calls, b.calls[k].label)]
                          [] OTHER -> b.calls[k]
  <2>1. code[k] = Promise!Meaning(b.calls, b.calls[k])
    BY <1>8, <1>11
  <2> QED BY <2>1 DEF Promise!Meaning
<1>12. ASSUME NEW k \in 1 .. z
       PROVE  /\ \A n \in ReferredBy(source[k]) :
                    code[k] = [kind |-> "jump", op |-> JumpKind(source[k]),
                               to |-> DefinitionOf(n)]
              /\ DefinedBy(source[k]) # {} => code[k] = [kind |-> "target"]
              /\ Mnemonic(source[k], {"PUSH"}) =>
                    code[k] = [kind |-> "push", val |-> source[k].operands[1].value]
  <2>1. k \in 1 .. Len(b.calls)
    BY <1>1, <1>6
  <2>2. Answers(label_map, source[k], b.calls[k])
    BY <2>1 DEF AssemblerInv, Follows
  <2>3. ASSUME NEW n \in ReferredBy(source[k])
        PROVE  code[k] = [kind |-> "jump", op |-> JumpKind(source[k]), to |-> DefinitionOf(n)]
    <3>1. b.calls[k] = JumpItem(JumpKind(source[k]), label_map[n].id)
      BY <2>2 DEF Answers
    <3>2. /\ b.calls[k].kind = "jump" /\ b.calls[k].op = JumpKind(source[k])
          /\ b.calls[k].label = label_map[n].id
      BY <3>1, CallFields
    <3>3. n \in Referred
      BY <1>7 DEF Referred
    <3>4. DefinitionOf(n) = Promise!PositionOf(b.calls, label_map[n].id)
      BY <1>10, <3>3 DEF Agreed
    <3> QED BY <1>11, <3>2, <3>4
  <2>4. ASSUME DefinedBy(source[k]) # {} PROVE code[k] = [kind |-> "target"]
    <3>1. PICK n \in DefinedBy(source[k]) : TRUE
      BY <2>4
    <3>2. b.calls[k].kind = "label"
      BY <2>2, CallFields DEF Answers
    <3> QED BY <1>11, <3>2
  <2>5. ASSUME Mnemonic(source[k], {"PUSH"})
        PROVE  code[k] = [kind |-> "push", val |-> source[k].operands[1].value]
    <3>1. b.calls[k] = ConstItem(source[k].operands[1].value)
      BY <2>2, <2>5 DEF Answers
    <3>2. b.calls[k].kind = "push"
      BY <3>1, CallFields
    <3> QED BY <1>11, <3>1, <3>2 DEF ConstItem
  <2> QED BY <2>3, <2>4, <2>5
<1> QED BY <1>6, <1>7, <1>9, <1>12 DEF code

LEMMA ErrorsKept == AssemblerInv => ErrorsDeserved
<1> SUFFICES ASSUME AssemblerInv PROVE ErrorsDeserved
  OBVIOUS
<1>1. PICK z \in Nat : z = Len(source)
  BY LenProperties DEF AssemblerInv
<1>2. CASE outcome.status = "DuplicateLabel"
  <2>1. EndStatus(b) # "DuplicateLabel"
    BY DEF EndStatus, BuildStatus
  <2>2. /\ built.status = "open" /\ z = Len(b.calls) + 1
        /\ DefinedBy(source[z]) = {outcome.label} /\ IsPlaced(outcome.label)
    BY <1>1, <1>2, <2>1, BuildEnds DEF AssemblerInv, OutcomeInv, LineErrors
  <2> DEFINE n == outcome.label
  <2>3. n \in DOMAIN label_map /\ PlaceOf(b, label_map[n].id) # Unplaced
        /\ label_map[n].id \in 0 .. Len(b.label_positions) - 1
    BY <2>2 DEF IsPlaced, Known, AssemblerInv, Names
  <2>4. label_map[n].id \in Placed(b)
    BY <2>3 DEF Placed
  <2>5. b \in BuilderSet
    BY DEF AssemblerInv, BuilderInv
  <2>6. PICK at, call : Kept(b, at, call)
    BY DEF AssemblerInv, BuilderInv
  <2>7. PICK y \in Nat : y = Len(b.calls)
    BY <2>5, WrittenSeq
  <2>8. PICK k \in 1 .. y : b.calls[k] = LabelItem(label_map[n].id)
    BY <2>4, <2>5, <2>6, <2>7, PlacedCalls
  <2>9. n \in DefinedBy(source[k])
    BY <2>3, <2>7, <2>8, NamedCalls
  <2>10. k \in 1 .. z - 1
    BY <2>2, <2>7
  <2>11. n \in DefinedIn(z - 1)
    BY <2>9, <2>10 DEF DefinedIn
  <2> QED BY <1>1, <1>2, <2>2, <2>11 DEF ErrorsDeserved
<1>3. CASE outcome.status # "DuplicateLabel" /\ built.status = "open"
  <2>1. EndStatus(b) # "open" /\ BuildStatus(b) # "open"
    BY DEF EndStatus, BuildStatus
  <2>2. outcome.status = "reading" \/ outcome.status \in LineErrors
    BY <1>3, <2>1, BuildEnds DEF AssemblerInv, OutcomeInv
  <2> QED BY <1>3, <2>2 DEF ErrorsDeserved, LineErrors
<1>4. CASE built.status # "open"
  <2>1. built = BuildOf(b) /\ outcome = EndOutcome(built) /\ Len(b.calls) = Len(source)
    BY <1>4 DEF AssemblerInv, OutcomeInv
  <2>2. outcome.status = EndStatus(b)
    BY <2>1, BuildEnds
  <2>3. /\ Missing(b) = {} <=> Referred \subseteq Defined
        /\ UnusedOf(b) = {} <=> Idle = {}
        /\ Cardinality(Placed(b)) <= Cardinality(Defined)
        /\ Cardinality(Placed(b)) \in Nat /\ Cardinality(Defined) \in Nat
    BY <2>1, ErrorsAgree
  <2>4. WideLabels \in Nat
    BY BuilderAssumption
  <2>5. Cardinality(Placed(b)) > WideLabels => Cardinality(Defined) > WideLabels
    BY <2>3, <2>4
  <2> QED BY <1>4, <2>2, <2>3, <2>5 DEF ErrorsDeserved, EndStatus, BuildStatus
<1> QED BY <1>2, <1>3, <1>4

\* An accepted source has one instruction per line, whatever its lines and
\* however its labels are named, spelt and ordered: each JUMP and JUMPI goes to
\* the line that defines its label, before it or after it, and each PUSH pushes
\* its constant.
THEOREM SourceAssembles ==
    ASSUME OrdinarySource
    PROVE  AssemblerSpec => []SourceIsProgram
<1>1. AssemblerInv /\ [AssemblerNext]_assemblerVars => AssemblerInv'
  BY AssemblerKeeps
<1>2. AssemblerInv => SourceIsProgram
  BY SourceKept
<1> QED BY <1>1, <1>2, AssembledInitially, PTL DEF AssemblerSpec

\* The error an assembly ends with is one its source has, and a source that has
\* none of the errors of labels is not refused for one.
THEOREM AssemblyErrorsDeserved ==
    ASSUME OrdinarySource
    PROVE  AssemblerSpec => []ErrorsDeserved
<1>1. AssemblerInv /\ [AssemblerNext]_assemblerVars => AssemblerInv'
  BY AssemblerKeeps
<1> QED BY <1>1, ErrorsKept, AssembledInitially, PTL DEF AssemblerSpec

\* While a source is assembled the buffer decodes and patching can be trusted.
THEOREM AssembledBufferSound ==
    ASSUME OrdinarySource
    PROVE  AssemblerSpec => []BufferOK
<1>1. AssemblerInv /\ [AssemblerNext]_assemblerVars => AssemblerInv'
  BY AssemblerKeeps
<1>2. AssemblerInv => BufferOK
  BY KeptIsOK DEF AssemblerInv
<1> QED BY <1>1, <1>2, AssembledInitially, PTL DEF AssemblerSpec

\* The assembler uses the builder as it is meant to be used: read through the
\* calls it makes, assembling a source is an execution of Assembly, whatever the
\* lines that are refused on the way.
THEOREM AssemblerImplements ==
    ASSUME OrdinarySource, OrdinaryClient
    PROVE  AssemblerSpec => KeepsItsPromise
<1>1. AssemblerInit => Promise!Init
  <2> SUFFICES ASSUME AssemblerInit PROVE Promise!Init
    OBVIOUS
  <2>1. b.calls = <<>> /\ built.status = "open"
    BY DEF AssemblerInit, BuilderInit, NewBuilder
  <2> QED BY <2>1 DEF Promise!Init, Promise!Open
<1>2. AssemblerInv /\ [AssemblerNext]_assemblerVars => AssemblerInv' /\ BuilderStep
  BY AssemblerKeeps
<1>3. AssemblerInv /\ BuilderStep => [Promise!Next]_<<b.calls, OutcomeOf(built)>>
  <2> SUFFICES ASSUME AssemblerInv, BuilderStep
               PROVE  [Promise!Next]_<<b.calls, OutcomeOf(built)>>
    OBVIOUS
  <2>1. BuilderInv
    BY DEF AssemblerInv
  <2>2. CASE UNCHANGED builderVars
    BY <2>2 DEF builderVars
  <2>3. CASE \E item \in CallSet :
               /\ IsOpen /\ UNCHANGED built
               /\ b'.calls = Append(b.calls, item)
               /\ item.kind = "label" => item.label \notin Placed(b)
    BY <2>1, <2>3, CallImplements
  <2>4. CASE CallBuild
    BY <2>1, <2>4, BuildImplements
  <2> QED BY <2>2, <2>3, <2>4 DEF BuilderStep
<1> QED BY <1>1, <1>2, <1>3, AssembledInitially, PTL
         DEF AssemblerSpec, KeepsItsPromise, Promise!Spec, OutcomeOf

--------------------------------------------------------------------------
(* Part III: files and listings.                                           *)

--------------------------------------------------------------------------
(* Constants: what a PUSH shows is what its bytes spell.                   *)

Powers == {1, 256, 65536, 16777216, 4294967296, 1099511627776,
           281474976710656, 72057594037927936}

LEMMA PowersOfBytes ==
    /\ \A j \in 0 .. WordBytes - 1 : 256 ^ j \in Powers
    /\ \A j \in 0 .. WordBytes : 256 ^ j \in Nat \ {0}
<1> DEFINE power == [j \in 0 .. WordBytes |-> 256 ^ j]
<1>1. /\ WordBytes \in Nat /\ WordBytes <= 8 /\ power[0] = 1
      /\ \A n \in 0 .. WordBytes - 1 : power[n + 1] = 256 * power[n]
  <2>1. WordBytes \in Nat /\ WordBytes <= 8
    BY CodecAssumption
  <2>2. ASSUME NEW n \in 0 .. WordBytes - 1 PROVE power[n + 1] = 256 * power[n]
    <3>1. n \in 0 .. WordBytes /\ n + 1 \in 0 .. WordBytes
      BY <2>1
    <3>2. 256 ^ (n + 1) = 256 * 256 ^ n
      BY PowerAssumption
    <3> QED BY <3>1, <3>2
  <2>3. 0 \in 0 .. WordBytes /\ 256 ^ 0 = 1
    BY <2>1, PowerAssumption
  <2> QED BY <2>1, <2>2, <2>3
<1>2. \A j \in 0 .. WordBytes : power[j] = 256 ^ j
  OBVIOUS
<1> HIDE DEF power
<1>3. 0 < WordBytes => power[1] = 256
  BY <1>1, SMT
<1>4. 1 < WordBytes => power[2] = 65536
  BY <1>1, <1>3, SMT
<1>5. 2 < WordBytes => power[3] = 16777216
  BY <1>1, <1>4, SMT
<1>6. 3 < WordBytes => power[4] = 4294967296
  BY <1>1, <1>5, SMT
<1>7. 4 < WordBytes => power[5] = 1099511627776
  BY <1>1, <1>6, SMT
<1>8. 5 < WordBytes => power[6] = 281474976710656
  BY <1>1, <1>7, SMT
<1>9. 6 < WordBytes => power[7] = 72057594037927936
  BY <1>1, <1>8, SMT
<1>10. 7 < WordBytes => power[8] = 18446744073709551616
  BY <1>1, <1>9, SMT
<1>11. ASSUME NEW j \in 0 .. WordBytes - 1 PROVE 256 ^ j \in Powers
  <2>1. j \in {0, 1, 2, 3, 4, 5, 6, 7} /\ j < WordBytes /\ j \in 0 .. WordBytes
    BY <1>1
  <2>2. power[j] \in Powers
    BY <2>1, <1>1, <1>3, <1>4, <1>5, <1>6, <1>7, <1>8, <1>9, SMT DEF Powers
  <2> QED BY <1>2, <2>1, <2>2
<1>12. ASSUME NEW j \in 0 .. WordBytes PROVE 256 ^ j \in Nat \ {0}
  <2>1. j \in {0, 1, 2, 3, 4, 5, 6, 7, 8} /\ j <= WordBytes
    BY <1>1
  <2>2. power[j] \in Nat \ {0}
    BY <2>1, <1>1, <1>3, <1>4, <1>5, <1>6, <1>7, <1>8, <1>9, <1>10, SMT
  <2> QED BY <1>2, <2>2
<1> QED BY <1>11, <1>12

\* Dropping j bytes and then one more is dropping j + 1.
LEMMA DropOneMore ==
    ASSUME NEW x \in Int, NEW P \in Powers
    PROVE  (x \div P) \div 256 = x \div (256 * P)
<1>1. (x \div 1) \div 256 = x \div 256
  BY SMT
<1>2. (x \div 256) \div 256 = x \div 65536
  BY SMT
<1>3. (x \div 65536) \div 256 = x \div 16777216
  BY SMT
<1>4. (x \div 16777216) \div 256 = x \div 4294967296
  BY SMT
<1>5. (x \div 4294967296) \div 256 = x \div 1099511627776
  BY SMT
<1>6. (x \div 1099511627776) \div 256 = x \div 281474976710656
  BY SMT
<1>7. (x \div 281474976710656) \div 256 = x \div 72057594037927936
  BY SMT
<1>8. (x \div 72057594037927936) \div 256 = x \div 18446744073709551616
  BY SMT
<1> QED BY <1>1, <1>2, <1>3, <1>4, <1>5, <1>6, <1>7, <1>8, SMT DEF Powers

\* The number n bytes spell, a byte at a time.
Spelt(bytes, n, acc) ==
    /\ acc \in [0 .. n -> Nat]
    /\ acc[0] = 0
    /\ \A k \in 1 .. n : acc[k] = 256 * acc[k - 1] + bytes[k]

LEMMA NumberSpelt ==
    ASSUME NEW n \in Nat, NEW bytes \in Seq(Byte), Len(bytes) = n
    PROVE  \E acc : /\ Spelt(bytes, n, acc)
                    /\ SignExtend(bytes) =
                          IF bytes[1] >= 128 THEN acc[n] - 256 ^ n ELSE acc[n]
<1> DEFINE D == 1 .. n
           base == 0
           body(g, s) == IF s = {} THEN base
                         ELSE 256 * g[s \ {Max(s)}] + bytes[Max(s)]
           it == CHOOSE g : g = [s \in SUBSET DOMAIN bytes |-> body(g, s)]
<1>1. SignExtend(bytes) =
         IF bytes[1] >= 128 THEN it[DOMAIN bytes] - 256 ^ n ELSE it[DOMAIN bytes]
  BY DEF SignExtend, FoldLeft, MapThenFoldSet
<1>2. DOMAIN bytes = D /\ \A k \in D : bytes[k] \in Nat
  <2>1. Byte \subseteq Nat
    BY DEF Byte
  <2>2. DOMAIN bytes = D /\ \A k \in D : bytes[k] \in Byte
    BY LenProperties, ElementOfSeq
  <2> QED BY <2>1, <2>2
<1>3. \E g : g = [s \in SUBSET D |-> body(g, s)] /\ \A s \in SUBSET D : g[s] \in Nat
  <2> DEFINE step == [p \in D \X Nat |-> 256 * p[2] + bytes[p[1]]]
             V == Nat
  <2>1. \A k \in D : \A v \in V : /\ step[<<k, v>>] = 256 * v + bytes[k]
                                 /\ step[<<k, v>>] \in V
    BY <1>2
  <2>2. base \in V
    OBVIOUS
  <2> HIDE DEF step, V, base
  <2>3. \E g : LeftFolds(g, n, V, base, step)
    BY <2>1, <2>2, LeftFoldExists
  <2>4. PICK g : LeftFolds(g, n, V, base, step)
    BY <2>3
  <2>5. \A s \in SUBSET D : g[s] = body(g, s)
    <3> TAKE s \in SUBSET D
    <3>1. CASE s = {}
      BY <2>4, <3>1 DEF LeftFolds
    <3>2. CASE s # {}
      <4>1. /\ Max(s) \in D /\ g[s \ {Max(s)}] \in V
            /\ g[s] = step[<<Max(s), g[s \ {Max(s)}]>>]
        BY <2>4, <3>2 DEF LeftFolds
      <4> QED BY <2>1, <3>2, <4>1
    <3> QED BY <3>1, <3>2
  <2>6. g = [s \in SUBSET D |-> body(g, s)]
    <3> HIDE DEF body
    <3> QED BY <2>4, <2>5 DEF LeftFolds
  <2>7. \A s \in SUBSET D : g[s] \in Nat
    BY <2>4 DEF LeftFolds, V
  <2> QED BY <2>6, <2>7
<1>4. it = [s \in SUBSET D |-> body(it, s)]
  <2>1. it = CHOOSE g : g = [s \in SUBSET D |-> body(g, s)]
    <3> HIDE DEF body, D
    <3> QED BY <1>2
  <2> HIDE DEF body, D, it
  <2> QED BY <1>3, <2>1
<1> HIDE DEF it
<1>5. \A k \in 1 .. n : it[1 .. k] = 256 * it[1 .. k - 1] + bytes[k]
  <2> TAKE k \in 1 .. n
  <2>1. /\ 1 .. k \in SUBSET D /\ 1 .. k # {} /\ Max(1 .. k) = k
        /\ (1 .. k) \ {k} = 1 .. k - 1
    BY TopOfInterval
  <2>2. it[1 .. k] = body(it, 1 .. k)
    <3> HIDE DEF body, D
    <3> QED BY <1>4, <2>1
  <2>3. body(it, 1 .. k) = 256 * it[(1 .. k) \ {k}] + bytes[k]
    <3> HIDE DEF D, base
    <3> QED BY <2>1
  <2> QED BY <2>1, <2>2, <2>3
<1>6. it[1 .. 0] = 0
  <2>1. 1 .. 0 = {} /\ {} \in SUBSET D
    OBVIOUS
  <2> QED BY <1>4, <2>1
<1> DEFINE acc == [k \in 0 .. n |-> it[1 .. k]]
<1>7. acc[0] = 0
  BY <1>6
<1>8. \A k \in 1 .. n : acc[k] = 256 * acc[k - 1] + bytes[k]
  <2> TAKE k \in 1 .. n
  <2>1. k \in 0 .. n /\ k - 1 \in 0 .. n
    OBVIOUS
  <2> QED BY <1>5, <2>1
<1>9. acc[n] = it[DOMAIN bytes]
  BY <1>2
<1>10. \A k \in 0 .. n : acc[k] \in Nat
  <2> DEFINE V == Nat
  <2> HIDE DEF acc
  <2>1. acc[0] \in V
    BY <1>7
  <2>2. ASSUME NEW k \in 1 .. n, acc[k - 1] \in V PROVE acc[k] \in V
    BY <1>2, <1>8, <2>2
  <2>3. \A k \in 0 .. n : acc[k] \in V
    <3> HIDE DEF V
    <3> QED BY <2>1, <2>2, ChainStays
  <2> QED BY <2>3
<1>11. acc \in [0 .. n -> Nat]
  BY <1>10
<1> HIDE DEF acc
<1>12. Spelt(bytes, n, acc)
  BY <1>7, <1>8, <1>11 DEF Spelt
<1> QED BY <1>1, <1>9, <1>12

\* The bytes of the number that n bytes spell are those n bytes.
LEMMA BytesShown ==
    ASSUME NEW n \in 1 .. WordBytes, NEW bytes \in Seq(Byte), Len(bytes) = n
    PROVE  LowBytes(SignExtend(bytes), n) = bytes
<1> DEFINE x == SignExtend(bytes)
<1>1. n \in Nat /\ n >= 1 /\ n <= WordBytes /\ WordBytes \in Nat
  BY CodecAssumption
<1>2. \A i \in 1 .. n : bytes[i] \in 0 .. 255
  BY <1>1, ElementOfSeq DEF Byte
<1>3. PICK acc : /\ Spelt(bytes, n, acc)
                 /\ x = IF bytes[1] >= 128 THEN acc[n] - 256 ^ n ELSE acc[n]
  BY <1>1, NumberSpelt
<1>4. /\ \A k \in 0 .. n : acc[k] \in Nat
      /\ \A k \in 1 .. n : acc[k] = 256 * acc[k - 1] + bytes[k]
  BY <1>3 DEF Spelt
<1> DEFINE neg == bytes[1] >= 128
           less == [k \in 0 .. n |-> IF neg THEN 256 ^ k ELSE 0]
<1>5. /\ \A k \in 0 .. n : less[k] \in Nat
      /\ \A k \in 1 .. n : less[k] = 256 * less[k - 1]
      /\ x = acc[n] - less[n]
  <2>1. \A k \in 0 .. n : k \in 0 .. WordBytes /\ 256 ^ k \in Nat
    BY <1>1, PowersOfBytes
  <2>2. ASSUME NEW k \in 1 .. n PROVE less[k] = 256 * less[k - 1]
    <3>1. k - 1 \in 0 .. WordBytes - 1 /\ (k - 1) + 1 = k /\ k \in 0 .. n /\ k - 1 \in 0 .. n
      BY <1>1
    <3>2. 256 ^ k = 256 * 256 ^ (k - 1)
      BY <3>1, PowerAssumption
    <3> QED BY <3>1, <3>2
  <2>3. n \in 0 .. n
    BY <1>1
  <2>4. x = acc[n] - less[n]
    <3>1. CASE neg
      BY <1>3, <2>3, <3>1
    <3>2. CASE ~neg
      <4>1. acc[n] \in Nat /\ less[n] = 0
        BY <1>4, <2>3, <3>2
      <4> QED BY <1>3, <3>2, <4>1
    <3> QED BY <3>1, <3>2
  <2>5. \A k \in 0 .. n : less[k] \in Nat
    BY <2>1
  <2> HIDE DEF x, less
  <2> QED BY <2>2, <2>4, <2>5
<1> HIDE DEF x, less
<1> DEFINE V == {j \in 0 .. n - 1 : x \div 256 ^ j = acc[n - j] - less[n - j]}
           chain == [j \in 0 .. n - 1 |-> j]
<1>6. chain[0] \in V
  <2>1. 0 \in 0 .. n - 1 /\ n - 0 = n /\ n \in 0 .. n
    BY <1>1
  <2>2. 256 ^ 0 = 1
    BY PowerAssumption
  <2>3. acc[n] - less[n] \in Int
    BY <1>4, <1>5, <2>1
  <2>4. x \div 256 ^ 0 = acc[n] - less[n]
    BY <1>5, <2>2, <2>3
  <2> QED BY <2>1, <2>4
<1>7. ASSUME NEW j \in 1 .. n - 1, chain[j - 1] \in V PROVE chain[j] \in V
  <2>1. /\ j - 1 \in 0 .. n - 1 /\ j \in 0 .. n - 1 /\ j - 1 \in 0 .. WordBytes - 1
        /\ (j - 1) + 1 = j /\ n - (j - 1) \in 1 .. n /\ n - j \in 0 .. n
        /\ (n - (j - 1)) - 1 = n - j
    BY <1>1
  <2>2. x \div 256 ^ (j - 1) = acc[n - (j - 1)] - less[n - (j - 1)]
    BY <1>7, <2>1
  <2>3. /\ acc[n - (j - 1)] = 256 * acc[n - j] + bytes[n - (j - 1)]
        /\ less[n - (j - 1)] = 256 * less[n - j]
    BY <1>4, <1>5, <2>1
  <2>4. PICK u \in Nat : u = acc[n - j]
    BY <1>4, <2>1
  <2>5. PICK w \in Nat : w = less[n - j]
    BY <1>5, <2>1
  <2>6. PICK d \in 0 .. 255 : d = bytes[n - (j - 1)]
    BY <1>2, <2>1
  <2>7. x \div 256 ^ (j - 1) = 256 * (u - w) + d
    <3>1. acc[n - (j - 1)] = 256 * u + d
      BY <2>3, <2>4, <2>6
    <3>2. less[n - (j - 1)] = 256 * w
      BY <2>3, <2>5
    <3>3. (256 * u + d) - 256 * w = 256 * (u - w) + d
      OBVIOUS
    <3> QED BY <2>2, <3>1, <3>2, <3>3
  <2>8. (256 * (u - w) + d) \div 256 = u - w
    OBVIOUS
  <2>9. x \in Int
    <3>1. n \in 0 .. n
      BY <1>1
    <3>2. acc[n] \in Nat /\ less[n] \in Nat
      BY <1>4, <1>5, <3>1
    <3> QED BY <1>5, <3>2
  <2>10. 256 ^ (j - 1) \in Powers
    BY <2>1, PowersOfBytes
  <2>11. (x \div 256 ^ (j - 1)) \div 256 = x \div (256 * 256 ^ (j - 1))
    <3>1. PICK P \in Powers : P = 256 ^ (j - 1)
      BY <2>10
    <3>2. (x \div P) \div 256 = x \div (256 * P)
      BY <2>9, DropOneMore
    <3> QED BY <3>1, <3>2
  <2>12. 256 ^ j = 256 * 256 ^ (j - 1)
    BY <2>1, PowerAssumption
  <2>13. x \div 256 ^ j = u - w
    BY <2>7, <2>8, <2>11, <2>12
  <2> QED BY <2>1, <2>4, <2>5, <2>13
<1>8. \A j \in 0 .. n - 1 : chain[j] \in V
  <2>1. n - 1 \in Nat
    BY <1>1
  <2> HIDE DEF chain, V
  <2> QED BY <1>6, <1>7, <2>1, ChainStays
<1>9. ASSUME NEW i \in 1 .. n PROVE (x \div 256 ^ (n - i)) % 256 = bytes[i]
  <2>1. n - i \in 0 .. n - 1 /\ n - (n - i) = i /\ i - 1 \in 0 .. n
    BY <1>1
  <2>2. x \div 256 ^ (n - i) = acc[i] - less[i]
    BY <1>8, <2>1
  <2>3. acc[i] = 256 * acc[i - 1] + bytes[i] /\ less[i] = 256 * less[i - 1]
    BY <1>4, <1>5
  <2>4. PICK u \in Nat : u = acc[i - 1]
    BY <1>4, <2>1
  <2>5. PICK w \in Nat : w = less[i - 1]
    BY <1>5, <2>1
  <2>6. PICK d \in 0 .. 255 : d = bytes[i]
    BY <1>2
  <2>7. x \div 256 ^ (n - i) = 256 * (u - w) + d
    <3>1. acc[i] = 256 * u + d
      BY <2>3, <2>4, <2>6
    <3>2. less[i] = 256 * w
      BY <2>3, <2>5
    <3>3. (256 * u + d) - 256 * w = 256 * (u - w) + d
      OBVIOUS
    <3> QED BY <2>2, <3>1, <3>2, <3>3
  <2>8. (256 * (u - w) + d) % 256 = d
    OBVIOUS
  <2> QED BY <2>6, <2>7, <2>8
<1>10. LowBytes(x, n) = [i \in 1 .. n |-> bytes[i]]
  BY <1>9 DEF LowBytes
<1>11. bytes = [i \in 1 .. n |-> bytes[i]]
  BY LenProperties
<1> QED BY <1>10, <1>11 DEF x

--------------------------------------------------------------------------
(* Decoding and encoding again gives the bytes back.                       *)

\* The operands that are made of bytes.
U16 == {n \in Nat : n < 65536}
InRange(field) ==
    IF field.kind = "bytes" THEN {v \in Seq(Byte) : Len(v) = field.width}
    ELSE IF field.kind = "u16" THEN U16 ELSE Byte
ArgsInRange(row, instr) ==
    \A k \in DOMAIN row.fields : instr.args[k] \in InRange(row.fields[k])

LEMMA FieldKinds ==
    ASSUME NEW field \in Fields
    PROVE  \/ field.kind \notin {"bytes", "u16"} /\ field.width = 1
           \/ field.kind = "u16" /\ field.width = 2
           \/ field.kind = "bytes" /\ field.width \in 1 .. WordBytes
<1>1. CASE field = RegisterField \/ field = NarrowField
  BY <1>1 DEF RegisterField, NarrowField
<1>2. CASE field = WideField
  BY <1>2 DEF WideField
<1>3. CASE \E n \in 1 .. WordBytes : field = BytesField(n)
  BY <1>3 DEF BytesField
<1> QED BY <1>1, <1>2, <1>3 DEF Fields

LEMMA Ranges ==
    ASSUME NEW field
    PROVE  /\ field.kind \notin {"bytes", "u16"} => InRange(field) = Byte
           /\ field.kind = "u16" => InRange(field) = U16
           /\ field.kind = "bytes" =>
                 InRange(field) = {v \in Seq(Byte) : Len(v) = field.width}
<1>1. ASSUME field.kind \notin {"bytes", "u16"} PROVE InRange(field) = Byte
  BY <1>1, Zenon DEF InRange
<1>2. ASSUME field.kind = "u16" PROVE InRange(field) = U16
  <2>1. field.kind # "bytes"
    BY <1>2
  <2> QED BY <1>2, <2>1, Zenon DEF InRange
<1>3. ASSUME field.kind = "bytes"
      PROVE  InRange(field) = {v \in Seq(Byte) : Len(v) = field.width}
  BY <1>3, Zenon DEF InRange
<1> QED BY <1>1, <1>2, <1>3

LEMMA BytesAreValues == Byte \subseteq Values /\ Byte \subseteq Int /\ Seq(Byte) \subseteq Seq(Values)
<1>1. Byte \subseteq Int
  BY DEF Byte
<1>2. Byte \subseteq Values
  BY <1>1 DEF Values
<1>3. ASSUME NEW s \in Seq(Byte) PROVE s \in Seq(Values)
  BY <1>2, <1>3, LenProperties, ElementOfSeq, SeqDef
<1> QED BY <1>1, <1>2, <1>3

LEMMA OperandBytes ==
    ASSUME NEW field \in Fields, NEW v \in InRange(field)
    PROVE  /\ v \in OperandsOf(field)
           /\ \A i \in 1 .. field.width : EncodeOperand(field, v)[i] \in Byte
<1>1. CASE field.kind \notin {"bytes", "u16"} /\ field.width = 1
  <2>1. v \in Byte
    BY <1>1, Ranges
  <2>2. EncodeOperand(field, v) = <<v>>
    BY <1>1 DEF EncodeOperand
  <2>3. v \in OperandsOf(field)
    BY <1>1, <2>1, BytesAreValues DEF OperandsOf
  <2> QED BY <1>1, <2>1, <2>2, <2>3
<1>2. CASE field.kind = "u16" /\ field.width = 2
  <2>1. v \in U16
    BY <1>2, Ranges
  <2>2. EncodeOperand(field, v) = <<v \div 256, v % 256>>
    BY <1>2 DEF EncodeOperand
  <2>3. v \in OperandsOf(field)
    BY <1>2, <2>1 DEF OperandsOf, U16
  <2>4. v \div 256 \in Byte /\ v % 256 \in Byte
    <3>1. v \div 256 \in 0 .. 255
      BY <2>1, SMT DEF U16
    <3>2. v % 256 \in 0 .. 255
      BY <2>1, SMT DEF U16
    <3> QED BY <3>1, <3>2 DEF Byte
  <2> QED BY <1>2, <2>2, <2>3, <2>4
<1>3. CASE field.kind = "bytes" /\ field.width \in 1 .. WordBytes
  <2>1. v \in Seq(Byte) /\ Len(v) = field.width
    BY <1>3, Ranges
  <2>2. EncodeOperand(field, v) = v
    BY <1>3 DEF EncodeOperand
  <2>3. v \in OperandsOf(field)
    BY <1>3, <2>1, BytesAreValues DEF OperandsOf
  <2> QED BY <2>1, <2>2, <2>3, ElementOfSeq
<1> QED BY <1>1, <1>2, <1>3, FieldKinds

LEMMA TwoBytes ==
    ASSUME NEW x \in 0 .. 255, NEW y \in 0 .. 255
    PROVE  256 * x + y \in U16
BY DEF U16

LEMMA OperandRead ==
    ASSUME NEW field \in Fields, NEW s \in Seq(Byte), Len(s) = field.width
    PROVE  /\ DecodeOperand(field, s) \in InRange(field)
           /\ \A i \in 1 .. field.width : EncodeOperand(field, DecodeOperand(field, s))[i] = s[i]
<1>1. CASE field.kind \notin {"bytes", "u16"} /\ field.width = 1
  <2>1. s[1] \in Byte
    BY <1>1, ElementOfSeq
  <2>2. DecodeOperand(field, s) = s[1] /\ EncodeOperand(field, s[1]) = <<s[1]>>
    BY <1>1 DEF EncodeOperand, DecodeOperand
  <2>3. s[1] \in InRange(field)
    BY <1>1, <2>1, Ranges
  <2>4. <<s[1]>>[1] = s[1] /\ \A i \in 1 .. 1 : i = 1
    OBVIOUS
  <2> QED BY <1>1, <2>2, <2>3, <2>4
<1>2. CASE field.kind = "u16" /\ field.width = 2
  <2>1. s[1] \in 0 .. 255 /\ s[2] \in 0 .. 255
    <3>1. 1 \in 1 .. Len(s) /\ 2 \in 1 .. Len(s)
      BY <1>2
    <3> QED BY <3>1, ElementOfSeq DEF Byte
  <2>6. PICK x \in 0 .. 255 : x = s[1]
    BY <2>1
  <2>7. PICK y \in 0 .. 255 : y = s[2]
    BY <2>1
  <2> DEFINE v == 256 * x + y
  <2>2. DecodeOperand(field, s) = v /\ EncodeOperand(field, v) = <<v \div 256, v % 256>>
    BY <1>2, <2>6, <2>7 DEF EncodeOperand, DecodeOperand
  <2>3. v \div 256 = x /\ v % 256 = y /\ v \in U16
    <3>1. (256 * x + y) \div 256 = x
      OBVIOUS
    <3>2. (256 * x + y) % 256 = y
      OBVIOUS
    <3>3. 256 * x + y \in U16
      BY TwoBytes
    <3> QED BY <3>1, <3>2, <3>3
  <2>4. v \in InRange(field)
    BY <1>2, <2>3, Ranges
  <2>5. <<x, y>>[1] = x /\ <<x, y>>[2] = y /\ \A i \in 1 .. 2 : i = 1 \/ i = 2
    OBVIOUS
  <2> HIDE DEF v
  <2> QED BY <1>2, <2>2, <2>3, <2>4, <2>5, <2>6, <2>7
<1>3. CASE field.kind = "bytes" /\ field.width \in 1 .. WordBytes
  <2>1. DecodeOperand(field, s) = s /\ EncodeOperand(field, s) = s
    BY <1>3 DEF EncodeOperand, DecodeOperand
  <2> QED BY <1>3, <2>1, Ranges
<1> QED BY <1>1, <1>2, <1>3, FieldKinds

\* Every byte behind the opcode belongs to an operand.
LEMMA EveryByteHasAField ==
    ASSUME NEW fields \in Seq(Fields), NEW size, Sizes(fields, size),
           NEW n \in Nat, n = Len(fields), NEW p \in Nat, p > 1, p <= size[n]
    PROVE  \E k \in 1 .. n : \E i \in 1 .. fields[k].width : p = size[k - 1] + i
<1>1. /\ \A k \in 0 .. n : size[k] \in Nat
      /\ size[0] = 1 /\ \A k \in 1 .. n : size[k] = size[k - 1] + fields[k].width
  BY DEF Sizes
<1>2. \A k \in 1 .. n : fields[k].width \in Nat
  BY LenProperties, ElementOfSeq, FieldWidths
<1> DEFINE covered == \E k \in 1 .. n : \E i \in 1 .. fields[k].width : p = size[k - 1] + i
           V == {m \in 0 .. n : p <= size[m] => covered}
           chain == [m \in 0 .. n |-> m]
<1>3. chain[0] \in V
  BY <1>1
<1>4. ASSUME NEW m \in 1 .. n, chain[m - 1] \in V PROVE chain[m] \in V
  <2>1. m \in 0 .. n /\ m - 1 \in 0 .. n /\ chain[m] = m /\ chain[m - 1] = m - 1
    OBVIOUS
  <2>2. PICK a \in Nat : a = size[m - 1]
    BY <1>1, <2>1
  <2>3. PICK w \in Nat : w = fields[m].width
    BY <1>2
  <2>4. size[m] = a + w
    BY <1>1, <2>2, <2>3
  <2>5. p <= a => covered
    BY <1>4, <2>1, <2>2
  <2>6. ASSUME p <= a + w, ~(p <= a) PROVE covered
    <3>1. p - a \in 1 .. w /\ p = a + (p - a)
      BY <2>6
    <3> QED BY <2>2, <2>3, <3>1
  <2> HIDE DEF covered
  <2>7. p <= size[m] => covered
    BY <2>4, <2>5, <2>6
  <2> QED BY <2>1, <2>7
<1>5. \A m \in 0 .. n : chain[m] \in V
  <2> HIDE DEF chain, V
  <2> QED BY <1>3, <1>4, ChainStays
<1>6. n \in 0 .. n /\ chain[n] = n
  OBVIOUS
<1> QED BY <1>5, <1>6

\* An opcode is a byte, and no mnemonic is the one for bytes that are none.
LEMMA RowCodes ==
    ASSUME NEW row \in Table
    PROVE  row.code \in Byte /\ row.op # ".byte"
<1>1. CASE \E o \in Pairs : row = RowOf(o)
  <2>1. \A o \in Pairs : o[1] \in 0 .. 255
    BY DEF Pairs, Plain, OneRegister, TwoRegisters, ThreeRegisters, NarrowJumps, WideJumps
  <2>2. \A o \in Pairs : o[2] # ".byte"
    BY DEF Pairs, Plain, OneRegister, TwoRegisters, ThreeRegisters, NarrowJumps, WideJumps
  <2> QED BY <1>1, <2>1, <2>2 DEF RowOf, Byte
<1>2. CASE \E n \in 1 .. WordBytes : row = PushRow(n)
  <2>1. PICK n \in 1 .. WordBytes : row = PushRow(n)
    BY <1>2
  <2>2. n \in 1 .. 8
    BY CodecAssumption
  <2>3. 16 + n \in 0 .. 255 /\ PushName[n] # ".byte"
    BY <2>2, Pushes
  <2> QED BY <2>1, <2>3 DEF PushRow, Byte
<1> QED BY <1>1, <1>2, Rows

\* Instructions with operands in range are encoded in bytes.
LEMMA BytesOfInstruction ==
    ASSUME NEW row \in Table, NEW instr, RowHolds(row, instr), ArgsInRange(row, instr)
    PROVE  Encode(instr) \in Seq(Byte)
<1> DEFINE fields == row.fields
           code == Encode(instr)
<1>1. PICK n \in Nat : n = Len(fields)
  BY RowFields, LenProperties
<1>2. PICK size : Sizes(fields, size)
  BY RowFields, SizesExist
<1>3. Encodes(code, row, size, instr.args)
  BY <1>2, EncodeRow
<1>4. /\ code \in Seq(Values) /\ Len(code) = size[n] /\ code[1] = row.code
      /\ \A k \in 1 .. n : \A i \in 1 .. fields[k].width :
            code[size[k - 1] + i] = EncodeOperand(fields[k], instr.args[k])[i]
  BY <1>1, <1>3 DEF Encodes
<1>5. \A k \in 1 .. n : k \in DOMAIN fields /\ fields[k] \in Fields
  BY <1>1, RowFields, LenProperties, ElementOfSeq
<1>6. PICK e \in Nat : e = Len(code)
  BY <1>4, LenProperties
<1> HIDE DEF fields, code
<1>7. ASSUME NEW p \in 1 .. e PROVE code[p] \in Byte
  <2>1. CASE p = 1
    BY <1>4, <2>1, RowCodes
  <2>2. CASE p # 1
    <3>1. p \in Nat /\ p > 1 /\ p <= size[n]
      BY <1>4, <1>6, <2>2
    <3>2. fields \in Seq(Fields)
      BY RowFields DEF fields
    <3>3. PICK k \in 1 .. n : \E i \in 1 .. fields[k].width : p = size[k - 1] + i
      BY <1>1, <1>2, <3>1, <3>2, EveryByteHasAField
    <3>4. PICK i \in 1 .. fields[k].width : p = size[k - 1] + i
      BY <3>3
    <3>5. instr.args[k] \in InRange(fields[k])
      BY <1>5 DEF ArgsInRange, fields
    <3>6. EncodeOperand(fields[k], instr.args[k])[i] \in Byte
      BY <1>5, <3>5, OperandBytes
    <3> QED BY <1>4, <3>4, <3>6
  <2> QED BY <2>1, <2>2
<1>8. code = [p \in 1 .. e |-> code[p]]
  BY <1>4, <1>6, LenProperties
<1>9. code \in [1 .. e -> Byte]
  BY <1>7, <1>8
<1>10. code \in Seq(Byte)
  BY <1>9, SeqDef
<1> QED BY <1>10 DEF code
\* The w elements behind the first s.
LEMMA Slice ==
    ASSUME NEW S, NEW bytes \in Seq(S), NEW z \in Nat, z = Len(bytes),
           NEW s \in Nat, NEW w \in Nat, s + w <= z
    PROVE  /\ SubSeq(bytes, s + 1, s + w) \in Seq(S)
           /\ Len(SubSeq(bytes, s + 1, s + w)) = w
           /\ \A i \in 1 .. w : SubSeq(bytes, s + 1, s + w)[i] = bytes[s + i]
<1> DEFINE sub == SubSeq(bytes, s + 1, s + w)
<1>1. s + 1 \in 1 .. z + 1 /\ s + w \in (s + 1) - 1 .. z
  OBVIOUS
<1>2. /\ sub \in Seq(S)
      /\ Len(sub) = IF s + 1 <= s + w THEN (s + w) - (s + 1) + 1 ELSE 0
      /\ \A i \in 1 .. (s + w) - (s + 1) + 1 : sub[i] = bytes[(s + 1) + i - 1]
  BY <1>1, SubSeqProperties
<1> HIDE DEF sub
<1>3. (s + w) - (s + 1) + 1 = w /\ (~(s + 1 <= s + w) => w = 0)
  OBVIOUS
<1>4. \A i \in 1 .. w : (s + 1) + i - 1 = s + i
  OBVIOUS
<1>5. \A i \in 1 .. w : sub[i] = bytes[s + i]
  BY <1>2, <1>3, <1>4
<1>6. Len(sub) = w
  BY <1>2, <1>3
<1> QED BY <1>2, <1>5, <1>6 DEF sub

\* No operand ends before the opcode or behind the last one.
LEMMA SizesGrow ==
    ASSUME NEW fields \in Seq(Fields), NEW size, Sizes(fields, size),
           NEW n \in Nat, n = Len(fields)
    PROVE  \A k \in 0 .. n : size[k] \in Nat /\ size[k] >= 1 /\ size[k] <= size[n]
<1>1. /\ \A k \in 0 .. n : size[k] \in Nat
      /\ size[0] = 1 /\ \A k \in 1 .. n : size[k] = size[k - 1] + fields[k].width
  BY DEF Sizes
<1>2. \A k \in 1 .. n : fields[k].width \in Nat
  BY LenProperties, ElementOfSeq, FieldWidths
<1> DEFINE V == {m \in 0 .. n : size[m] >= 1 /\ \A k \in 0 .. m : size[k] <= size[m]}
           chain == [m \in 0 .. n |-> m]
<1>3. chain[0] \in V
  <2>1. 0 \in 0 .. n /\ \A k \in 0 .. 0 : k = 0
    OBVIOUS
  <2> QED BY <1>1, <2>1
<1>4. ASSUME NEW m \in 1 .. n, chain[m - 1] \in V PROVE chain[m] \in V
  <2>1. /\ m \in 0 .. n /\ m - 1 \in 0 .. n /\ chain[m] = m /\ chain[m - 1] = m - 1
        /\ m \in Nat
    OBVIOUS
  <2>2. PICK a \in Nat : a = size[m - 1]
    BY <1>1, <2>1
  <2>3. PICK c \in Nat : c = fields[m].width
    BY <1>2
  <2>4. size[m] = a + c /\ a >= 1
    BY <1>1, <1>4, <2>1, <2>2, <2>3
  <2>5. ASSUME NEW k \in 0 .. m PROVE size[k] <= size[m]
    <3>1. CASE k = m
      BY <2>4, <3>1
    <3>2. CASE k # m
      <4>1. k \in 0 .. m - 1 /\ k \in 0 .. n
        BY <2>1, <3>2
      <4>2. size[k] <= a /\ size[k] \in Nat
        BY <1>1, <1>4, <2>1, <2>2, <4>1
      <4> QED BY <2>4, <4>2
    <3> QED BY <3>1, <3>2
  <2> QED BY <2>1, <2>4, <2>5
<1>5. \A m \in 0 .. n : chain[m] \in V
  <2> HIDE DEF chain, V
  <2> QED BY <1>3, <1>4, ChainStays
<1>6. n \in 0 .. n /\ \A m \in 0 .. n : chain[m] = m
  OBVIOUS
<1> QED BY <1>1, <1>5, <1>6

\* What is decoded is encoded as the bytes it was read from.
Decoded(bytes, row, instr, consumed) ==
    /\ row \in Table /\ RowHolds(row, instr) /\ ArgsInRange(row, instr)
    /\ Encode(instr) \in Seq(Values) /\ Len(Encode(instr)) = consumed
    /\ consumed \in 1 .. Len(bytes)
    /\ \A i \in 1 .. consumed : Encode(instr)[i] = bytes[i]

LEMMA DecodedBytes ==
    ASSUME NEW bytes \in Seq(Byte), Decode(bytes).error = "none"
    PROVE  \E row : Decoded(bytes, row, Decode(bytes).instr, Decode(bytes).consumed)
<1>1. bytes # <<>> /\ bytes[1] \in DOMAIN OfCode
      /\ Decode(bytes) = DecodeRow(OfCode[bytes[1]], bytes)
  BY DEF Decode
<1>2. PICK row \in Table : row = OfCode[bytes[1]] /\ row.code = bytes[1]
  BY <1>1, CodesKnown
<1>3. PICK fields \in Seq(Fields) : fields = row.fields
  BY RowFields
<1>4. PICK n \in Nat : n = Len(fields)
  BY LenProperties
<1>5. PICK size : /\ Sizes(fields, size)
                  /\ \A k \in 0 .. n : SizeOfFields(fields, k) = size[k]
  BY <1>4, SizesExist
<1>6. \A k \in 0 .. n : size[k] \in Nat /\ size[k] >= 1 /\ size[k] <= size[n]
  BY <1>4, <1>5, SizesGrow
<1>7. /\ DOMAIN fields = 1 .. n
      /\ \A k \in 1 .. n : fields[k] \in Fields /\ fields[k].width \in Nat
      /\ \A k \in 1 .. n : size[k] = size[k - 1] + fields[k].width
  BY <1>4, <1>5, LenProperties, ElementOfSeq, FieldWidths DEF Sizes
<1>8. PICK z \in Nat : z = Len(bytes)
  BY LenProperties
<1> DEFINE read == [k \in DOMAIN fields |->
                       DecodeOperand(fields[k],
                           SubSeq(bytes, SizeOfFields(fields, k - 1) + 1,
                                         SizeOfFields(fields, (k + 1) - 1)))]
           instr == Instr(row.op, read)
<1>9. /\ ~(z < size[n])
      /\ Decode(bytes) = [error |-> "none", consumed |-> size[n], instr |-> instr]
  <2>1. DecodeRow(row, bytes) =
         IF Len(bytes) < SizeOfFields(fields, (Len(fields) + 1) - 1)
         THEN [error |-> "TruncatedOperand"]
         ELSE [error |-> "none", consumed |-> SizeOfFields(fields, (Len(fields) + 1) - 1),
               instr |-> instr]
    BY <1>3 DEF DecodeRow
  <2>2. (n + 1) - 1 = n /\ n \in 0 .. n
    OBVIOUS
  <2> HIDE DEF instr
  <2>3. DecodeRow(row, bytes) =
         IF z < size[n] THEN [error |-> "TruncatedOperand"]
         ELSE [error |-> "none", consumed |-> size[n], instr |-> instr]
    BY <1>4, <1>5, <1>8, <2>1, <2>2
  <2>4. DecodeRow(row, bytes).error = "none"
    BY <1>1, <1>2
  <2> QED BY <1>1, <1>2, <2>3, <2>4
<1>10. ASSUME NEW k \in 1 .. n
       PROVE  /\ read[k] \in InRange(fields[k])
              /\ read[k] \in OperandsOf(fields[k])
              /\ \A i \in 1 .. fields[k].width :
                    EncodeOperand(fields[k], read[k])[i] = bytes[size[k - 1] + i]
  <2> DEFINE sub == SubSeq(bytes, size[k - 1] + 1, size[k])
  <2>1. k - 1 \in 0 .. n /\ k \in 0 .. n /\ (k + 1) - 1 = k
    OBVIOUS
  <2>2. read[k] = DecodeOperand(fields[k], sub)
    BY <1>5, <1>7, <2>1
  <2>3. PICK s \in Nat : s = size[k - 1]
    BY <1>6, <2>1
  <2>4. PICK w \in Nat : w = fields[k].width
    BY <1>7
  <2>5. size[k] = s + w
    BY <1>7, <2>3, <2>4
  <2>6. s >= 1 /\ s + w <= z
    <3>1. n \in 0 .. n
      OBVIOUS
    <3>2. size[k] <= size[n] /\ s >= 1 /\ size[k] \in Nat /\ size[n] \in Nat
      BY <1>6, <2>1, <2>3, <3>1
    <3> QED BY <1>9, <2>5, <3>2
  <2> HIDE DEF read
  <2>7. sub \in Seq(Byte) /\ Len(sub) = w /\ \A i \in 1 .. w : sub[i] = bytes[s + i]
    <3>1. sub = SubSeq(bytes, s + 1, s + w)
      BY <2>3, <2>5
    <3>2. /\ SubSeq(bytes, s + 1, s + w) \in Seq(Byte)
          /\ Len(SubSeq(bytes, s + 1, s + w)) = w
          /\ \A i \in 1 .. w : SubSeq(bytes, s + 1, s + w)[i] = bytes[s + i]
      <4>1. bytes \in Seq(Byte) /\ z \in Nat /\ z = Len(bytes) /\ s \in Nat /\ w \in Nat /\ s + w <= z
        BY <1>8, <2>6
      <4> QED BY ONLY <4>1, Slice, SMTT(60)
    <3> HIDE DEF sub
    <3> QED BY <3>1, <3>2
  <2> HIDE DEF sub
  <2>8. /\ DecodeOperand(fields[k], sub) \in InRange(fields[k])
        /\ \A i \in 1 .. w : EncodeOperand(fields[k], DecodeOperand(fields[k], sub))[i] = sub[i]
    BY <1>7, <2>4, <2>7, OperandRead
  <2>9. read[k] \in OperandsOf(fields[k])
    BY <1>7, <2>2, <2>8, OperandBytes
  <2> QED BY <2>2, <2>3, <2>4, <2>7, <2>8, <2>9
<1>11. /\ instr.op = row.op /\ instr.args = read
       /\ read = [k \in DOMAIN row.fields |-> read[k]]
  BY <1>3 DEF Instr
<1> HIDE DEF read
<1>12. RowHolds(row, instr)
  BY <1>3, <1>7, <1>10, <1>11 DEF RowHolds
<1>13. ArgsInRange(row, instr)
  BY <1>3, <1>7, <1>10, <1>11 DEF ArgsInRange
<1> HIDE DEF instr
<1>14. Encodes(Encode(instr), row, size, read)
  BY <1>3, <1>5, <1>11, <1>12, EncodeRow
<1> DEFINE code == Encode(instr)
<1>15. /\ code \in Seq(Values) /\ Len(code) = size[n] /\ code[1] = row.code
       /\ \A k \in 1 .. n : \A i \in 1 .. fields[k].width :
             code[size[k - 1] + i] = EncodeOperand(fields[k], read[k])[i]
  BY <1>3, <1>4, <1>14 DEF Encodes
<1>16. n \in 0 .. n /\ size[n] \in Nat /\ size[n] \in 1 .. z
  <2>1. n \in 0 .. n
    OBVIOUS
  <2>2. size[n] \in Nat /\ size[n] >= 1
    BY <1>6, <2>1
  <2> QED BY <1>9, <2>1, <2>2
<1> HIDE DEF code
<1>17. ASSUME NEW p \in 1 .. size[n] PROVE code[p] = bytes[p]
  <2>1. CASE p = 1
    BY <1>2, <1>15, <2>1
  <2>2. CASE p # 1
    <3>1. p \in Nat /\ p > 1 /\ p <= size[n]
      BY <1>16, <2>2
    <3>2. PICK k \in 1 .. n : \E i \in 1 .. fields[k].width : p = size[k - 1] + i
      BY <1>4, <1>5, <3>1, EveryByteHasAField
    <3>3. PICK i \in 1 .. fields[k].width : p = size[k - 1] + i
      BY <3>2
    <3> QED BY <1>10, <1>15, <3>3
  <2> QED BY <2>1, <2>2
<1>18. Decode(bytes).consumed = size[n] /\ Decode(bytes).instr = instr
  BY <1>9
<1>19. Decoded(bytes, row, instr, size[n])
  BY <1>8, <1>12, <1>13, <1>15, <1>16, <1>17 DEF Decoded, code
<1> QED BY <1>18, <1>19

--------------------------------------------------------------------------
(* The stream of any bytes.                                                *)

\* Items that follow one another from a position to the end.
Walk(bytes, items, pos, m, at) ==
    /\ at \in [0 .. m -> 0 .. Len(bytes)] /\ at[0] = pos /\ at[m] = Len(bytes)
    /\ items = [k \in 1 .. m |-> NextInstruction(bytes, at[k - 1])]
    /\ \A k \in 1 .. m : /\ at[k - 1] \in 0 .. Len(bytes) - 1
                         /\ at[k] = NextInstruction(bytes, at[k - 1]).next

LEMMA WalkLonger ==
    ASSUME NEW bytes \in Seq(Values), NEW z \in Nat, z = Len(bytes),
           NEW pos \in 0 .. z - 1, NEW items, NEW m \in Nat, NEW at,
           Walk(bytes, items, NextInstruction(bytes, pos).next, m, at)
    PROVE  \E up : Walk(bytes, <<NextInstruction(bytes, pos)>> \o items, pos, m + 1, up)
<1> DEFINE item(p) == NextInstruction(bytes, p)
           I == {item(p) : p \in 0 .. z - 1}
           up == [k \in 0 .. m + 1 |-> IF k = 0 THEN pos ELSE at[k - 1]]
           all == [k \in 1 .. m + 1 |-> item(up[k - 1])]
<1>1. /\ \A k \in 0 .. m : at[k] \in 0 .. z
      /\ at[0] = item(pos).next /\ at[m] = z
      /\ items = [k \in 1 .. m |-> item(at[k - 1])]
      /\ \A k \in 1 .. m : at[k - 1] \in 0 .. z - 1 /\ at[k] = item(at[k - 1]).next
  BY DEF Walk
<1>2. up \in [0 .. m + 1 -> 0 .. z] /\ up[0] = pos /\ up[m + 1] = z
      /\ \A k \in 0 .. m : up[k + 1] = at[k]
  <2>1. \A k \in 0 .. m : k + 1 \in 0 .. m + 1 /\ k + 1 # 0 /\ (k + 1) - 1 = k
    OBVIOUS
  <2>2. \A k \in 0 .. m : up[k + 1] = at[k]
    BY <2>1
  <2>3. m \in 0 .. m /\ 0 \in 0 .. m + 1
    OBVIOUS
  <2>4. ASSUME NEW k \in 0 .. m + 1 PROVE up[k] \in 0 .. z
    <3>1. CASE k = 0
      BY <3>1
    <3>2. CASE k # 0
      <4>1. k - 1 \in 0 .. m
        BY <3>2
      <4> QED BY <1>1, <3>2, <4>1
    <3> QED BY <3>1, <3>2
  <2>5. up[0] = pos /\ up[m + 1] = z
    BY <1>1, <2>2, <2>3
  <2>6. up \in [0 .. m + 1 -> 0 .. z]
    BY <2>4
  <2> QED BY <2>2, <2>5, <2>6
<1>3. \A k \in 1 .. m : items[k] = item(at[k - 1])
  BY <1>1
<1> HIDE DEF up, item
<1>4. ASSUME NEW k \in 1 .. m + 1
      PROVE  up[k - 1] \in 0 .. z - 1 /\ up[k] = item(up[k - 1]).next
  <2>1. CASE k = 1
    <3>1. 0 \in 0 .. m /\ 0 + 1 = 1 /\ 1 - 1 = 0
      OBVIOUS
    <3> QED BY <1>1, <1>2, <2>1, <3>1
  <2>2. CASE k # 1
    <3>1. k - 1 \in 1 .. m /\ k - 1 \in 0 .. m /\ (k - 1) - 1 \in 0 .. m
          /\ ((k - 1) - 1) + 1 = k - 1 /\ (k - 1) + 1 = k
      BY <2>2
    <3>2. up[k - 1] = at[(k - 1) - 1] /\ up[k] = at[k - 1]
      BY <1>2, <3>1
    <3> QED BY <1>1, <3>1, <3>2
  <2> QED BY <2>1, <2>2
<1>5. \A k \in 1 .. m + 1 : all[k] \in I
  BY <1>4
<1>6. \A k \in 1 .. m : items[k] \in I
  BY <1>1, <1>3
<1> HIDE DEF I
<1>7. all \in Seq(I) /\ Len(all) = 1 + m
  <2>1. all \in [1 .. m + 1 -> I]
    BY <1>5
  <2>2. m + 1 \in Nat /\ m + 1 = 1 + m
    OBVIOUS
  <2> HIDE DEF all
  <2> QED BY <2>1, <2>2, SeqDef, LenProperties
<1>8. items \in Seq(I) /\ Len(items) = m
  <2>1. items \in [1 .. m -> I]
    BY <1>1, <1>6
  <2> QED BY <2>1, SeqDef, LenProperties
<1>9. all[1] = item(pos) /\ \A k \in 1 .. m : all[1 + k] = items[k]
  <2>1. 1 \in 1 .. m + 1 /\ 1 - 1 = 0
    OBVIOUS
  <2>2. all[1] = item(pos)
    BY <1>2, <2>1
  <2>3. ASSUME NEW k \in 1 .. m PROVE all[1 + k] = items[k]
    <3>1. 1 + k \in 1 .. m + 1 /\ (1 + k) - 1 = k /\ k - 1 \in 0 .. m /\ (k - 1) + 1 = k
      OBVIOUS
    <3>2. all[1 + k] = item(up[k]) /\ up[k] = at[k - 1]
      BY <1>2, <3>1
    <3> QED BY <1>3, <3>2
  <2> QED BY <2>2, <2>3
<1>10. item(pos) \in I
  BY DEF I
<1>11. <<item(pos)>> \o items = all
  <2> HIDE DEF all
  <2> QED BY <1>7, <1>8, <1>9, <1>10, Prepended
<1>12. Walk(bytes, all, pos, m + 1, up)
  BY <1>2, <1>4 DEF Walk, item
<1> HIDE DEF all
<1> QED BY <1>11, <1>12 DEF item

LEMMA StreamWalks ==
    ASSUME NEW bytes \in Seq(Values)
    PROVE  \E m \in Nat : \E at : Walk(bytes, Stream(bytes), 0, m, at)
<1>1. PICK z \in Nat : z = Len(bytes)
  BY LenProperties
<1>2. PICK from :
         /\ Stream(bytes) = from[0] /\ from[z] = <<>>
         /\ \A pos \in 0 .. z - 1 :
               from[pos] = <<NextInstruction(bytes, pos)>>
                              \o from[NextInstruction(bytes, pos).next]
  BY <1>1, StreamUnfolds
<1> DEFINE walks(pos) == \E m \in Nat : \E at : Walk(bytes, from[pos], pos, m, at)
           S == {j \in Nat : \A pos \in 0 .. z : z - pos <= j => walks(pos)}
<1>3. walks(z)
  <2> DEFINE at == [k \in 0 .. 0 |-> z]
  <2>1. from[z] = [k \in 1 .. 0 |-> NextInstruction(bytes, at[k - 1])]
    BY <1>2
  <2>2. at \in [0 .. 0 -> 0 .. z] /\ at[0] = z
    OBVIOUS
  <2>3. \A k \in 1 .. 0 : FALSE
    OBVIOUS
  <2> HIDE DEF at
  <2>4. Walk(bytes, from[z], z, 0, at)
    BY <1>1, <2>1, <2>2, <2>3 DEF Walk
  <2> QED BY <2>4
<1>4. 0 \in S
  <2>1. ASSUME NEW pos \in 0 .. z, z - pos <= 0 PROVE pos = z
    BY <2>1
  <2> HIDE DEF walks
  <2> QED BY <1>3, <2>1
<1>5. ASSUME NEW j \in Nat, j \in S PROVE j + 1 \in S
  <2> SUFFICES ASSUME NEW pos \in 0 .. z, z - pos <= j + 1 PROVE walks(pos)
    OBVIOUS
  <2>1. CASE pos = z
    <3> HIDE DEF walks
    <3> QED BY <1>3, <2>1
  <2>2. CASE pos # z
    <3> DEFINE q == NextInstruction(bytes, pos).next
    <3>1. pos \in 0 .. z - 1
      BY <2>2
    <3>2. q \in pos + 1 .. z
      <4>1. pos \in 0 .. Len(bytes) - 1
        BY <1>1, <3>1
      <4> QED BY <1>1, <4>1, NextAdvances
    <3> HIDE DEF q
    <3>3. q \in 0 .. z /\ z - q <= j
      BY <3>2
    <3>4. walks(q)
      <4> HIDE DEF walks
      <4> QED BY <1>5, <3>3
    <3>5. PICK m \in Nat : \E at : Walk(bytes, from[q], q, m, at)
      BY <3>4
    <3>6. PICK at : Walk(bytes, from[q], q, m, at)
      BY <3>5
    <3>7. \E up : Walk(bytes, <<NextInstruction(bytes, pos)>> \o from[q], pos, m + 1, up)
      BY <1>1, <3>1, <3>6, WalkLonger DEF q
    <3>8. from[pos] = <<NextInstruction(bytes, pos)>> \o from[q]
      BY <1>2, <3>1 DEF q
    <3>9. m + 1 \in Nat
      OBVIOUS
    <3> QED BY <3>7, <3>8, <3>9
  <2> QED BY <2>1, <2>2
<1>6. Nat \subseteq S
  <2> HIDE DEF S
  <2> QED BY <1>4, <1>5, UpFromZero
<1>7. walks(0)
  <2>1. z \in S
    <3> HIDE DEF S
    <3> QED BY <1>6
  <2>2. 0 \in 0 .. z /\ z - 0 <= z
    OBVIOUS
  <2> HIDE DEF walks
  <2> QED BY <2>1, <2>2
<1> QED BY <1>2, <1>7

--------------------------------------------------------------------------
(* The listing of any code.                                                *)

LEMMA Rising ==
    ASSUME NEW n \in Nat, NEW at \in [0 .. n -> Nat],
           \A k \in 1 .. n : at[k - 1] < at[k]
    PROVE  \A k \in 0 .. n : \A j \in 0 .. k : j = k \/ at[j] < at[k]
<1> DEFINE V == {m \in 0 .. n : \A j \in 0 .. m : j = m \/ at[j] < at[m]}
           chain == [m \in 0 .. n |-> m]
<1>1. chain[0] \in V
  <2>1. 0 \in 0 .. n /\ \A j \in 0 .. 0 : j = 0
    OBVIOUS
  <2> QED BY <2>1
<1>2. ASSUME NEW m \in 1 .. n, chain[m - 1] \in V PROVE chain[m] \in V
  <2>1. m \in 0 .. n /\ m - 1 \in 0 .. n /\ chain[m] = m /\ chain[m - 1] = m - 1
    OBVIOUS
  <2>2. ASSUME NEW j \in 0 .. m, j # m PROVE at[j] < at[m]
    <3>1. j \in 0 .. m - 1 /\ j \in 0 .. n
      BY <2>1, <2>2
    <3>2. j = m - 1 \/ at[j] < at[m - 1]
      BY <1>2, <2>1, <3>1
    <3>3. PICK x \in Nat : x = at[j]
      BY <3>1
    <3>4. PICK y \in Nat : y = at[m - 1]
      BY <2>1
    <3>5. PICK u \in Nat : u = at[m]
      BY <2>1
    <3>6. y < u
      BY <3>4, <3>5
    <3> QED BY <3>2, <3>3, <3>4, <3>5, <3>6
  <2> QED BY <2>1, <2>2
<1>3. \A m \in 0 .. n : chain[m] \in V
  <2> HIDE DEF chain, V
  <2> QED BY <1>1, <1>2, ChainStays
<1>4. \A m \in 0 .. n : chain[m] = m
  OBVIOUS
<1> QED BY <1>3, <1>4

\* The items of a walk, one after the other.
InPlaces(bytes, items, m, at) ==
    /\ DOMAIN items = 1 .. m /\ Len(items) = m
    /\ \A k \in 0 .. m : at[k] \in Nat
    /\ \A k \in 1 .. m : /\ items[k] = NextInstruction(bytes, at[k - 1])
                         /\ items[k].offset = at[k - 1]
                         /\ items[k].next = at[k]
                         /\ at[k - 1] < at[k]
    /\ \A j, k \in 1 .. m : at[j - 1] = at[k - 1] => j = k

LEMMA WalkPlaces ==
    ASSUME NEW bytes \in Seq(Values), NEW items, NEW m \in Nat, NEW at,
           Walk(bytes, items, 0, m, at)
    PROVE  InPlaces(bytes, items, m, at)
<1>1. PICK z \in Nat : z = Len(bytes)
  BY LenProperties
<1>2. /\ \A k \in 0 .. m : at[k] \in 0 .. z
      /\ items = [k \in 1 .. m |-> NextInstruction(bytes, at[k - 1])]
      /\ \A k \in 1 .. m : /\ at[k - 1] \in 0 .. z - 1
                           /\ at[k] = NextInstruction(bytes, at[k - 1]).next
  BY <1>1 DEF Walk
<1>3. DOMAIN items = 1 .. m /\ Len(items) = m
  BY <1>2, MadeSeq
<1>4. \A k \in 0 .. m : at[k] \in Nat
  BY <1>2
<1>5. \A pos : NextInstruction(bytes, pos).offset = pos
  BY DEF NextInstruction, Item
<1>6. ASSUME NEW k \in 1 .. m
      PROVE  /\ items[k] = NextInstruction(bytes, at[k - 1])
             /\ items[k].offset = at[k - 1]
             /\ items[k].next = at[k]
             /\ at[k - 1] < at[k]
  <2>1. items[k] = NextInstruction(bytes, at[k - 1])
    BY <1>2
  <2>2. PICK p \in 0 .. z - 1 : p = at[k - 1]
    BY <1>2
  <2>3. NextInstruction(bytes, p).next \in p + 1 .. z
    <3>1. p \in 0 .. Len(bytes) - 1
      BY <1>1
    <3> QED BY <1>1, <3>1, NextAdvances
  <2>4. at[k] \in p + 1 .. z
    BY <1>2, <2>2, <2>3
  <2> QED BY <1>2, <1>5, <2>1, <2>2, <2>4
<1>7. \A k \in 0 .. m : \A j \in 0 .. k : j = k \/ at[j] < at[k]
  <2>1. at \in [0 .. m -> Nat]
    <3>1. at \in [0 .. m -> 0 .. Len(bytes)]
      BY DEF Walk
    <3> QED BY <1>4, <3>1
  <2>2. \A k \in 1 .. m : at[k - 1] < at[k]
    BY <1>6
  <2> QED BY <2>1, <2>2, Rising
<1>8. ASSUME NEW j \in 1 .. m, NEW k \in 1 .. m, j < k PROVE at[j - 1] # at[k - 1]
  <2>1. k - 1 \in 0 .. m /\ j - 1 \in 0 .. k - 1 /\ j - 1 # k - 1 /\ j - 1 \in 0 .. m
    BY <1>8
  <2>2. at[j - 1] < at[k - 1] /\ at[j - 1] \in Nat /\ at[k - 1] \in Nat
    BY <1>4, <1>7, <2>1
  <2> QED BY <2>2
<1>9. ASSUME NEW j \in 1 .. m, NEW k \in 1 .. m, at[j - 1] = at[k - 1] PROVE j = k
  <2>1. ~(j < k) /\ ~(k < j)
    BY <1>8, <1>9
  <2> QED BY <2>1
<1> QED BY <1>3, <1>4, <1>6, <1>9 DEF InPlaces

\* The table holds the offsets of TARGETs, each of them once.
LEMMA TableOfWalk ==
    ASSUME NEW bytes \in Seq(Values), NEW op, NEW m \in Nat, NEW at,
           Walk(bytes, Stream(bytes), 0, m, at)
    PROVE  /\ OffsetsOf(bytes, op) \in Seq(Nat)
           /\ \A id \in DOMAIN OffsetsOf(bytes, op) : \E k \in 1 .. m :
                 /\ IsInstr(Stream(bytes)[k], op)
                 /\ OffsetsOf(bytes, op)[id] = at[k - 1]
           /\ \A k \in 1 .. m : IsInstr(Stream(bytes)[k], op) =>
                 \E id \in DOMAIN OffsetsOf(bytes, op) : OffsetsOf(bytes, op)[id] = at[k - 1]
           /\ \A id, other \in DOMAIN OffsetsOf(bytes, op) :
                 OffsetsOf(bytes, op)[id] = OffsetsOf(bytes, op)[other] => id = other
<1> DEFINE items == Stream(bytes)
           good(t, j) ==
              /\ t \in Seq(Nat)
              /\ \A id \in 1 .. Len(t) : \E k \in 1 .. j :
                    IsInstr(items[k], op) /\ t[id] = at[k - 1]
              /\ \A k \in 1 .. j : IsInstr(items[k], op) =>
                    \E id \in 1 .. Len(t) : t[id] = at[k - 1]
              /\ \A id, other \in 1 .. Len(t) : t[id] = t[other] => id = other
              /\ \A id \in 1 .. Len(t) : t[id] < at[j]
<1>1. /\ DOMAIN items = 1 .. m
      /\ \A k \in 0 .. m : at[k] \in Nat
      /\ \A k \in 1 .. m : items[k].offset = at[k - 1] /\ at[k - 1] < at[k]
  <2>1. InPlaces(bytes, items, m, at)
    BY WalkPlaces
  <2> HIDE DEF items
  <2> QED BY <2>1 DEF InPlaces
<1>2. PICK turn : Turns(bytes, op, m, items, turn)
  <2>1. DOMAIN Stream(bytes) = 1 .. m
    BY <1>1
  <2>2. \E turn : Turns(bytes, op, m, Stream(bytes), turn)
    BY <2>1, OffsetTurns
  <2> QED BY <2>2
<1>3. /\ OffsetsOf(bytes, op) = turn[m] /\ turn[0] = <<>>
      /\ \A j \in 1 .. m : turn[j] = OffsetOne(op, turn[j - 1], items[j])
  BY <1>2 DEF Turns
<1> HIDE DEF items
<1>4. good(turn[0], 0)
  <2>1. turn[0] \in Seq(Nat) /\ Len(turn[0]) = 0 /\ 1 .. 0 = {}
    BY <1>3
  <2> QED BY <2>1
<1>5. ASSUME NEW j \in 1 .. m, good(turn[j - 1], j - 1) PROVE good(turn[j], j)
  <2>1. j - 1 \in 0 .. m /\ j \in 0 .. m
    OBVIOUS
  <2>2. PICK x \in Nat : x = at[j - 1]
    BY <1>1, <2>1
  <2>3. PICK y \in Nat : y = at[j]
    BY <1>1, <2>1
  <2>4. x < y /\ items[j].offset = x
    BY <1>1, <2>2, <2>3
  <2>5. PICK t \in Seq(Nat) : t = turn[j - 1]
    BY <1>5
  <2>6. PICK l \in Nat : l = Len(t)
    BY LenProperties
  <2>7. /\ \A id \in 1 .. l : \E k \in 1 .. j - 1 : IsInstr(items[k], op) /\ t[id] = at[k - 1]
        /\ \A k \in 1 .. j - 1 : IsInstr(items[k], op) => \E id \in 1 .. l : t[id] = at[k - 1]
        /\ \A id, other \in 1 .. l : t[id] = t[other] => id = other
        /\ \A id \in 1 .. l : t[id] < x
    BY <1>5, <2>2, <2>5, <2>6
  <2>8. \A id \in 1 .. l : t[id] \in Nat
    BY <2>6, ElementOfSeq
  <2>9. /\ \A k \in 1 .. j : k \in 1 .. j - 1 \/ k = j
        /\ \A k \in 1 .. j - 1 : k \in 1 .. j
        /\ j \in 1 .. j
    OBVIOUS
  <2>10. CASE ~IsInstr(items[j], op)
    <3>1. turn[j] = t
      BY <1>3, <2>5, <2>10 DEF OffsetOne
    <3>2. \A id \in 1 .. l : t[id] < y
      BY <2>4, <2>7, <2>8
    <3>3. \A id \in 1 .. l : \E k \in 1 .. j : IsInstr(items[k], op) /\ t[id] = at[k - 1]
      BY <2>7, <2>9
    <3>4. \A k \in 1 .. j : IsInstr(items[k], op) => \E id \in 1 .. l : t[id] = at[k - 1]
      BY <2>7, <2>9, <2>10
    <3> QED BY <2>3, <2>6, <2>7, <3>1, <3>2, <3>3, <3>4
  <2>11. CASE IsInstr(items[j], op)
    <3> DEFINE more == Append(t, x)
    <3>1. turn[j] = more
      BY <1>3, <2>4, <2>5, <2>11 DEF OffsetOne
    <3>2. /\ more \in Seq(Nat) /\ Len(more) = l + 1 /\ more[l + 1] = x
          /\ \A i \in 1 .. l : more[i] = t[i]
      BY <2>6, AppendProperties
    <3> HIDE DEF more
    <3>3. /\ \A i \in 1 .. l + 1 : i \in 1 .. l \/ i = l + 1
          /\ \A i \in 1 .. l : i \in 1 .. l + 1
          /\ l + 1 \in 1 .. l + 1
      OBVIOUS
    <3>4. ASSUME NEW id \in 1 .. l + 1
          PROVE  /\ \E k \in 1 .. j : IsInstr(items[k], op) /\ more[id] = at[k - 1]
                 /\ more[id] < y
      <4>1. CASE id = l + 1
        BY <2>2, <2>4, <2>9, <2>11, <3>2, <4>1
      <4>2. CASE id \in 1 .. l
        <5>1. more[id] = t[id] /\ t[id] < x /\ t[id] \in Nat
          BY <2>7, <2>8, <3>2, <4>2
        <5>2. PICK k \in 1 .. j - 1 : IsInstr(items[k], op) /\ t[id] = at[k - 1]
          BY <2>7, <4>2
        <5> QED BY <2>4, <2>9, <5>1, <5>2
      <4> QED BY <3>3, <4>1, <4>2
    <3>5. ASSUME NEW k \in 1 .. j, IsInstr(items[k], op)
          PROVE  \E id \in 1 .. l + 1 : more[id] = at[k - 1]
      <4>1. CASE k = j
        BY <2>2, <3>2, <3>3, <4>1
      <4>2. CASE k \in 1 .. j - 1
        <5>1. PICK id \in 1 .. l : t[id] = at[k - 1]
          BY <2>7, <3>5, <4>2
        <5> QED BY <3>2, <3>3, <5>1
      <4> QED BY <2>9, <4>1, <4>2
    <3>6. ASSUME NEW id \in 1 .. l + 1, NEW other \in 1 .. l + 1, more[id] = more[other]
          PROVE  id = other
      <4>1. \A i \in 1 .. l : more[i] # x
        <5> TAKE i \in 1 .. l
        <5>1. more[i] = t[i] /\ t[i] < x /\ t[i] \in Nat
          BY <2>7, <2>8, <3>2
        <5> QED BY <5>1
      <4>2. CASE id = l + 1
        BY <3>2, <3>3, <3>6, <4>1, <4>2
      <4>3. CASE id \in 1 .. l
        <5>1. other \in 1 .. l
          BY <3>2, <3>3, <3>6, <4>1, <4>3
        <5> QED BY <2>7, <3>2, <3>6, <4>3, <5>1
      <4> QED BY <3>3, <4>2, <4>3
    <3> QED BY <2>3, <3>1, <3>2, <3>4, <3>5, <3>6
  <2> QED BY <2>10, <2>11
<1> DEFINE V == {j \in 0 .. m : good(turn[j], j)}
           chain == [j \in 0 .. m |-> j]
<1>6. chain[0] \in V
  <2>1. 0 \in 0 .. m /\ chain[0] = 0
    OBVIOUS
  <2> HIDE DEF good
  <2> QED BY <1>4, <2>1
<1>7. ASSUME NEW j \in 1 .. m, chain[j - 1] \in V PROVE chain[j] \in V
  <2>1. j \in 0 .. m /\ j - 1 \in 0 .. m /\ chain[j] = j /\ chain[j - 1] = j - 1
    OBVIOUS
  <2> HIDE DEF good
  <2> QED BY <1>5, <1>7, <2>1
<1>8. \A j \in 0 .. m : chain[j] \in V
  <2> HIDE DEF V, chain
  <2> QED BY <1>6, <1>7, ChainStays
<1>9. good(OffsetsOf(bytes, op), m)
  <2>1. m \in 0 .. m /\ chain[m] = m
    OBVIOUS
  <2> HIDE DEF good
  <2> QED BY <1>3, <1>8, <2>1
<1>10. DOMAIN OffsetsOf(bytes, op) = 1 .. Len(OffsetsOf(bytes, op))
  BY <1>9, LenProperties
<1> QED BY <1>9, <1>10 DEF items

\* What a line shows of an item.
Shown(item) == IF item.error = "none"
               THEN <<item.instr.op, ShownOperands(item.instr)>>
               ELSE <<".byte", <<item.byte>>>>

\* The operands a line shows tell those of the instruction.
LEMMA OperandsShown ==
    ASSUME NEW row \in Table, NEW instr, RowHolds(row, instr), ArgsInRange(row, instr),
           NEW line, line.shown = <<instr.op, ShownOperands(instr)>>
    PROVE  BytesOfLine(line) = Encode(instr)
<1>0. /\ instr = Instr(row.op, instr.args)
      /\ instr.args = [k \in DOMAIN row.fields |-> instr.args[k]]
  BY Zenon DEF RowHolds
<1>1. instr.op = row.op /\ row.op # ".byte"
  <2>1. Instr(row.op, instr.args).op = row.op
    BY DEF Instr
  <2>2. instr.op = row.op
    BY <1>0, <2>1, Zenon
  <2> QED BY <2>2, RowCodes
<1>2. OfName[instr.op] = row
  BY <1>1, RowOfCode
<1> DEFINE fields == row.fields
           shown == [k \in DOMAIN fields |-> ShownOperand(fields[k], instr.args[k])]
           arg(k) == IF fields[k].kind = "bytes" THEN LowBytes(shown[k], fields[k].width)
                     ELSE shown[k]
<1>3. ShownOperands(instr) = shown
  BY <1>2 DEF ShownOperands
<1>4. line.shown[1] = instr.op /\ line.shown[2] = shown
  BY <1>3
<1>5. BytesOfLine(line) = Encode(Instr(instr.op, [k \in DOMAIN fields |-> arg(k)]))
  <2> HIDE DEF shown
  <2> QED BY <1>1, <1>2, <1>4 DEF BytesOfLine
<1>6. ASSUME NEW k \in DOMAIN fields PROVE arg(k) = instr.args[k]
  <2>1. fields[k] \in Fields /\ instr.args[k] \in InRange(fields[k])
    BY RowFields, LenProperties, ElementOfSeq DEF ArgsInRange
  <2>2. shown[k] = ShownOperand(fields[k], instr.args[k])
    OBVIOUS
  <2> HIDE DEF shown
  <2>3. CASE fields[k].kind = "bytes"
    <3>1. fields[k].width \in 1 .. WordBytes
      BY <2>1, <2>3, FieldKinds
    <3>2. instr.args[k] \in Seq(Byte) /\ Len(instr.args[k]) = fields[k].width
      BY <2>1, <2>3, Ranges
    <3>3. shown[k] = SignExtend(instr.args[k])
      BY <2>2, <2>3 DEF ShownOperand
    <3>4. LowBytes(SignExtend(instr.args[k]), fields[k].width) = instr.args[k]
      BY <3>1, <3>2, BytesShown
    <3> QED BY <2>3, <3>3, <3>4
  <2>4. CASE fields[k].kind # "bytes"
    BY <2>2, <2>4 DEF ShownOperand
  <2> QED BY <2>3, <2>4
<1> HIDE DEF shown, fields
<1>7. [k \in DOMAIN fields |-> arg(k)] = [k \in DOMAIN fields |-> instr.args[k]]
  <2> HIDE DEF arg
  <2> QED BY <1>6
<1>8. instr.args = [k \in DOMAIN fields |-> instr.args[k]]
  BY <1>0, Zenon DEF fields
<1>9. Instr(instr.op, instr.args) = instr
  BY <1>0, <1>1, Zenon
<1> HIDE DEF arg
<1> QED BY <1>5, <1>7, <1>8, <1>9

\* A line stands for the bytes of its item.
LEMMA LineBytes ==
    ASSUME NEW bytes \in Seq(Byte), NEW pos \in 0 .. Len(bytes) - 1,
           NEW line, line.shown = Shown(NextInstruction(bytes, pos))
    PROVE  /\ BytesOfLine(line) =
                 SubSeq(bytes, pos + 1, NextInstruction(bytes, pos).next)
           /\ line.shown[1] = "TARGET" <=> IsInstr(NextInstruction(bytes, pos), "TARGET")
<1>1. PICK z \in Nat : z = Len(bytes)
  BY LenProperties
<1>2. pos \in Nat /\ pos < z /\ pos \in 0 .. z /\ pos + 1 \in 1 .. z
  BY <1>1
<1> DEFINE rest == SubSeq(bytes, pos + 1, Len(bytes))
           item == NextInstruction(bytes, pos)
<1>3. /\ rest \in Seq(Byte) /\ Len(rest) = z - pos
      /\ \A i \in 1 .. z - pos : rest[i] = bytes[pos + i]
  BY <1>1, <1>2, BytesFrom
<1> HIDE DEF rest
<1>4. CASE Decode(rest).error = "none"
  <2>1. item = [offset |-> pos, error |-> "none", instr |-> Decode(rest).instr,
                next |-> pos + Decode(rest).consumed]
    BY <1>4 DEF NextInstruction, Item, DecodeAt, rest
  <2>2. PICK row : Decoded(rest, row, Decode(rest).instr, Decode(rest).consumed)
    BY <1>3, <1>4, DecodedBytes
  <2>3. PICK instr : instr = Decode(rest).instr
    OBVIOUS
  <2>4. PICK c : c = Decode(rest).consumed
    OBVIOUS
  <2>5. /\ row \in Table /\ RowHolds(row, instr) /\ ArgsInRange(row, instr)
        /\ Encode(instr) \in Seq(Values) /\ Len(Encode(instr)) = c /\ c \in 1 .. z - pos
        /\ \A i \in 1 .. c : Encode(instr)[i] = rest[i]
    BY <1>3, <2>2, <2>3, <2>4 DEF Decoded
  <2>6. item.error = "none" /\ item.instr = instr /\ item.next = pos + c
    BY <2>1, <2>3, <2>4
  <2> HIDE DEF item
  <2>7. line.shown = <<instr.op, ShownOperands(instr)>>
    BY <2>6 DEF Shown, item
  <2>8. BytesOfLine(line) = Encode(instr)
    BY <2>5, <2>7, OperandsShown
  <2> DEFINE sub == SubSeq(bytes, pos + 1, pos + c)
  <2>9. c \in Nat /\ pos + c <= z
    BY <1>2, <2>5
  <2>10. sub \in Seq(Byte) /\ Len(sub) = c /\ \A i \in 1 .. c : sub[i] = bytes[pos + i]
    <3>1. /\ SubSeq(bytes, pos + 1, pos + c) \in Seq(Byte)
          /\ Len(SubSeq(bytes, pos + 1, pos + c)) = c
          /\ \A i \in 1 .. c : SubSeq(bytes, pos + 1, pos + c)[i] = bytes[pos + i]
      <4>1. PICK w \in Nat : w = c
        BY <2>9
      <4>2. pos + w <= z
        BY <2>9, <4>1
      <4> QED BY <1>1, <1>2, <4>1, <4>2, Slice
    <3> QED BY <3>1
  <2> HIDE DEF sub
  <2>11. \A i \in 1 .. c : i \in 1 .. z - pos
    BY <1>2, <2>5
  <2>12. Encode(instr) = sub
    <3> DEFINE code == Encode(instr)
    <3>1. code \in Seq(Values) /\ sub \in Seq(Values)
      BY <2>5, <2>10, BytesAreValues
    <3>2. Len(code) = Len(sub) /\ \A i \in 1 .. Len(code) : code[i] = sub[i]
      BY <1>3, <2>5, <2>10, <2>11
    <3> HIDE DEF code
    <3>3. code = sub
      BY <3>1, <3>2, SeqEqual
    <3> QED BY <3>3 DEF code
  <2>13. BytesOfLine(line) = SubSeq(bytes, pos + 1, item.next)
    BY <2>6, <2>8, <2>12 DEF sub
  <2>14. line.shown[1] = "TARGET" <=> IsInstr(item, "TARGET")
    BY <2>6, <2>7 DEF IsInstr
  <2> QED BY <2>13, <2>14 DEF item
<1>5. CASE Decode(rest).error # "none"
  <2>1. item = [offset |-> pos, error |-> Decode(rest).error, byte |-> bytes[pos + 1],
                next |-> pos + 1]
    BY <1>5 DEF NextInstruction, Item, DecodeAt, rest
  <2>2. item.error # "none" /\ item.byte = bytes[pos + 1] /\ item.next = pos + 1
    BY <1>5, <2>1
  <2> HIDE DEF item
  <2>3. line.shown = <<".byte", <<bytes[pos + 1]>>>>
    BY <2>2 DEF Shown, item
  <2>4. BytesOfLine(line) = <<bytes[pos + 1]>>
    BY <2>3 DEF BytesOfLine
  <2> DEFINE sub == SubSeq(bytes, pos + 1, pos + 1)
  <2>5. sub \in Seq(Byte) /\ Len(sub) = 1 /\ sub[1] = bytes[pos + 1]
    <3>1. PICK w \in Nat : w = 1
      OBVIOUS
    <3>2. pos + w <= z /\ 1 \in 1 .. w
      BY <1>2, <3>1
    <3>3. /\ SubSeq(bytes, pos + 1, pos + w) \in Seq(Byte)
          /\ Len(SubSeq(bytes, pos + 1, pos + w)) = w
          /\ \A i \in 1 .. w : SubSeq(bytes, pos + 1, pos + w)[i] = bytes[pos + i]
      <4>1. bytes \in Seq(Byte) /\ z \in Nat /\ z = Len(bytes) /\ pos \in Nat /\ w \in Nat /\ pos + w <= z
        BY <1>1, <1>2, <3>2
      <4> QED BY ONLY <4>1, Slice, SMTT(60)
    <3>4. sub = SubSeq(bytes, pos + 1, pos + w)
      BY <3>1
    <3> HIDE DEF sub
    <3>5. sub \in Seq(Byte) /\ Len(sub) = w /\ sub[1] = bytes[pos + 1]
      BY <3>2, <3>3, <3>4
    <3> QED BY <3>1, <3>5
  <2> HIDE DEF sub
  <2>6. <<bytes[pos + 1]>> = sub
    <3>1. PICK d \in Byte : d = bytes[pos + 1]
      BY <1>1, <1>2, ElementOfSeq
    <3> DEFINE one == <<d>>
    <3>2. one \in Seq(Byte) /\ Len(one) = 1 /\ one[1] = d
      OBVIOUS
    <3>3. \A i \in 1 .. 1 : i = 1
      OBVIOUS
    <3> HIDE DEF one
    <3>4. Len(one) = Len(sub) /\ \A i \in 1 .. Len(one) : one[i] = sub[i]
      BY <2>5, <3>1, <3>2, <3>3
    <3>5. one = sub
      BY <2>5, <3>2, <3>4, SeqEqual
    <3> QED BY <3>1, <3>5 DEF one
  <2>7. BytesOfLine(line) = SubSeq(bytes, pos + 1, item.next)
    BY <2>2, <2>4, <2>6 DEF sub
  <2>8. line.shown[1] # "TARGET" /\ ~IsInstr(item, "TARGET")
    BY <2>2, <2>3 DEF IsInstr
  <2> QED BY <2>7, <2>8 DEF item
<1> QED BY <1>4, <1>5

\* The label of a line is the entry of the jump table that has its offset.
TableLabels(p) ==
    \A id \in DOMAIN p.jump_table : \A offset :
       LabelAt(p, offset) = id - 1 <=> p.jump_table[id] = offset

LEMMA LabelsInTable ==
    ASSUME NEW p, NEW table \in Seq(Nat), p.jump_table = table,
           \A id, other \in DOMAIN table : table[id] = table[other] => id = other
    PROVE  TableLabels(p)
<1> SUFFICES ASSUME NEW id \in DOMAIN table, NEW offset
             PROVE  LabelAt(p, offset) = id - 1 <=> table[id] = offset
  BY DEF TableLabels
<1> DEFINE ids == {i \in DOMAIN table : table[i] = offset}
<1>1. LabelAt(p, offset) = IF ids = {} THEN -1 ELSE (CHOOSE i \in ids : TRUE) - 1
  BY DEF LabelAt, NoLabel
<1>2. \A i \in DOMAIN table : i \in Nat /\ i >= 1
  BY LenProperties
<1>3. CASE ids = {}
  <2>1. table[id] # offset
    BY <1>3
  <2>2. id - 1 # -1
    BY <1>2
  <2> QED BY <1>1, <1>3, <2>1, <2>2
<1>4. CASE ids # {}
  <2>1. PICK c : c = CHOOSE i \in ids : TRUE
    OBVIOUS
  <2>2. c \in ids
    BY <1>4, <2>1
  <2>3. LabelAt(p, offset) = c - 1
    BY <1>1, <1>4, <2>1
  <2>4. c \in DOMAIN table /\ table[c] = offset /\ c \in Nat /\ id \in Nat
    BY <1>2, <2>2
  <2>5. ASSUME c - 1 = id - 1 PROVE table[id] = offset
    BY <2>4, <2>5
  <2>6. ASSUME table[id] = offset PROVE c - 1 = id - 1
    BY <2>4, <2>6
  <2> QED BY <2>3, <2>5, <2>6
<1> QED BY <1>3, <1>4

\* No byte and no label of any code is lost in its listing.
LEMMA ListingHolds ==
    ASSUME NEW code \in Seq(Byte), loaded.program = NewProgram(code),
           listing = Disassembly(loaded.program)
    PROVE  ListingComplete
<1> DEFINE items == Stream(code)
           table == OffsetsOf(code, "TARGET")
<1>1. code \in Seq(Values)
  BY BytesAreValues
<1>2. PICK m \in Nat : \E at : Walk(code, items, 0, m, at)
  BY <1>1, StreamWalks
<1>3. PICK at : Walk(code, items, 0, m, at)
  BY <1>2
<1>4. PICK z \in Nat : z = Len(code)
  BY LenProperties
<1>5. /\ at[0] = 0 /\ at[m] = z
      /\ \A k \in 1 .. m : at[k - 1] \in 0 .. z - 1
  BY <1>3, <1>4 DEF Walk
<1>6. /\ DOMAIN items = 1 .. m /\ Len(items) = m
      /\ \A k \in 1 .. m : /\ items[k] = NextInstruction(code, at[k - 1])
                           /\ items[k].offset = at[k - 1]
                           /\ items[k].next = at[k]
      /\ \A j, k \in 1 .. m : at[j - 1] = at[k - 1] => j = k
  <2>1. InPlaces(code, items, m, at)
    BY <1>1, <1>3, WalkPlaces
  <2> HIDE DEF items
  <2> QED BY <2>1 DEF InPlaces
<1>7. /\ table \in Seq(Nat)
      /\ \A id \in DOMAIN table : \E k \in 1 .. m :
            IsInstr(items[k], "TARGET") /\ table[id] = at[k - 1]
      /\ \A id, other \in DOMAIN table : table[id] = table[other] => id = other
  BY <1>1, <1>3, TableOfWalk
<1>8. PICK p : p = loaded.program
  OBVIOUS
<1>9. p.code = code /\ p.jump_table = table
  BY <1>8 DEF NewProgram
<1> HIDE DEF items, table
<1>10. /\ DOMAIN listing = 1 .. m
       /\ \A k \in 1 .. m : /\ listing[k].offset = at[k - 1]
                            /\ listing[k].label = LabelAt(p, at[k - 1])
                            /\ listing[k].shown = Shown(items[k])
  <2>1. listing = [k \in 1 .. m |->
                      [offset |-> items[k].offset, label |-> LabelAt(p, items[k].offset),
                       shown |-> Shown(items[k])]]
    BY <1>6, <1>8, <1>9 DEF Disassembly, ListingOf, Shown, items
  <2> QED BY <1>6, <2>1
<1>11. Len(listing) = m
  <2>1. listing = [k \in 1 .. m |-> listing[k]]
    BY <1>6, <1>10 DEF Disassembly, ListingOf
  <2> QED BY <2>1, MadeSeq
<1> DEFINE start(k) == IF k > Len(listing) THEN Len(p.code) ELSE listing[k].offset
<1>12. \A k \in 1 .. m + 1 : start(k) = at[k - 1]
  <2> TAKE k \in 1 .. m + 1
  <2>1. CASE k = m + 1
    <3>1. k > m /\ k - 1 = m
      BY <2>1
    <3> QED BY <1>4, <1>5, <1>9, <1>11, <3>1
  <2>2. CASE k # m + 1
    <3>1. ~(k > m) /\ k \in 1 .. m
      BY <2>2
    <3> QED BY <1>10, <1>11, <3>1
  <2> QED BY <2>1, <2>2
<1>13. ASSUME NEW k \in DOMAIN listing
       PROVE  /\ BytesOfLine(listing[k]) = SubSeq(p.code, start(k) + 1, start(k + 1))
              /\ listing[k].shown[1] = "TARGET" <=> IsInstr(items[k], "TARGET")
  <2>1. k \in 1 .. m /\ k \in 1 .. m + 1 /\ k + 1 \in 1 .. m + 1 /\ (k + 1) - 1 = k
    BY <1>10
  <2>2. start(k) = at[k - 1] /\ start(k + 1) = at[k]
    BY <1>12, <2>1
  <2>3. PICK pos \in 0 .. Len(code) - 1 : pos = at[k - 1]
    BY <1>4, <1>5, <2>1
  <2>4. items[k] = NextInstruction(code, pos) /\ items[k].next = at[k]
    BY <1>6, <2>1, <2>3
  <2>5. listing[k].shown = Shown(NextInstruction(code, pos))
    BY <1>10, <2>1, <2>4
  <2>6. /\ BytesOfLine(listing[k]) =
              SubSeq(code, pos + 1, NextInstruction(code, pos).next)
        /\ listing[k].shown[1] = "TARGET" <=> IsInstr(NextInstruction(code, pos), "TARGET")
    BY <2>5, LineBytes
  <2> HIDE DEF start
  <2> QED BY <1>9, <2>2, <2>3, <2>4, <2>6
<1>14. ASSUME p.code # <<>> PROVE start(1) = 0
  <2>1. 1 \in 1 .. m + 1 /\ 1 - 1 = 0
    OBVIOUS
  <2> HIDE DEF start
  <2> QED BY <1>5, <1>12, <2>1
<1>15. ASSUME NEW id \in DOMAIN table
       PROVE  {k \in DOMAIN listing : listing[k].label = id - 1}
                = {k \in DOMAIN listing : /\ listing[k].offset = table[id]
                                          /\ listing[k].shown[1] = "TARGET"}
  <2>1. ASSUME NEW k \in DOMAIN listing
        PROVE  listing[k].label = id - 1 <=> table[id] = at[k - 1]
    <3>1. listing[k].label = LabelAt(p, at[k - 1])
      BY <1>10
    <3>2. TableLabels(p)
      BY <1>7, <1>9, LabelsInTable
    <3>3. LabelAt(p, at[k - 1]) = id - 1 <=> table[id] = at[k - 1]
      BY <1>9, <3>2 DEF TableLabels
    <3> QED BY <3>1, <3>3
  <2>2. ASSUME NEW k \in DOMAIN listing, table[id] = at[k - 1]
        PROVE  listing[k].shown[1] = "TARGET"
    <3>1. PICK j \in 1 .. m : IsInstr(items[j], "TARGET") /\ table[id] = at[j - 1]
      BY <1>7
    <3>2. j = k
      BY <1>6, <1>10, <2>2, <3>1
    <3> QED BY <1>13, <3>1, <3>2
  <2>3. \A k \in DOMAIN listing : listing[k].offset = at[k - 1]
    BY <1>10
  <2>4. \A k \in DOMAIN listing :
           listing[k].label = id - 1 <=>
              listing[k].offset = table[id] /\ listing[k].shown[1] = "TARGET"
    BY <2>1, <2>2, <2>3
  <2> QED BY <2>4
<1> HIDE DEF start
<1>16. \A k \in DOMAIN listing :
          BytesOfLine(listing[k]) = SubSeq(p.code, start(k) + 1, start(k + 1))
  BY <1>13
<1>17. \A id \in DOMAIN p.jump_table :
          {k \in DOMAIN listing : listing[k].label = id - 1}
            = {k \in DOMAIN listing : /\ listing[k].offset = p.jump_table[id]
                                      /\ listing[k].shown[1] = "TARGET"}
  BY <1>9, <1>15
<1> QED BY <1>8, <1>14, <1>16, <1>17 DEF ListingComplete, start
--------------------------------------------------------------------------
(* What build accepts is bytes: the numbers of its labels fit in their     *)
(* operands.                                                               *)

\* An instruction whose operands are made of bytes, and what a client emits and
\* pushes: registers are u8, labels u8 or u16, and constants whole numbers.
FitsInBytes(instr) == \E row \in Table : RowHolds(row, instr) /\ ArgsInRange(row, instr)
EmitsBytes == Constants \subseteq Int /\ \A instr \in Emitted : FitsInBytes(instr)

LEMMA OneOperandFits ==
    ASSUME NEW row \in Table, NEW field \in Fields, row.fields = <<field>>,
           NEW v \in InRange(field)
    PROVE  FitsInBytes(Instr(row.op, <<v>>))
<1> DEFINE instr == Instr(row.op, <<v>>)
<1>1. v \in OperandsOf(field)
  BY OperandBytes
<1>2. RowHolds(row, instr)
  BY <1>1, OneOperand
<1>3. instr.args = <<v>>
  BY DEF Instr
<1>4. ArgsInRange(row, instr)
  <2>1. \A k \in DOMAIN row.fields : k = 1
    OBVIOUS
  <2>2. row.fields[1] = field /\ instr.args[1] = v
    BY <1>3
  <2> HIDE DEF instr
  <2> QED BY <2>1, <2>2 DEF ArgsInRange
<1> QED BY <1>2, <1>4 DEF FitsInBytes

LEMMA JumpsFit ==
    ASSUME NEW op \in JumpOps
    PROVE  /\ \A v \in U16 : FitsInBytes(Instr(WideForm(op), <<v>>))
           /\ \A v \in Byte : FitsInBytes(Instr(NarrowForm(op), <<v>>))
<1>1. /\ WideField \in Fields /\ NarrowField \in Fields
      /\ InRange(WideField) = U16 /\ InRange(NarrowField) = Byte
  <2>1. WideField.kind = "u16" /\ NarrowField.kind = "u8"
    BY DEF WideField, NarrowField
  <2> QED BY <2>1, Ranges DEF Fields
<1>2. ASSUME NEW v \in U16 PROVE FitsInBytes(Instr(WideForm(op), <<v>>))
  <2>1. PICK row \in Table : row.op = WideForm(op) /\ row.fields = <<WideField>>
    BY RowsOfBuilder DEF JumpOps, WideForm
  <2> QED BY <1>1, <2>1, OneOperandFits
<1>3. ASSUME NEW v \in Byte PROVE FitsInBytes(Instr(NarrowForm(op), <<v>>))
  <2>1. PICK row \in Table : row.op = NarrowForm(op) /\ row.fields = <<NarrowField>>
    BY RowsOfBuilder DEF JumpOps, NarrowForm
  <2> QED BY <1>1, <2>1, OneOperandFits
<1> QED BY <1>2, <1>3

LEMMA PushFits ==
    ASSUME NEW val \in Constants, val \in Int
    PROVE  FitsInBytes(MinimalPush(val))
<1>1. PICK n \in 1 .. WordBytes :
         MinimalPush(val) = Instr(PushName[n], <<LowBytes(val, n)>>)
  BY PushWritable
<1>2. n \in Nat /\ WordBytes \in Nat
  BY CodecAssumption
<1>3. ASSUME NEW i \in 1 .. n PROVE (val \div 256 ^ (n - i)) % 256 \in Byte
  <2>1. n - i \in 0 .. WordBytes
    BY <1>2
  <2>2. PICK P \in Nat \ {0} : P = 256 ^ (n - i)
    BY <2>1, PowersOfBytes
  <2>3. val \div P \in Int
    BY <2>2
  <2>4. \A d \in Int : d % 256 \in 0 .. 255
    OBVIOUS
  <2> QED BY <2>2, <2>3, <2>4 DEF Byte
<1>4. LowBytes(val, n) \in [1 .. n -> Byte]
  BY <1>3 DEF LowBytes
<1>5. LowBytes(val, n) \in Seq(Byte) /\ Len(LowBytes(val, n)) = n
  BY <1>2, <1>4, SeqDef, LenProperties
<1>6. BytesField(n) \in Fields /\ InRange(BytesField(n)) = {v \in Seq(Byte) : Len(v) = n}
  <2>1. BytesField(n).kind = "bytes" /\ BytesField(n).width = n
    BY DEF BytesField
  <2> QED BY <2>1, Ranges DEF Fields
<1>7. PushRow(n) \in Table /\ PushRow(n).op = PushName[n]
      /\ PushRow(n).fields = <<BytesField(n)>>
  BY RowsOfBuilder DEF PushRow
<1>8. LowBytes(val, n) \in InRange(BytesField(n))
  BY <1>5, <1>6
<1> QED BY <1>1, <1>6, <1>7, <1>8, OneOperandFits

LEMMA TargetFits == FitsInBytes(Instr("TARGET", <<>>))
<1>1. PICK row \in Table : RowHolds(row, Instr("TARGET", <<>>))
  BY TargetWritable DEF IsWritable
<1>2. row.op = "TARGET"
  <2>1. Instr("TARGET", <<>>) = Instr(row.op, Instr("TARGET", <<>>).args)
    BY <1>1, Zenon DEF RowHolds
  <2> QED BY <2>1 DEF Instr
<1>3. DOMAIN row.fields = {}
  <2>1. row = [code |-> 0, op |-> "TARGET", fields |-> <<>>]
    BY <1>2, RowsOfBuilder, RowsDiffer
  <2> QED BY <2>1
<1>4. ArgsInRange(row, Instr("TARGET", <<>>))
  BY <1>3 DEF ArgsInRange
<1> QED BY <1>1, <1>4 DEF FitsInBytes

\* There are more labels than those placed before one that is placed.
LEMMA IdsFit ==
    ASSUME NEW s \in BuilderSet, NEW l \in Placed(s)
    PROVE  SequentialId(s, l) < Cardinality(Placed(s))
<1> DEFINE before == {k \in Placed(s) : PlaceOf(s, k) < PlaceOf(s, l)}
<1>1. IsFiniteSet(Placed(s))
  BY PlacedFinite
<1>2. before \subseteq Placed(s)
  OBVIOUS
<1>3. l \notin before
  <2>1. l \in 0 .. Len(s.label_positions) - 1 /\ PlaceOf(s, l) # Unplaced
    BY DEF Placed
  <2>2. s.label_positions \in Seq(Nat \cup {Unplaced})
    BY DEF BuilderSet
  <2>3. PICK z \in Nat : z = Len(s.label_positions)
    BY <2>2, LenProperties
  <2>4. l < z /\ l + 1 \in 1 .. z
    BY <2>1, <2>3
  <2>5. s.label_positions[l + 1] \in Nat \cup {Unplaced}
    BY <2>2, <2>3, <2>4, ElementOfSeq
  <2>6. PlaceOf(s, l) = s.label_positions[l + 1]
    BY <2>3, <2>4 DEF PlaceOf, IsLabel
  <2>7. PlaceOf(s, l) \in Nat
    BY <2>1, <2>5, <2>6
  <2> QED BY <2>7
<1>4. before # Placed(s)
  BY <1>3
<1> HIDE DEF before
<1>5. Cardinality(before) < Cardinality(Placed(s))
  <2>1. /\ IsFiniteSet(before) /\ Cardinality(before) <= Cardinality(Placed(s))
        /\ Cardinality(before) # Cardinality(Placed(s))
    BY <1>1, <1>2, <1>4, FS_Subset
  <2>2. Cardinality(before) \in Nat /\ Cardinality(Placed(s)) \in Nat
    BY <1>1, <2>1, FS_CardinalityType
  <2> QED BY <2>1, <2>2
<1> QED BY <1>5 DEF SequentialId, before

LEMMA BuiltFits ==
    ASSUME EmitsBytes, NEW s \in BuilderSet, NEW at, NEW call, Kept(s, at, call),
           Missing(s) = {}, ~(Cardinality(Placed(s)) > WideLabels),
           NEW k \in 1 .. Len(s.calls)
    PROVE  FitsInBytes(BuiltFrom(s)[k])
<1> DEFINE item == s.calls[k]
<1>1. item \in CallSet
  <2>1. s.calls \in Seq(CallSet)
    BY DEF BuilderSet
  <2> QED BY <2>1, ElementOfSeq
<1>2. BuiltFrom(s)[k] =
         IF IsJumpCall(s, k)
         THEN IF SequentialId(s, item.label) < NarrowLabels
              THEN NarrowJump(s, item) ELSE WideJump(s, item)
         ELSE Written(item)
  BY DEF BuiltFrom
<1>3. CASE IsJumpCall(s, k)
  <2>1. PICK j \in 1 .. Len(s.fixups) : call[j] = k
    BY <1>3 DEF Kept, JumpsKept
  <2>2. item.op \in JumpOps /\ s.fixups[j].label = item.label
    BY <2>1, FixupKept
  <2>3. PlaceOf(s, item.label) # Unplaced
    <3>1. j \in DOMAIN s.fixups
      BY LenProperties DEF BuilderSet
    <3>2. j \notin Missing(s)
      OBVIOUS
    <3> QED BY <2>2, <3>1, <3>2 DEF Missing
  <2>4. item.label \in Placed(s)
    <3>1. item.label \in 0 .. MaxLabels
      BY <2>1, FixupKept
    <3>2. item.label \in Nat /\ Len(s.label_positions) \in Nat
      BY <3>1, BuilderAssumption, LenProperties DEF BuilderSet
    <3>3. item.label < Len(s.label_positions)
      BY <2>3 DEF PlaceOf, IsLabel
    <3>4. item.label \in 0 .. Len(s.label_positions) - 1
      BY <3>2, <3>3
    <3> QED BY <2>3, <3>4 DEF Placed
  <2>5. PICK id \in Nat : id = SequentialId(s, item.label)
    BY PlacedFinite
  <2>6. id < 65536 /\ (id < NarrowLabels => id < 256)
    <3>1. PICK c \in Nat : c = Cardinality(Placed(s))
      BY PlacedFinite, FS_CardinalityType
    <3>2. id < c /\ ~(c > WideLabels)
      BY <2>4, <2>5, <3>1, IdsFit
    <3>3. NarrowLabels \in Nat /\ NarrowLabels <= 256 /\ WideLabels \in Nat /\ WideLabels <= 65536
      BY BuilderAssumption
    <3> QED BY <3>2, <3>3
  <2>7. CASE id < NarrowLabels
    <3>1. id \in Byte
      BY <2>6, <2>7 DEF Byte
    <3>2. FitsInBytes(Instr(NarrowForm(item.op), <<id>>))
      BY <2>2, <3>1, JumpsFit
    <3> QED BY <1>2, <1>3, <2>5, <2>7, <3>2 DEF NarrowJump
  <2>8. CASE ~(id < NarrowLabels)
    <3>1. id \in U16
      BY <2>6 DEF U16
    <3>2. FitsInBytes(Instr(WideForm(item.op), <<id>>))
      BY <2>2, <3>1, JumpsFit
    <3> QED BY <1>2, <1>3, <2>5, <2>8, <3>2 DEF WideJump
  <2> QED BY <2>7, <2>8
<1>4. CASE ~IsJumpCall(s, k)
  <2> HIDE DEF item
  <2>1. BuiltFrom(s)[k] = Written(item)
    BY <1>2, <1>4
  <2>2. item.kind # "jump"
    BY <1>4 DEF IsJumpCall, item
  <2>3. CASE \E l \in 0 .. MaxLabels : item = LabelItem(l)
    BY <2>1, <2>3, WrittenOf, TargetFits
  <2>4. CASE \E op \in JumpOps, l \in 0 .. MaxLabels : item = JumpItem(op, l)
    BY <2>2, <2>4, CallFields
  <2>5. CASE \E val \in Constants : item = ConstItem(val)
    <3>1. PICK val \in Constants : item = ConstItem(val)
      BY <2>5
    <3>2. val \in Int
      BY DEF EmitsBytes
    <3> QED BY <2>1, <3>1, <3>2, WrittenOf, PushFits
  <2>6. CASE \E instr \in Emitted : item = CodeItem(instr)
    <3>1. PICK instr \in Emitted : item = CodeItem(instr)
      BY <2>6
    <3>2. FitsInBytes(instr)
      BY DEF EmitsBytes
    <3> QED BY <2>1, <3>1, <3>2, WrittenOf
  <2>7. item \in CallSet
    BY <1>1 DEF item
  <2> QED BY <2>3, <2>4, <2>5, <2>6, <2>7 DEF CallSet
<1> QED BY <1>3, <1>4

\* Every position up to the last is in one of the pieces a chain of ends makes.
LEMMA InAPiece ==
    ASSUME NEW n \in Nat, NEW at \in [0 .. n -> Nat], at[0] = 0,
           NEW p \in Nat \ {0}, p <= at[n]
    PROVE  \E k \in 1 .. n : at[k - 1] < p /\ p <= at[k]
<1> DEFINE s == {k \in 0 .. n : p <= at[k]}
<1>1. s \in SUBSET Nat /\ n \in s
  OBVIOUS
<1>2. PICK k \in s : \A j \in s : k <= j
  <2> HIDE DEF s
  <2> QED BY <1>1, LeastOfSome
<1>3. k \in 1 .. n /\ k - 1 \in 0 .. n /\ ~(k <= k - 1)
  <2>1. k # 0
    BY <1>2
  <2> QED BY <1>2, <2>1
<1>4. ~(p <= at[k - 1])
  BY <1>2, <1>3
<1>5. at[k - 1] \in Nat
  BY <1>3
<1> QED BY <1>2, <1>3, <1>4, <1>5

\* What build makes of the buffer is a sequence of bytes.
LEMMA NarrowedBytes ==
    ASSUME EmitsBytes, NEW s \in BuilderSet, NEW at, NEW call, Kept(s, at, call),
           Missing(s) = {}, ~(Cardinality(Placed(s)) > WideLabels)
    PROVE  Narrowed(s) \in Seq(Byte)
<1> DEFINE code == Narrowed(s)
           instrs == BuiltFrom(s)
<1>1. PICK up : Spells(code, up, instrs)
  BY NarrowedSpells
<1>2. PICK n \in Nat : n = Len(s.calls)
  BY WrittenSeq
<1>3. Len(instrs) = n
  <2>1. instrs = [k \in 1 .. n |-> instrs[k]]
    BY <1>2 DEF BuiltFrom
  <2> HIDE DEF instrs
  <2> QED BY <2>1, MadeSeq
<1>4. \A k \in 1 .. n : FitsInBytes(instrs[k])
  BY <1>2, BuiltFits
<1> HIDE DEF code, instrs
<1>5. /\ code \in Seq(Values)
      /\ up \in [0 .. n -> Nat] /\ up[0] = 0 /\ up[n] = Len(code)
      /\ \A k \in 1 .. n : /\ up[k] = up[k - 1] + Len(Encode(instrs[k]))
                           /\ \A i \in 1 .. Len(Encode(instrs[k])) :
                                 code[up[k - 1] + i] = Encode(instrs[k])[i]
  BY <1>1, <1>3 DEF Spells
<1>6. PICK z \in Nat : z = Len(code)
  BY <1>5, LenProperties
<1>7. ASSUME NEW p \in 1 .. z PROVE code[p] \in Byte
  <2>1. PICK k \in 1 .. n : up[k - 1] < p /\ p <= up[k]
    <3>1. p \in Nat \ {0} /\ p <= up[n]
      BY <1>5, <1>6
    <3>2. up \in [0 .. n -> Nat] /\ up[0] = 0
      BY <1>5
    <3> QED BY <3>1, <3>2, InAPiece
  <2>2. Encode(instrs[k]) \in Seq(Byte)
    BY <1>4, BytesOfInstruction DEF FitsInBytes
  <2>3. PICK e \in Nat : e = Len(Encode(instrs[k]))
    BY <2>2, LenProperties
  <2>4. PICK a \in Nat : a = up[k - 1]
    BY <1>5
  <2>5. a < p /\ p <= a + e
    BY <1>5, <2>1, <2>3, <2>4
  <2>6. p - a \in 1 .. e /\ p = a + (p - a)
    BY <2>5
  <2>7. code[p] = Encode(instrs[k])[p - a]
    BY <1>5, <2>3, <2>4, <2>6
  <2> QED BY <2>2, <2>3, <2>6, <2>7, ElementOfSeq
<1>8. code = [p \in 1 .. z |-> code[p]]
  BY <1>5, <1>6, LenProperties
<1>9. code \in [1 .. z -> Byte]
  BY <1>7, <1>8
<1> QED BY <1>9, SeqDef DEF code

--------------------------------------------------------------------------
(* The checksum tells code from code that differs in one byte.             *)

\* A turn of the checksum, and what it is after each byte.
Turn(sum, byte) == (257 * sum + byte + 1) % 65521

Sums == {sum \in Nat : sum < 65521}

LEMMA TurnInRange ==
    ASSUME NEW sum \in Nat, NEW byte \in Nat
    PROVE  Turn(sum, byte) \in Sums /\ Turn(sum, byte) \in Nat
<1>1. PICK x \in Nat : x = 257 * sum + byte + 1
  BY SMT
<1>2. x % 65521 \in Nat /\ x % 65521 < 65521
  BY SMT
<1> QED BY <1>1, <1>2, SMT DEF Turn, Sums

Summed(code, n, acc) ==
    /\ \A k \in 0 .. n : acc[k] \in Sums
    /\ acc[0] = 1
    /\ \A k \in 1 .. n : acc[k] = Turn(acc[k - 1], code[k])

LEMMA CrcSums ==
    ASSUME NEW n \in Nat, NEW code \in Seq(Byte), Len(code) = n
    PROVE  \E acc : Summed(code, n, acc) /\ Crc(code) = acc[n]
<1> DEFINE D == 1 .. n
           base == 1
           body(g, s) == IF s = {} THEN base
                         ELSE Turn(g[s \ {Max(s)}], code[Max(s)])
           it == CHOOSE g : g = [s \in SUBSET DOMAIN code |-> body(g, s)]
<1>1. Crc(code) = it[DOMAIN code]
  BY DEF Crc, FoldLeft, MapThenFoldSet, Turn
<1>2. DOMAIN code = D /\ \A k \in D : code[k] \in Nat
  <2>1. Byte \subseteq Nat
    BY DEF Byte
  <2>2. DOMAIN code = D /\ \A k \in D : code[k] \in Byte
    BY LenProperties, ElementOfSeq
  <2> QED BY <2>1, <2>2
<1>3. \E g : g = [s \in SUBSET D |-> body(g, s)]
  <2> DEFINE step == [p \in D \X Nat |-> Turn(p[2], code[p[1]])]
             V == Nat
  <2>1. \A k \in D : \A v \in V : /\ step[<<k, v>>] = Turn(v, code[k])
                                 /\ step[<<k, v>>] \in V
    <3> TAKE k \in D
    <3> TAKE v \in V
    <3>1. Turn(v, code[k]) \in Nat
      BY <1>2, TurnInRange
    <3> QED BY <3>1
  <2>2. base \in V
    OBVIOUS
  <2> HIDE DEF step, V, base
  <2>3. \E g : LeftFolds(g, n, V, base, step)
    BY <2>1, <2>2, LeftFoldExists
  <2>4. PICK g : LeftFolds(g, n, V, base, step)
    BY <2>3
  <2>5. \A s \in SUBSET D : g[s] = body(g, s)
    <3> TAKE s \in SUBSET D
    <3>1. CASE s = {}
      BY <2>4, <3>1 DEF LeftFolds
    <3>2. CASE s # {}
      <4>1. /\ Max(s) \in D /\ g[s \ {Max(s)}] \in V
            /\ g[s] = step[<<Max(s), g[s \ {Max(s)}]>>]
        BY <2>4, <3>2 DEF LeftFolds
      <4> QED BY <2>1, <3>2, <4>1
    <3> QED BY <3>1, <3>2
  <2>6. g = [s \in SUBSET D |-> body(g, s)]
    <3> HIDE DEF body
    <3> QED BY <2>4, <2>5 DEF LeftFolds
  <2> QED BY <2>6
<1>4. it = [s \in SUBSET D |-> body(it, s)]
  <2>1. it = CHOOSE g : g = [s \in SUBSET D |-> body(g, s)]
    <3> HIDE DEF body, D
    <3> QED BY <1>2
  <2> HIDE DEF body, D, it
  <2> QED BY <1>3, <2>1
<1> HIDE DEF it
<1>5. \A k \in 1 .. n : it[1 .. k] = Turn(it[1 .. k - 1], code[k])
  <2> TAKE k \in 1 .. n
  <2>1. /\ 1 .. k \in SUBSET D /\ 1 .. k # {} /\ Max(1 .. k) = k
        /\ (1 .. k) \ {k} = 1 .. k - 1
    BY TopOfInterval
  <2> QED BY <1>4, <2>1
<1>6. it[1 .. 0] = 1
  <2>1. 1 .. 0 = {} /\ {} \in SUBSET D
    OBVIOUS
  <2> QED BY <1>4, <2>1
<1> DEFINE acc == [k \in 0 .. n |-> it[1 .. k]]
<1>7. acc[0] = 1
  BY <1>6
<1>8. \A k \in 1 .. n : acc[k] = Turn(acc[k - 1], code[k])
  <2> TAKE k \in 1 .. n
  <2>1. k \in 0 .. n /\ k - 1 \in 0 .. n
    OBVIOUS
  <2> QED BY <1>5, <2>1
<1>9. acc[n] = it[DOMAIN code]
  BY <1>2
<1>10. \A k \in 0 .. n : acc[k] \in Sums
  <2> DEFINE V == Sums
  <2> HIDE DEF acc
  <2>1. acc[0] \in V
    BY <1>7, SMT DEF Sums
  <2>2. ASSUME NEW k \in 1 .. n, acc[k - 1] \in V PROVE acc[k] \in V
    <3>1. PICK a \in Nat : a = acc[k - 1]
      BY <2>2, SMT DEF Sums
    <3>2. PICK c \in Nat : c = code[k]
      BY <1>2
    <3>3. Turn(a, c) \in Sums
      BY TurnInRange
    <3> QED BY <1>8, <3>1, <3>2, <3>3
  <2>3. \A k \in 0 .. n : acc[k] \in V
    <3> HIDE DEF V
    <3> QED BY <2>1, <2>2, ChainStays
  <2> QED BY <2>3
<1> HIDE DEF acc
<1>11. Summed(code, n, acc)
  BY <1>7, <1>8, <1>10 DEF Summed
<1> QED BY <1>1, <1>9, <1>11

\* Two numbers with the same remainder differ by a multiple.
LEMMA SameRemainder ==
    ASSUME NEW x \in Nat, NEW y \in Nat, x % 65521 = y % 65521
    PROVE  \E t \in Int : x - y = 65521 * t
<1>1. PICK q \in Int : q = x \div 65521
  BY SMT DEF Sums
<1>2. PICK p \in Int : p = y \div 65521
  BY SMT DEF Sums
<1>3. x = 65521 * q + (x % 65521)
  BY <1>1, SMT DEF Sums
<1>4. y = 65521 * p + (y % 65521)
  BY <1>2, SMT DEF Sums
<1>5. x % 65521 \in Int
  BY SMT DEF Sums
<1>6. x - y = 65521 * (q - p)
  BY <1>3, <1>4, <1>5, SMT DEF Sums
<1> QED BY <1>6, SMT DEF Sums

\* One turn of the checksum: two bytes give two sums, and two sums stay two,
\* because 257 has an inverse.
LEMMA BytesTold ==
    ASSUME NEW a \in Sums, NEW c \in 0 .. 255, NEW d \in 0 .. 255,
           Turn(a, c) = Turn(a, d)
    PROVE  c = d
<1>1. 257 * a + c + 1 \in Nat /\ 257 * a + d + 1 \in Nat
  BY SMT DEF Sums
<1>2. PICK t \in Int : (257 * a + c + 1) - (257 * a + d + 1) = 65521 * t
  BY <1>1, SameRemainder, SMT DEF Turn, Sums
<1>3. c - d = 65521 * t
  BY <1>2, SMT DEF Sums
<1> QED BY <1>3, SMT DEF Sums

LEMMA SumsTold ==
    ASSUME NEW a \in Sums, NEW e \in Sums, NEW c \in 0 .. 255,
           Turn(a, c) = Turn(e, c)
    PROVE  a = e
<1>1. 257 * a + c + 1 \in Nat /\ 257 * e + c + 1 \in Nat
  BY SMT DEF Sums
<1>2. PICK t \in Int : (257 * a + c + 1) - (257 * e + c + 1) = 65521 * t
  BY <1>1, SameRemainder, SMT DEF Turn, Sums
<1>3. 257 * (a - e) = 65521 * t
  BY <1>2, SMT DEF Sums
<1>4. PICK u \in Int : u = 51499 * t + (-202) * (a - e)
  BY SMT DEF Sums
<1>5. 51499 * (257 * (a - e)) + (a - e) * ((-202) * 65521) = a - e
  BY SMT DEF Sums
<1>6. a - e = 65521 * u
  BY <1>3, <1>4, <1>5, SMT DEF Sums
<1> QED BY <1>6, SMT DEF Sums

LEMMA OneByteDiffers ==
    ASSUME NEW n \in Nat, NEW code \in Seq(Byte), NEW other \in Seq(Byte),
           Len(code) = n, Len(other) = n, NEW i \in 1 .. n, code[i] # other[i],
           \A j \in 1 .. n : j # i => code[j] = other[j]
    PROVE  Crc(code) # Crc(other)
<1>1. PICK acc : Summed(code, n, acc) /\ Crc(code) = acc[n]
  BY CrcSums
<1>2. PICK bcc : Summed(other, n, bcc) /\ Crc(other) = bcc[n]
  BY CrcSums
<1>3. \A k \in 1 .. n : code[k] \in 0 .. 255 /\ other[k] \in 0 .. 255
  BY ElementOfSeq DEF Byte
<1> DEFINE V == {k \in 0 .. n : acc[k] = bcc[k] <=> k < i}
           chain == [k \in 0 .. n |-> k]
<1>4. chain[0] \in V
  BY <1>1, <1>2 DEF Summed
<1>5. ASSUME NEW k \in 1 .. n, chain[k - 1] \in V PROVE chain[k] \in V
  <2>1. k \in 0 .. n /\ k - 1 \in 0 .. n /\ chain[k] = k /\ chain[k - 1] = k - 1
    OBVIOUS
  <2>2. acc[k - 1] = bcc[k - 1] <=> k - 1 < i
    BY <1>5, <2>1
  <2>3. PICK a \in Sums : a = acc[k - 1]
    BY <1>1, <2>1 DEF Summed
  <2>4. PICK e \in Sums : e = bcc[k - 1]
    BY <1>2, <2>1 DEF Summed
  <2>5. PICK c \in 0 .. 255 : c = code[k]
    BY <1>3
  <2>6. PICK d \in 0 .. 255 : d = other[k]
    BY <1>3
  <2>7. acc[k] = Turn(a, c)
    BY <1>1, <2>3, <2>5 DEF Summed
  <2>8. bcc[k] = Turn(e, d)
    BY <1>2, <2>4, <2>6 DEF Summed
  <2>9. CASE k < i
    <3>1. k - 1 < i /\ k # i
      BY <2>9
    <3>2. a = e /\ c = d
      BY <2>2, <2>3, <2>4, <2>5, <2>6, <3>1
    <3>3. acc[k] = bcc[k]
      BY <2>7, <2>8, <3>2
    <3> QED BY <2>1, <2>9, <3>3
  <2>10. CASE k = i
    <3>1. k - 1 < i /\ ~(k < i)
      BY <2>10
    <3>2. a = e /\ c # d
      BY <2>2, <2>3, <2>4, <2>5, <2>6, <2>10, <3>1
    <3>3. Turn(a, c) # Turn(a, d)
      BY <3>2, BytesTold
    <3>4. acc[k] # bcc[k]
      BY <2>7, <2>8, <3>2, <3>3
    <3> QED BY <2>1, <3>1, <3>4
  <2>11. CASE k > i
    <3>1. ~(k - 1 < i) /\ ~(k < i) /\ k # i
      BY <2>11
    <3>2. a # e /\ c = d
      BY <2>2, <2>3, <2>4, <2>5, <2>6, <3>1
    <3>3. Turn(a, c) # Turn(e, c)
      BY <3>2, SumsTold
    <3>4. acc[k] # bcc[k]
      BY <2>7, <2>8, <3>2, <3>3
    <3> QED BY <2>1, <3>1, <3>4
  <2>12. k < i \/ k = i \/ k > i
    OBVIOUS
  <2> HIDE DEF chain, V
  <2> QED BY <2>9, <2>10, <2>11, <2>12
<1>6. \A k \in 0 .. n : chain[k] \in V
  <2> HIDE DEF chain, V
  <2> QED BY <1>4, <1>5, ChainStays
<1>7. n \in 0 .. n /\ chain[n] = n /\ ~(n < i)
  OBVIOUS
<1> QED BY <1>1, <1>2, <1>6, <1>7

--------------------------------------------------------------------------
(* Files: decoding accepts what was written, and no damage but that to the *)
(* slot counts.                                                            *)

\* The checks of Program::decode.
Undamaged(f) ==
    /\ f.size >= HeaderSize /\ f.magic = "XQBC" /\ f.version = 1
    /\ Len(f.code) = f.code_len /\ Crc(f.code) = f.crc

LEMMA DecodeVerdict ==
    ASSUME NEW f, f.size \in Nat
    PROVE  IF Undamaged(f)
           THEN DecodeProgram(f) = [error |-> "none", program |-> NewProgram(f.code)]
           ELSE DecodeProgram(f).error # "none"
<1>1. f.size < HeaderSize <=> ~(f.size >= HeaderSize)
  BY DEF HeaderSize
<1>2. CASE Undamaged(f)
  BY <1>1, <1>2 DEF Undamaged, DecodeProgram
<1>3. CASE ~Undamaged(f)
  <2>1. DecodeProgram(f).error # "none"
    BY <1>1, <1>3 DEF Undamaged, DecodeProgram
  <2> QED BY <1>3, <2>1
<1> QED BY <1>2, <1>3

LEMMA NoneIsRaw ==
    ASSUME NEW f
    PROVE  DecodeProgram(f).error # "raw"
  BY DEF DecodeProgram

LEMMA CrcInRange ==
    ASSUME NEW code \in Seq(Byte)
    PROVE  Crc(code) \in Sums
<1>1. PICK n \in Nat : n = Len(code)
  BY LenProperties
<1>2. PICK acc : Summed(code, n, acc) /\ Crc(code) = acc[n]
  BY <1>1, CrcSums
<1>3. n \in 0 .. n
  BY SMT
<1> QED BY <1>2, <1>3, Zenon DEF Summed

LEMMA NextSum ==
    ASSUME NEW sum \in Sums, NEW next, next = (sum + 1) % 65521
    PROVE  next # sum
<1>1. sum < 65520 => next = sum + 1
  BY SMT DEF Sums
<1>2. sum \in Nat /\ (sum < 65520 \/ sum = 65520)
  BY SMT DEF Sums
<1>3. sum = 65520 => next = 0
  BY SMT
<1> QED BY <1>1, <1>2, <1>3, SMT

\* Code with one byte that is another.
LEMMA ByteChanged ==
    ASSUME NEW code \in Seq(Byte), NEW i \in DOMAIN code, NEW byte \in Byte
    PROVE  /\ [code EXCEPT ![i] = byte] \in Seq(Byte)
           /\ byte # code[i] => Crc([code EXCEPT ![i] = byte]) # Crc(code)
<1> DEFINE other == [code EXCEPT ![i] = byte]
<1>1. PICK n \in Nat : n = Len(code)
  BY LenProperties
<1>2. code \in [1 .. n -> Byte] /\ i \in 1 .. n
  BY <1>1, LenProperties, ElementOfSeq
<1>3. /\ other \in [1 .. n -> Byte] /\ other[i] = byte
      /\ \A j \in 1 .. n : j # i => other[j] = code[j]
  BY <1>2
<1> HIDE DEF other
<1>4. other \in Seq(Byte) /\ Len(other) = n
  BY <1>3, SeqDef, LenProperties
<1>5. ASSUME byte # code[i] PROVE Crc(other) # Crc(code)
  BY <1>1, <1>2, <1>3, <1>4, <1>5, OneByteDiffers
<1> QED BY <1>4, <1>5 DEF other

\* What is known of a file: its code is bytes, and it is accepted if and only if
\* it is what was written except for the slot counts.
Judged(f, w) ==
    /\ f.code \in Seq(Byte) /\ f.size \in {14, 15}
    /\ Undamaged(f) <=> [f EXCEPT !.input_slots = w.input_slots] = w
    /\ Undamaged(f) => f.code = w.code

LEMMA DamagesJudged ==
    ASSUME NEW p, p.code \in Seq(Byte), NEW w, w = EncodeProgram(p)
    PROVE  Judged(w, w) /\ \A f \in Damages(w) : Judged(f, w)
<1> DEFINE code == p.code
<1>1. PICK n \in Nat : n = Len(code)
  BY LenProperties
<1>2. PICK sum \in Sums : sum = Crc(code)
  BY CrcInRange
<1>3. w = [size |-> 15, magic |-> "XQBC", version |-> 1,
           input_slots |-> w.input_slots, output_slots |-> w.output_slots,
           code_len |-> n, crc |-> sum, code |-> code]
  BY <1>1, <1>2 DEF EncodeProgram, HeaderSize
<1>4. code \in Seq(Byte)
  OBVIOUS
<1> HIDE DEF code
<1> DEFINE counted(f) == [f EXCEPT !.input_slots = w.input_slots]
<1>5. Judged(w, w)
  <2>1. counted(w) = w
    BY <1>3
  <2>2. Undamaged(w)
    BY <1>1, <1>2, <1>3 DEF Undamaged, HeaderSize
  <2>3. w.code \in Seq(Byte) /\ w.size = 15
    BY <1>3, <1>4
  <2> QED BY <2>1, <2>2, <2>3 DEF Judged
<1>6. ASSUME NEW f, f = [w EXCEPT !.magic = "DEAD"] PROVE Judged(f, w)
  <2>1. f.code = code /\ f.size = 15 /\ f.magic = "DEAD" /\ w.magic = "XQBC"
        /\ counted(f).magic = "DEAD"
    BY <1>3, <1>6
  <2>2. ~Undamaged(f) /\ counted(f) # w
    BY <2>1 DEF Undamaged
  <2> HIDE DEF counted
  <2> QED BY <1>4, <2>1, <2>2 DEF Judged, counted
<1>7. ASSUME NEW f, f = [w EXCEPT !.version = 2] PROVE Judged(f, w)
  <2>1. f.code = code /\ f.size = 15 /\ f.version = 2 /\ w.version = 1
        /\ counted(f).version = 2
    BY <1>3, <1>7
  <2> HIDE DEF counted
  <2>2. ~Undamaged(f)
    BY <2>1 DEF Undamaged
  <2>3. counted(f) # w
    BY <2>1
  <2> QED BY <1>4, <2>1, <2>2, <2>3 DEF Judged, counted
<1>8. ASSUME NEW f, f = [w EXCEPT !.size = HeaderSize - 1] PROVE Judged(f, w)
  <2>1. f.code = code /\ f.size = 14 /\ w.size = 15 /\ counted(f).size = 14
    BY <1>3, <1>8 DEF HeaderSize
  <2> HIDE DEF counted
  <2>2. ~Undamaged(f)
    BY <2>1 DEF Undamaged, HeaderSize
  <2>3. counted(f) # w
    BY <2>1
  <2> QED BY <1>4, <2>1, <2>2, <2>3 DEF Judged, counted
<1>9. ASSUME NEW f, f = [w EXCEPT !.input_slots = @ + 1] PROVE Judged(f, w)
  <2>1. f = [size |-> 15, magic |-> "XQBC", version |-> 1,
             input_slots |-> f.input_slots, output_slots |-> w.output_slots,
             code_len |-> n, crc |-> sum, code |-> code]
    BY <1>3, <1>9
  <2>2. Undamaged(f)
    BY <1>1, <1>2, <2>1 DEF Undamaged, HeaderSize
  <2>3. counted(f) = w
    BY <1>3, <2>1
  <2>4. f.code = code /\ f.size = 15 /\ w.code = code
    BY <1>3, <2>1
  <2> HIDE DEF counted
  <2> QED BY <1>4, <2>2, <2>3, <2>4 DEF Judged, counted
<1>10. ASSUME NEW f, f = [w EXCEPT !.code_len = @ + 1] PROVE Judged(f, w)
  <2>1. f.code = code /\ f.size = 15 /\ f.code_len = n + 1 /\ w.code_len = n
        /\ counted(f).code_len = n + 1 /\ n + 1 # n
    BY <1>3, <1>10
  <2>2. ~Undamaged(f) /\ counted(f) # w
    BY <1>1, <2>1 DEF Undamaged
  <2> HIDE DEF counted
  <2> QED BY <1>4, <2>1, <2>2 DEF Judged, counted
<1>11. ASSUME NEW f, f = [w EXCEPT !.crc = (@ + 1) % 65521] PROVE Judged(f, w)
  <2> DEFINE next == (sum + 1) % 65521
  <2>1. next = (sum + 1) % 65521
    OBVIOUS
  <2> HIDE DEF next
  <2>2. next # sum
    BY <2>1, NextSum, SMT
  <2>3. f = [w EXCEPT !.crc = next]
    <3>1. w.crc = sum
      BY <1>3, SMT
    <3>2. f = [w EXCEPT !.crc = (w.crc + 1) % 65521]
      BY <1>11, SMT
    <3> QED BY <2>1, <3>1, <3>2, SMT
  <2>4. f.code = code /\ f.size = 15 /\ f.crc = next /\ w.crc = sum
        /\ counted(f).crc = next
    BY <1>3, <2>3, SMT
  <2>5. ~Undamaged(f)
    BY <1>2, <2>2, <2>4, SMT DEF Undamaged
  <2> HIDE DEF counted
  <2>6. counted(f) # w
    BY <2>2, <2>4, SMT
  <2> QED BY <1>4, <2>4, <2>5, <2>6, SMT DEF Judged, counted
<1>12. ASSUME NEW f, f = [w EXCEPT !.code = Append(@, 0)] PROVE Judged(f, w)
  <2>1. PICK other : other = Append(code, 0)
    OBVIOUS
  <2>2. other \in Seq(Byte) /\ Len(other) = n + 1 /\ n + 1 # n
    <3>1. 0 \in Byte
      BY DEF Byte
    <3> QED BY <1>1, <1>4, <2>1, <3>1, AppendProperties
  <2>3. f.code = other /\ f.size = 15 /\ f.code_len = n /\ w.code = code
        /\ counted(f).code = other
    BY <1>3, <1>12, <2>1
  <2>4. ~Undamaged(f) /\ counted(f) # w
    BY <1>1, <2>2, <2>3 DEF Undamaged
  <2> HIDE DEF counted
  <2> QED BY <2>2, <2>3, <2>4 DEF Judged, counted
<1>13. ASSUME NEW f, f = [w EXCEPT !.code = <<>>] PROVE Judged(f, w)
  <2>1. f.code = <<>> /\ f.size = 15 /\ f.code_len = n /\ w.code = code
        /\ counted(f).code = <<>>
    BY <1>3, <1>13
  <2>2. <<>> \in Seq(Byte) /\ Len(<<>>) = 0
    BY EmptySeq
  <2>3. CASE code = <<>>
    <3>1. f = w
      BY <1>3, <1>13, <2>3
    <3> QED BY <1>5, <3>1
  <2>4. CASE code # <<>>
    <3>1. n # 0
      BY <1>1, <1>4, <2>4, EmptySeq
    <3>2. ~Undamaged(f) /\ counted(f) # w
      BY <2>1, <2>2, <2>4, <3>1 DEF Undamaged
    <3> HIDE DEF counted
    <3> QED BY <2>1, <2>2, <3>2 DEF Judged, counted
  <2> QED BY <2>3, <2>4
<1>14. ASSUME NEW f, NEW i \in DOMAIN w.code, f = [w EXCEPT !.code[i] = (@ + 1) % 256]
       PROVE  Judged(f, w)
  <2>1. i \in DOMAIN code
    BY <1>3
  <2>2. PICK old \in 0 .. 255 : old = code[i]
    <3>1. code \in [1 .. Len(code) -> Byte] /\ DOMAIN code = 1 .. Len(code)
      BY <1>4, LenProperties
    <3>2. code[i] \in Byte
      BY <2>1, <3>1
    <3> QED BY <3>2 DEF Byte
  <2>3. PICK byte \in Byte : byte = (old + 1) % 256
    BY DEF Byte
  <2>4. byte # old
    BY <2>3
  <2>5. PICK other : other = [code EXCEPT ![i] = byte]
    OBVIOUS
  <2>6. other \in Seq(Byte) /\ Crc(other) # Crc(code) /\ other # code
    BY <1>4, <2>1, <2>2, <2>4, <2>5, ByteChanged
  <2>7. f = [w EXCEPT !.code = other]
    BY <1>3, <1>14, <2>2, <2>3, <2>5
  <2>8. f.code = other /\ f.size = 15 /\ f.crc = sum /\ w.code = code
        /\ counted(f).code = other
    BY <1>3, <2>7
  <2>9. ~Undamaged(f) /\ counted(f) # w
    BY <1>2, <2>6, <2>8 DEF Undamaged
  <2> HIDE DEF counted
  <2> QED BY <2>6, <2>8, <2>9 DEF Judged, counted
<1>15. ASSUME NEW f \in Damages(w) PROVE Judged(f, w)
  <2> HIDE DEF counted
  <2>1. \/ f = [w EXCEPT !.magic = "DEAD"] \/ f = [w EXCEPT !.version = 2]
        \/ f = [w EXCEPT !.size = HeaderSize - 1]
        \/ f = [w EXCEPT !.input_slots = @ + 1] \/ f = [w EXCEPT !.code_len = @ + 1]
        \/ f = [w EXCEPT !.crc = (@ + 1) % 65521]
        \/ f = [w EXCEPT !.code = Append(@, 0)] \/ f = [w EXCEPT !.code = <<>>]
        \/ \E i \in DOMAIN w.code : f = [w EXCEPT !.code[i] = (@ + 1) % 256]
    BY SMT DEF Damages
  <2> QED BY <1>6, <1>7, <1>8, <1>9, <1>10, <1>11, <1>12, <1>13, <1>14, <2>1, SMT
<1> QED BY <1>5, <1>15, Zenon

--------------------------------------------------------------------------
(* The toolchain.                                                          *)

\* The file is what the builder made or that with one damage; what was loaded
\* is code made of that, or what decoding the file returns.
ToolInv ==
    /\ AssemblerInv
    /\ \/ file = NoFile
       \/ /\ built.status = "ok"
          /\ \/ file = EncodeProgram(built.program)
             \/ file \in Damages(EncodeProgram(built.program))
    /\ \/ loaded = NotLoaded
       \/ /\ file # NoFile /\ loaded.error = "raw"
          /\ \E code \in Seq(Byte) : loaded.program = NewProgram(code)
          /\ listing = Disassembly(loaded.program)
       \/ /\ file # NoFile /\ loaded = DecodeProgram(file) /\ loaded.error # "raw"
          /\ loaded.error = "none" => listing = Disassembly(loaded.program)

\* Once build has accepted, the assembler is at its end, and what was built is bytes.
LEMMA BuiltIsBytes ==
    ASSUME EmitsBytes, AssemblerInv, built.status = "ok"
    PROVE  /\ outcome.status = "ok"
           /\ built.program.code \in Seq(Byte)
           /\ built.program = NewProgram(built.program.code)
<1>1. built = BuildOf(b) /\ outcome = EndOutcome(built)
  BY DEF AssemblerInv, OutcomeInv
<1>2. outcome.status = "ok"
  BY <1>1 DEF EndOutcome
<1>3. Missing(b) = {} /\ UnusedOf(b) = {} /\ ~(Cardinality(Placed(b)) > WideLabels)
  <2>1. BuildStatus(b) = "ok"
    BY <1>1, BuildEnds
  <2> QED BY <2>1 DEF BuildStatus
<1>4. built = BuiltAs(NewProgram(Narrowed(b)))
  BY <1>1, <1>3 DEF BuildOf
<1>5. built.program = NewProgram(Narrowed(b))
  BY <1>4 DEF BuiltAs
<1>6. built.program.code = Narrowed(b)
  BY <1>5 DEF NewProgram
<1>7. b \in BuilderSet /\ \E at, call : Kept(b, at, call)
  BY DEF AssemblerInv, BuilderInv
<1>8. Narrowed(b) \in Seq(Byte)
  BY <1>3, <1>7, NarrowedBytes
<1> QED BY <1>2, <1>5, <1>6, <1>8

LEMMA FileJudged ==
    ASSUME EmitsBytes, ToolInv, file # NoFile
    PROVE  /\ Judged(file, EncodeProgram(built.program))
           /\ built.status = "ok"
<1>1. built.status = "ok"
  BY DEF ToolInv
<1>2. built.program.code \in Seq(Byte)
  BY <1>1, BuiltIsBytes DEF ToolInv
<1>3. \/ file = EncodeProgram(built.program)
      \/ file \in Damages(EncodeProgram(built.program))
  BY DEF ToolInv
<1> QED BY <1>1, <1>2, <1>3, DamagesJudged

\* What is written is a file, and so is what damage leaves.
LEMMA JudgedIsFile ==
    ASSUME NEW f, NEW w, Judged(f, w)
    PROVE  f # NoFile /\ f.size \in Nat
  BY DEF Judged, NoFile

LEMMA MangledBytes ==
    ASSUME NEW code \in Seq(Byte), code # <<>>, NEW other \in Mangled(code)
    PROVE  other \in Seq(Byte)
<1>1. PICK n \in Nat : n = Len(code)
  BY LenProperties
<1>2. n # 0
  BY <1>1, EmptySeq
<1>3. CASE other = Tail(code)
  BY <1>3, HeadTailProperties
<1>4. CASE other = SubSeq(code, 1, n - 1)
  <2>1. n - 1 \in Nat /\ 0 + (n - 1) <= n /\ 0 + 1 = 1 /\ 0 + (n - 1) = n - 1
    BY <1>2
  <2> QED BY <1>1, <1>4, <2>1, Slice
<1>5. CASE \E i \in DOMAIN code : other = [code EXCEPT ![i] = \h7E]
  <2>1. \h7E \in Byte
    BY DEF Byte
  <2> QED BY <1>5, <2>1, ByteChanged
<1> QED BY <1>1, <1>3, <1>4, <1>5 DEF Mangled

LEMMA ToolInitially == AssemblerInit /\ ToolInit => ToolInv
<1> SUFFICES ASSUME AssemblerInit, ToolInit PROVE ToolInv
  OBVIOUS
<1>1. AssemblerInv
  BY AssembledInitially
<1> QED BY <1>1 DEF ToolInit, ToolInv

\* Nothing that the tools do happens before the assembler is at its end, and it
\* does nothing after.
LEMMA AtItsEnd ==
    ASSUME EmitsBytes, ToolInv, AssemblerNext
    PROVE  file = NoFile /\ loaded = NotLoaded
<1>1. outcome.status = "reading"
  <2>1. CASE EndOfSource
    BY <2>1 DEF EndOfSource
  <2>2. CASE \E line \in Lines : AssembleLine(line)
    <3>1. PICK line \in Lines : AssembleLine(line)
      BY <2>2
    <3>2. AssembleLabelDef(line) => Reads(line)
      BY DEF AssembleLabelDef
    <3>3. AssembleTarget(line) => Reads(line)
      BY DEF AssembleTarget
    <3>4. AssembleJump(line) => Reads(line)
      BY DEF AssembleJump
    <3>5. AssemblePush(line) => Reads(line)
      BY DEF AssemblePush
    <3>6. AssembleOther(line) => Reads(line)
      BY DEF AssembleOther
    <3>7. Reads(line)
      BY <3>1, <3>2, <3>3, <3>4, <3>5, <3>6 DEF AssembleLine
    <3> QED BY <3>7 DEF Reads
  <2> QED BY <2>1, <2>2 DEF AssemblerNext
<1>2. ASSUME built.status = "ok" PROVE FALSE
  BY <1>1, <1>2, BuiltIsBytes DEF ToolInv
<1> QED BY <1>2 DEF ToolInv

LEMMA ToolKeeps ==
    ASSUME OrdinarySource, EmitsBytes, ToolInv,
           [ToolchainNext]_<<assemblerVars, toolVars>>
    PROVE  ToolInv'
<1>1. AssemblerInv /\ AssemblerInv'
  <2>1. [AssemblerNext]_assemblerVars
    BY DEF ToolchainNext, ToolNext
  <2> QED BY <2>1, AssemblerKeeps DEF ToolInv
<1>2. CASE AssemblerNext /\ UNCHANGED toolVars
  <2>1. file' = NoFile /\ loaded' = NotLoaded
    BY <1>2, AtItsEnd DEF toolVars
  <2> QED BY <1>1, <2>1 DEF ToolInv
<1>3. ASSUME UNCHANGED assemblerVars
      PROVE  built' = built
  BY <1>3 DEF assemblerVars
<1>4. CASE WriteFile /\ UNCHANGED assemblerVars
  <2>1. /\ built'.status = "ok" /\ file' = EncodeProgram(built'.program)
        /\ loaded' = loaded /\ file = NoFile
    BY <1>3, <1>4 DEF WriteFile
  <2>2. loaded' = NotLoaded
    BY <2>1 DEF ToolInv
  <2> QED BY <1>1, <2>1, <2>2 DEF ToolInv
<1>5. CASE Damage /\ UNCHANGED assemblerVars
  <2>1. /\ built'.status = "ok" /\ file' \in Damages(EncodeProgram(built'.program))
        /\ loaded' = NotLoaded
    BY <1>3, <1>5 DEF Damage, Intact
  <2> QED BY <1>1, <2>1 DEF ToolInv
<1>6. CASE Dism /\ UNCHANGED assemblerVars
  <2>1. /\ file # NoFile /\ file' = file /\ loaded' = DecodeProgram(file')
        /\ loaded'.error = "none" => listing' = Disassembly(loaded'.program)
    BY <1>6 DEF Dism
  <2>2. /\ built'.status = "ok"
        /\ \/ file' = EncodeProgram(built'.program)
           \/ file' \in Damages(EncodeProgram(built'.program))
    <3>1. /\ built.status = "ok"
          /\ \/ file = EncodeProgram(built.program)
             \/ file \in Damages(EncodeProgram(built.program))
      BY <2>1 DEF ToolInv
    <3>2. built' = built /\ file' = file
      BY <1>3, <1>6, <2>1
    <3> QED BY <3>1, <3>2
  <2>3. loaded'.error # "raw"
    BY <2>1, NoneIsRaw
  <2> QED BY <1>1, <2>1, <2>2, <2>3 DEF ToolInv
<1>7. CASE DismRaw /\ UNCHANGED assemblerVars
  <2>1. PICK code \in Mangled(file.code) :
           /\ loaded' = [error |-> "raw", program |-> NewProgram(code)]
           /\ listing' = Disassembly(loaded'.program)
    BY <1>7 DEF DismRaw
  <2>2. /\ built.status = "ok" /\ file = EncodeProgram(built.program)
        /\ file.code # <<>> /\ file' = file
    BY <1>7 DEF DismRaw, Intact
  <2>3. Judged(file, file)
    <3>1. built.program.code \in Seq(Byte)
      BY <1>1, <2>2, BuiltIsBytes
    <3> QED BY <2>2, <3>1, DamagesJudged
  <2>4. file' # NoFile
    BY <2>2, <2>3, JudgedIsFile
  <2>5. code \in Seq(Byte)
    BY <2>2, <2>3, MangledBytes DEF Judged
  <2>6. loaded'.error = "raw" /\ loaded'.program = NewProgram(code)
    BY <2>1
  <2>7. built'.status = "ok" /\ file' = EncodeProgram(built'.program)
    BY <1>3, <1>7, <2>2
  <2> QED BY <1>1, <2>1, <2>4, <2>5, <2>6, <2>7 DEF ToolInv
<1>8. CASE UNCHANGED <<assemblerVars, toolVars>>
  <2>1. built' = built /\ file' = file /\ loaded' = loaded /\ listing' = listing
    BY <1>3, <1>8 DEF toolVars
  <2> QED BY <1>1, <2>1 DEF ToolInv
<1> QED BY <1>2, <1>4, <1>5, <1>6, <1>7, <1>8 DEF ToolchainNext, ToolNext

LEMMA ListingKept ==
    ASSUME EmitsBytes, ToolInv
    PROVE  ListingComplete
<1> SUFFICES ASSUME loaded.error \in {"none", "raw"} PROVE ListingComplete
  BY DEF ListingComplete
<1>1. loaded # NotLoaded
  <2>1. NotLoaded.error = "not loaded"
    BY DEF NotLoaded
  <2> QED BY <2>1
<1>2. CASE /\ \E code \in Seq(Byte) : loaded.program = NewProgram(code)
           /\ listing = Disassembly(loaded.program)
  BY <1>2, ListingHolds
<1>3. CASE /\ file # NoFile /\ loaded = DecodeProgram(file) /\ loaded.error # "raw"
           /\ loaded.error = "none" => listing = Disassembly(loaded.program)
  <2>1. loaded.error = "none" /\ listing = Disassembly(loaded.program)
    BY <1>3
  <2>2. file.code \in Seq(Byte) /\ file.size \in Nat
    BY <1>3, FileJudged DEF Judged
  <2>3. loaded = [error |-> "none", program |-> NewProgram(file.code)]
    BY <1>3, <2>1, <2>2, DecodeVerdict
  <2>4. loaded.program = NewProgram(file.code)
    BY <2>3
  <2> QED BY <2>1, <2>2, <2>4, ListingHolds
<1> QED BY <1>1, <1>2, <1>3 DEF ToolInv

LEMMA LoadedKept ==
    ASSUME EmitsBytes, ToolInv
    PROVE  LoadedIsBuilt
<1> SUFFICES ASSUME loaded.error \notin {"not loaded", "raw"} PROVE LoadedIsBuilt
  BY DEF LoadedIsBuilt
<1>1. file # NoFile /\ loaded = DecodeProgram(file)
  <2>1. NotLoaded.error = "not loaded"
    BY DEF NotLoaded
  <2> QED BY <2>1 DEF ToolInv
<1> DEFINE written == EncodeProgram(built.program)
           counted == [file EXCEPT !.input_slots = written.input_slots]
<1>2. /\ built.status = "ok" /\ file.size \in Nat
      /\ Undamaged(file) <=> counted = written
      /\ Undamaged(file) => file.code = written.code
  <2>1. Judged(file, EncodeProgram(built.program)) /\ built.status = "ok"
    BY <1>1, FileJudged
  <2>2. file.size \in Nat
    BY <2>1, JudgedIsFile, Zenon
  <2> QED BY <2>1, <2>2, Zenon DEF Judged
<1>3. built.program = NewProgram(built.program.code)
  BY <1>2, BuiltIsBytes DEF ToolInv
<1>4. CASE counted = written
  <2>1. loaded = [error |-> "none", program |-> NewProgram(file.code)]
    BY <1>1, <1>2, <1>4, DecodeVerdict
  <2>2. file.code = built.program.code
    <3>1. written.code = built.program.code
      BY DEF EncodeProgram
    <3> HIDE DEF written, counted
    <3> QED BY <1>2, <1>4, <3>1
  <2>3. loaded = [error |-> "none", program |-> built.program]
    BY <1>3, <2>1, <2>2
  <2> QED BY <1>4, <2>3 DEF LoadedIsBuilt
<1>5. CASE counted # written
  <2>1. loaded.error # "none"
    BY <1>1, <1>2, <1>5, DecodeVerdict
  <2> QED BY <1>5, <2>1 DEF LoadedIsBuilt
<1> QED BY <1>4, <1>5

\* A listing loses nothing of the code it is of.
THEOREM ListingsComplete ==
    ASSUME OrdinarySource, EmitsBytes
    PROVE  ToolchainSpec => []ListingComplete
<1>1. AssemblerInit /\ ToolInit => ToolInv
  BY ToolInitially
<1>2. ToolInv /\ [ToolchainNext]_<<assemblerVars, toolVars>> => ToolInv'
  BY ToolKeeps
<1>3. ToolInv => ListingComplete
  BY ListingKept
<1> QED BY <1>1, <1>2, <1>3, PTL DEF ToolchainSpec

\* A file that loads is what was written, and a damaged one does not load.
THEOREM LoadedWasBuilt ==
    ASSUME OrdinarySource, EmitsBytes
    PROVE  ToolchainSpec => []LoadedIsBuilt
<1>1. AssemblerInit /\ ToolInit => ToolInv
  BY ToolInitially
<1>2. ToolInv /\ [ToolchainNext]_<<assemblerVars, toolVars>> => ToolInv'
  BY ToolKeeps
<1>3. ToolInv => LoadedIsBuilt
  BY LoadedKept
<1> QED BY <1>1, <1>2, <1>3, PTL DEF ToolchainSpec
==============================================================================
