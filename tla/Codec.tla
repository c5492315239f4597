------------------------------- MODULE Codec -------------------------------
(***************************************************************************)
(* Bytes: the opcode table, the codec and the instruction stream of        *)
(* src/xqvm/src/bytecode, the jump table found by scanning, the XQBC       *)
(* container and the lines of a disassembly.  Pure functions.              *)
(*                                                                         *)
(* Here positions are byte offsets from 0, as in the source.  An           *)
(* instruction is its mnemonic and its operands: a register or a label is  *)
(* a number, the constant of PUSHn its n bytes.                            *)
(***************************************************************************)
EXTENDS Integers, Sequences, SequencesExt

CONSTANTS
    WordBytes,        \* bytes of a word, the widest constant (8 in the code)
    MaxSlots          \* u8::MAX, where the slot counts of a header saturate

ASSUME CodecAssumption == WordBytes \in 2 .. 8 /\ MaxSlots \in Nat

\* What the powers of 256 are.
ASSUME PowerAssumption ==
    /\ 256 ^ 0 = 1
    /\ \A n \in 0 .. WordBytes - 1 : 256 ^ (n + 1) = 256 * 256 ^ n

Byte == 0 .. 255

--------------------------------------------------------------------------
\* The opcode table: codes and mnemonics by operand list.
Plain == {
    <<\h00, "TARGET">>, <<\h07, "NEXT">>, <<\h08, "RANGE">>, <<\h10, "POP">>,
    <<\h1A, "SCLR">>, <<\h1B, "SWAP">>, <<\h1C, "COPY">>, <<\h20, "ADD">>,
    <<\h21, "SUB">>, <<\h22, "MUL">>, <<\h23, "DIV">>, <<\h24, "MOD">>,
    <<\h25, "SQR">>, <<\h26, "ABS">>, <<\h27, "NEG">>, <<\h28, "MIN">>,
    <<\h29, "MAX">>, <<\h2A, "INC">>, <<\h2B, "DEC">>, <<\h2C, "BITLEN">>,
    <<\h30, "EQ">>, <<\h31, "LT">>, <<\h32, "GT">>, <<\h33, "LTE">>,
    <<\h34, "GTE">>, <<\h36, "NOT">>, <<\h37, "AND">>, <<\h38, "OR">>,
    <<\h39, "XOR">>, <<\h3A, "BAND">>, <<\h3B, "BOR">>, <<\h3C, "BXOR">>,
    <<\h3D, "BNOT">>, <<\h3E, "SHL">>, <<\h3F, "SHR">>, <<\h5A, "IDXGRID">>,
    <<\h5B, "IDXTRIU">>, <<\hF0, "NOP">>, <<\hFF, "HALT">>}
OneRegister == {
    <<\h05, "LIDX">>, <<\h06, "LVAL">>, <<\h09, "ITER">>, <<\h0A, "LOAD">>,
    <<\h0B, "STOW">>, <<\h0C, "DROP">>, <<\h0E, "INPUT">>, <<\h0F, "OUTPUT">>,
    <<\h40, "BQMX">>, <<\h41, "SQMX">>, <<\h42, "XQMX">>, <<\h43, "BSMX">>,
    <<\h44, "SSMX">>, <<\h45, "XSMX">>, <<\h4A, "VEC">>, <<\h4B, "VECI">>,
    <<\h4C, "VECX">>, <<\h50, "VECPUSH">>, <<\h51, "VECGET">>, <<\h52, "VECSET">>,
    <<\h53, "VECLEN">>, <<\h60, "GETLINE">>, <<\h61, "SETLINE">>,
    <<\h62, "ADDLINE">>, <<\h63, "GETQUAD">>, <<\h64, "SETQUAD">>,
    <<\h65, "ADDQUAD">>, <<\h66, "RESIZE">>, <<\h67, "ROWFIND">>,
    <<\h68, "COLFIND">>, <<\h69, "ROWSUM">>, <<\h6A, "COLSUM">>,
    <<\h70, "ONEHOTR">>, <<\h71, "ONEHOTC">>, <<\h72, "EXCLUDE">>,
    <<\h73, "IMPLIES">>, <<\h77, "REDUCE">>}
TwoRegisters == {<<\h54, "SLACK">>, <<\h75, "ATLEAST">>, <<\h7F, "ENERGY">>}
ThreeRegisters == {<<\h74, "EQUALITY">>, <<\h76, "ATLEASTW">>}
NarrowJumps == {<<\h01, "JUMP1">>, <<\h02, "JUMPI1">>}
WideJumps == {<<\h03, "JUMP2">>, <<\h04, "JUMPI2">>}
PushName == <<"PUSH1", "PUSH2", "PUSH3", "PUSH4", "PUSH5", "PUSH6", "PUSH7", "PUSH8">>

\* An operand field and its width.
RegisterField == [kind |-> "register", width |-> 1]
NarrowField == [kind |-> "u8", width |-> 1]
WideField == [kind |-> "u16", width |-> 2]
BytesField(n) == [kind |-> "bytes", width |-> n]

Table ==
    LET rows(opcodes, fields) ==
            {[code |-> o[1], op |-> o[2], fields |-> fields] : o \in opcodes}
    IN  rows(Plain, <<>>)
          \cup rows(OneRegister, <<RegisterField>>)
          \cup rows(TwoRegisters, <<RegisterField, RegisterField>>)
          \cup rows(ThreeRegisters, <<RegisterField, RegisterField, RegisterField>>)
          \cup rows(NarrowJumps, <<NarrowField>>)
          \cup rows(WideJumps, <<WideField>>)
          \cup UNION {rows({<<\h10 + n, PushName[n]>>}, <<BytesField(n)>>) :
                          n \in 1 .. WordBytes}

OfCode == [c \in {row.code : row \in Table} |-> CHOOSE row \in Table : row.code = c]
OfName == [op \in {row.op : row \in Table} |-> CHOOSE row \in Table : row.op = op]

Instr(op, args) == [op |-> op, args |-> args]

--------------------------------------------------------------------------
\* EncodeOperand, DecodeOperand: numbers are big-endian.
EncodeOperand(field, v) ==
    CASE field.kind = "u16"   -> <<v \div 256, v % 256>>
      [] field.kind = "bytes" -> v
      [] OTHER                -> <<v>>
DecodeOperand(field, s) ==
    CASE field.kind = "u16"   -> 256 * s[1] + s[2]
      [] field.kind = "bytes" -> s
      [] OTHER                -> s[1]

Encode(instr) ==
    LET row == OfName[instr.op]
    IN  <<row.code>> \o FlattenSeq([k \in DOMAIN row.fields |->
                                EncodeOperand(row.fields[k], instr.args[k])])

\* The bytes of the first n operands, and the opcode.
SizeOfFields(fields, n) == FoldLeft(LAMBDA sum, f : sum + f.width, 1, SubSeq(fields, 1, n))

\* Decode reads one instruction from the start of some bytes.
DecodeRow(row, bytes) ==
    LET start(k) == SizeOfFields(row.fields, k - 1)
    IN  IF Len(bytes) < start(Len(row.fields) + 1)
        THEN [error |-> "TruncatedOperand"]
        ELSE [error |-> "none", consumed |-> start(Len(row.fields) + 1),
              instr |-> Instr(row.op, [k \in DOMAIN row.fields |->
                            DecodeOperand(row.fields[k],
                                SubSeq(bytes, start(k) + 1, start(k + 1)))])]
Decode(bytes) ==
    IF bytes = <<>> THEN [error |-> "EmptyInput"]
    ELSE IF bytes[1] \notin DOMAIN OfCode THEN [error |-> "UnknownOpcode"]
    ELSE DecodeRow(OfCode[bytes[1]], bytes)

\* Big-endian two's complement of n bytes, as PUSHn, the disassembler and the
\* shifts of minimal_push read it.
SignExtend(bytes) ==
    LET v == FoldLeft(LAMBDA acc, b : 256 * acc + b, 0, bytes)
    IN  IF bytes[1] >= 128 THEN v - 256 ^ Len(bytes) ELSE v
LowBytes(val, n) == [i \in 1 .. n |-> (val \div 256 ^ (n - i)) % 256]

\* The shortest PUSHn that keeps the value.
MinimalPush(val) ==
    LET keeps(n) == SignExtend(LowBytes(val, n)) = val
        n == CHOOSE n \in 1 .. WordBytes :
                /\ n = WordBytes \/ keeps(n)
                /\ \A m \in 1 .. n - 1 : ~keeps(m)
    IN  Instr(PushName[n], <<LowBytes(val, n)>>)

--------------------------------------------------------------------------
\* An item of the stream: an instruction, or a byte that is none.
Item(bytes, pos, decoded, skipped) ==
    IF decoded.error = "none"
    THEN [offset |-> pos, error |-> "none", instr |-> decoded.instr,
          next |-> pos + decoded.consumed]
    ELSE [offset |-> pos, error |-> decoded.error, byte |-> bytes[pos + 1],
          next |-> pos + skipped]
DecodeAt(bytes, pos) == Decode(SubSeq(bytes, pos + 1, Len(bytes)))

\* Mutant: a truncated instruction ends the stream.
NextInstructionGivingUp(bytes, pos) ==
    Item(bytes, pos, DecodeAt(bytes, pos),
         IF DecodeAt(bytes, pos).error = "UnknownOpcode" THEN 1 ELSE Len(bytes) - pos)

\* InstructionStream::next_instruction: bytes that do not decode are passed
\* one at a time.
NextInstruction(bytes, pos) == Item(bytes, pos, DecodeAt(bytes, pos), 1)

\* Everything the stream yields from the start.
Stream(bytes) ==
    LET from[pos \in 0 .. Len(bytes)] ==
            IF pos = Len(bytes) THEN <<>>
            ELSE LET item == NextInstruction(bytes, pos)
                 IN  <<item>> \o from[item.next]
    IN  from[0]

IsInstr(item, op) == item.error = "none" /\ item.instr.op = op
OffsetsOf(bytes, op) ==
    FoldLeft(LAMBDA offsets, item : IF IsInstr(item, op)
                                    THEN Append(offsets, item.offset) ELSE offsets,
             <<>>, Stream(bytes))

\* count_slots, Program::new.
Saturated(n) == IF n > MaxSlots THEN MaxSlots ELSE n
CountSlots(bytes, op) == Saturated(Len(OffsetsOf(bytes, op)))
NewProgram(code) ==
    [code |-> code, jump_table |-> OffsetsOf(code, "TARGET"),
     input_slots |-> CountSlots(code, "INPUT"),
     output_slots |-> CountSlots(code, "OUTPUT")]

\* crc32fast, of which only this is used: code of the same length that differs
\* in one byte has another checksum.
Crc(code) == FoldLeft(LAMBDA acc, b : (257 * acc + b + 1) % 65521, 1, code)

\* Program::encode.  The header's bytes are its fields; size counts them.
HeaderSize == 15
EncodeProgram(p) ==
    [size |-> HeaderSize, magic |-> "XQBC", version |-> 1,
     input_slots |-> p.input_slots, output_slots |-> p.output_slots,
     code_len |-> Len(p.code), crc |-> Crc(p.code), code |-> p.code]

\* Mutant: the checksum is read and not compared.
DecodeProgramUnchecked(file) ==
    CASE file.size < HeaderSize            -> [error |-> "TruncatedHeader"]
      [] file.magic # "XQBC"               -> [error |-> "BadMagic"]
      [] file.version # 1                  -> [error |-> "UnsupportedVersion"]
      [] Len(file.code) # file.code_len    -> [error |-> "LengthMismatch"]
      [] OTHER -> [error |-> "none", program |-> NewProgram(file.code)]

\* Program::decode checks in this order; the slot counts it does not look at.
DecodeProgram(file) ==
    IF file.size < HeaderSize THEN [error |-> "TruncatedHeader"]
    ELSE IF file.magic # "XQBC" THEN [error |-> "BadMagic"]
    ELSE IF file.version # 1 THEN [error |-> "UnsupportedVersion"]
    ELSE IF Len(file.code) # file.code_len THEN [error |-> "LengthMismatch"]
    ELSE IF Crc(file.code) # file.crc THEN [error |-> "ChecksumMismatch"]
    ELSE [error |-> "none", program |-> NewProgram(file.code)]

--------------------------------------------------------------------------
\* Disassembly::write_to: one line per item of the stream, with the number of
\* the label at its offset, or a byte that is not an instruction.
NoLabel == -1
LabelAt(p, offset) ==
    LET ids == {id \in DOMAIN p.jump_table : p.jump_table[id] = offset}
    IN  IF ids = {} THEN NoLabel ELSE (CHOOSE id \in ids : TRUE) - 1

ShownOperand(field, v) == IF field.kind = "bytes" THEN SignExtend(v) ELSE v
ShownOperands(instr) ==
    LET fields == OfName[instr.op].fields
    IN  [k \in DOMAIN fields |-> ShownOperand(fields[k], instr.args[k])]

ListingOf(p, items) ==
    [k \in DOMAIN items |->
        [offset |-> items[k].offset, label |-> LabelAt(p, items[k].offset),
         shown |-> IF items[k].error = "none"
                   THEN <<items[k].instr.op, ShownOperands(items[k].instr)>>
                   ELSE <<".byte", <<items[k].byte>>>>]]
Disassembly(p) == ListingOf(p, Stream(p.code))
==========================================================================
