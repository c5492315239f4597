----------------------------- MODULE Toolchain -----------------------------
(***************************************************************************)
(* From source to listing: the assembler's program is written to a file,   *)
(* the file may be damaged, and it is loaded and disassembled again        *)
(* (src/xqcli/src/asm.rs and dism.rs over program.rs and disasm.rs).       *)
(***************************************************************************)
EXTENDS Assembler

VARIABLES
    file,             \* the .xqb file, once it is written
    loaded,           \* what decoding it returned
    listing           \* the disassembly

toolVars == <<file, loaded, listing>>

NoFile == [size |-> 0]
NotLoaded == [error |-> "not loaded"]

WriteFile ==
    /\ built.status = "ok" /\ file = NoFile
    /\ file' = EncodeProgram(built.program)
    /\ UNCHANGED <<loaded, listing>>

Intact == built.status = "ok" /\ file = EncodeProgram(built.program)

\* One field or one byte is not what was written, or the end is missing: external.
Damages(f) ==
    {[f EXCEPT !.magic = "DEAD"], [f EXCEPT !.version = 2],
     [f EXCEPT !.size = HeaderSize - 1], [f EXCEPT !.input_slots = @ + 1],
     [f EXCEPT !.code_len = @ + 1], [f EXCEPT !.crc = (@ + 1) % 65521],
     [f EXCEPT !.code = Append(@, 0)], [f EXCEPT !.code = <<>>]}
    \cup {[f EXCEPT !.code[i] = (@ + 1) % 256] : i \in DOMAIN f.code}
Damage ==
    /\ Intact /\ loaded = NotLoaded
    /\ file' \in Damages(file)
    /\ UNCHANGED <<loaded, listing>>

\* dism: decode, then disassemble.
Dism ==
    /\ file # NoFile /\ loaded = NotLoaded
    /\ loaded' = DecodeProgram(file)
    /\ listing' = IF loaded'.error = "none" THEN Disassembly(loaded'.program)
                  ELSE <<>>
    /\ UNCHANGED file

\* Program::new takes any bytes: here code that lost its first byte or its
\* last, or has a byte that is no opcode.
Mangled(code) ==
    {Tail(code), SubSeq(code, 1, Len(code) - 1)}
      \cup {[code EXCEPT ![i] = \h7E] : i \in DOMAIN code}
DismRaw ==
    /\ Intact /\ loaded = NotLoaded
    /\ file.code # <<>>
    /\ \E code \in Mangled(file.code) :
          /\ loaded' = [error |-> "raw", program |-> NewProgram(code)]
          /\ listing' = Disassembly(loaded'.program)
    /\ UNCHANGED file

ToolInit == file = NoFile /\ loaded = NotLoaded /\ listing = <<>>
ToolNext == (WriteFile \/ Damage \/ Dism \/ DismRaw) /\ UNCHANGED assemblerVars

ToolchainNext == (AssemblerNext /\ UNCHANGED toolVars) \/ ToolNext
ToolchainSpec ==
    AssemblerInit /\ ToolInit /\ [][ToolchainNext]_<<assemblerVars, toolVars>>

--------------------------------------------------------------------------
(* Properties.                                                            *)

\* A file that loads gives the program that was written, and a file with a
\* single damage, other than in the slot counts, which are counted again, does
\* not load.
LoadedIsBuilt ==
    loaded.error \notin {"not loaded", "raw"} =>
        LET written == EncodeProgram(built.program)
            counted == [file EXCEPT !.input_slots = written.input_slots]
        IN  IF counted = written
            THEN loaded = [error |-> "none", program |-> built.program]
            ELSE loaded.error # "none"

\* The bytes a line of a listing stands for.
BytesOfLine(line) ==
    IF line.shown[1] = ".byte" THEN line.shown[2]
    ELSE LET fields == OfName[line.shown[1]].fields
             arg(k) == IF fields[k].kind = "bytes"
                       THEN LowBytes(line.shown[2][k], fields[k].width)
                       ELSE line.shown[2][k]
         IN  Encode(Instr(line.shown[1], [k \in DOMAIN fields |-> arg(k)]))

\* disasm.rs: no information is silently dropped.  The code can be rebuilt
\* from its listing byte for byte, junk and truncated instructions included,
\* and every entry of the jump table labels exactly one line, a TARGET.
ListingComplete ==
    loaded.error \in {"none", "raw"} =>
        LET p == loaded.program
            spans == [k \in DOMAIN listing |-> BytesOfLine(listing[k])]
            start(k) == IF k > Len(listing) THEN Len(p.code) ELSE listing[k].offset
        IN  /\ \A k \in DOMAIN listing :
                  spans[k] = SubSeq(p.code, start(k) + 1, start(k + 1))
            /\ p.code # <<>> => start(1) = 0
            /\ \A id \in DOMAIN p.jump_table :
                  {k \in DOMAIN listing : listing[k].label = id - 1}
                    = {k \in DOMAIN listing :
                          /\ listing[k].offset = p.jump_table[id]
                          /\ listing[k].shown[1] = "TARGET"}
==========================================================================
