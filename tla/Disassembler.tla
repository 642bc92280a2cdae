---------------------------- MODULE Disassembler ----------------------------
(***************************************************************************)
(* clox/debug.c: what the disassembler takes for the length of each        *)
(* instruction, which is all that keeps it in step with the code.          *)
(***************************************************************************)
EXTENDS Code

WithByte == {"CONSTANT", "GET_LOCAL", "GET_GLOBAL", "DEFINE_GLOBAL", "SET_GLOBAL", "GET_UPVALUE",
             "GET_PROPERTY", "SET_PROPERTY", "GET_SUPER", "CALL", "CLASS", "METHOD"}

\* Seeded fault: takes INVOKE's operands for one byte.
LengthInvokeTwo(op) == CASE op \in WithByte \cup {"CLOSURE", "INVOKE"} -> 2
                         [] op \in {"JUMP", "JUMP_IF_FALSE", "LOOP", "SUPER_INVOKE"} -> 3
                         [] OTHER -> 1

\* OP_CLOSURE has two more bytes for each upvalue, which no function here has.
Length(op) == CASE op \in WithByte \cup {"CLOSURE"} -> 2
                [] op \in {"JUMP", "JUMP_IF_FALSE", "LOOP", "INVOKE", "SUPER_INVOKE"} -> 3
                [] OTHER -> 1

\* disassembleChunk: the offsets it prints a line for, from one of them on.
RECURSIVE Lines(_, _)
Lines(code, offset) ==
  IF offset >= Len(code) THEN {} ELSE {offset} \cup Lines(code, offset + Length(code[offset + 1].op))
=============================================================================
