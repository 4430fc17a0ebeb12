------------------------------ MODULE Machine -------------------------------
(***************************************************************************)
(* The XLCMD terminal (Machine.cpp): the characters of a line go into      *)
(* mCmdBuffer, a line feed has the buffer parsed in place, and the command *)
(* calls the controller and replies.                                       *)
(*                                                                         *)
(* A cell of the buffer holds a token instead of a character: a name, a    *)
(* number, or one of the characters the parser looks for.                  *)
(***************************************************************************)
EXTENDS Controller

CONSTANTS
    CmdBufferSize,      \* 128
    Lines,              \* what a user may type
    NumberOf,           \* toInt of the tokens that are numbers
    Wide,               \* the ones that do not fit in char arg[8]
    MaxLines            \* bound: lines typed

ASSUME BufferAssumption ==
    CmdBufferSize \in 5..128 /\ Wide \subseteq DOMAIN NumberOf \ {""}
ASSUME NumbersAssumption == \A t \in DOMAIN NumberOf : NumberOf[t] \in Int

VARIABLES
    stream,             \* tokens of mStream that wait
    mCmdPtr, mCmdBuffer,
    mode,               \* "loop", "parse" a line, "wait" for the controller,
                        \* or "lost": an array was overrun and nothing is
                        \* known any more
    argv,               \* the values a setter gives to push
    typed, log          \* history: the lines, and those handled with a reply

bufferVars == <<mCmdPtr, mCmdBuffer>>
machineVars == <<stream, bufferVars, mode, argv, typed, log>>
allVars == <<vars, machineVars>>
-----------------------------------------------------------------------------
(* A line as the user means it and as it is typed.                           *)
Comma(args) == FlattenSeq([i \in 1..Len(args) |->
    (IF i = 1 THEN <<>> ELSE <<",">>)
        \o (IF args[i] = "" THEN <<>> ELSE <<args[i]>>)])

Tokens(text) ==
    CASE text.form = "get" -> <<"X", "L", "+", text.name, "?", "\r", "\n">>
      [] text.form = "set" -> <<"X", "L", "+", text.name, "=">>
                                \o Comma(text.args) \o <<"\r", "\n">>
      [] text.form = "raw" -> text.tokens

(* A line is what the line feed at its end makes one.                        *)
IsLine(tokens) ==
    /\ tokens \in Seq(STRING) /\ tokens # <<>>
    /\ \A i \in 1..Len(tokens) : tokens[i] = "\n" <=> i = Len(tokens)

ASSUME LinesAssumption == \A text \in Lines : IsLine(Tokens(text))

(* A line is read when loop comes to it: typing earlier changes nothing.     *)
Type(text) ==
    /\ Len(typed) < MaxLines /\ stream = <<>> /\ mode = "loop"
    /\ typed' = Append(typed, text) /\ stream' = stream \o Tokens(text)
    /\ UNCHANGED <<vars, bufferVars, mode, argv, log>>
-----------------------------------------------------------------------------
CmdInfoTable == {"XBAUD", "PING", "SEL"} \cup Regs

(* Mutant: a full buffer takes one more character.                           *)
AddCmdChar_OneMore(cmd, c) ==
    IF cmd.ptr <= CmdBufferSize
    THEN [ptr |-> cmd.ptr + 1, cells |-> [cmd.cells EXCEPT ![cmd.ptr] = c]]
    ELSE cmd

(* addCmdChar on a buffer and its pointer.                                   *)
AddCmdChar(cmd, c) ==
    IF cmd.ptr < CmdBufferSize
    THEN [ptr |-> cmd.ptr + 1, cells |-> [cmd.cells EXCEPT ![cmd.ptr] = c]]
    ELSE cmd

Buffer == [ptr |-> mCmdPtr, cells |-> mCmdBuffer]

(* The first cell from p on that holds one of these; without one the parser  *)
(* runs past the buffer.                                                     *)
Stop(p, ends) == Min({CmdBufferSize} \cup
    {i \in p..CmdBufferSize-1 : mCmdBuffer[i] \in ends})

(* Mutant: the zero does not end a name.                                     *)
CmdEnds_NoZero == {"\r", "?", "="}

CmdEnds == {"\r", "?", "=", "NUL"}
ArgEnds == {"\r", "\n", "NUL"}

(* getNextArg: a comma goes with the argument behind it, and the first one   *)
(* may have one too.                                                         *)
ArgTokens(text) ==
    LET all == IF text = <<>> \/ text[1] = "," THEN text ELSE <<",">> \o text
        CommasTo(i) == Cardinality({j \in 1..i : all[j] = ","})
        Nth(n) == CHOOSE i \in 1..Len(all) : all[i] = "," /\ CommasTo(i) = n
    IN  [n \in 1..CommasTo(Len(all)) |->
            IF Nth(n) < Len(all) /\ all[Nth(n) + 1] # ","
            THEN all[Nth(n) + 1] ELSE ""]

(* toIntList; what is no number is 0 for toInt.                              *)
ToInt(token) == IF token \in DOMAIN NumberOf THEN NumberOf[token] ELSE 0
ToIntList(tokens) == [n \in 1..Len(tokens) |-> ToInt(tokens[n])]

(* The line that a line feed ends, as parse and parse_command take it apart: *)
(* where the name ends and what stands there, and the arguments of a setter. *)
Parsed ==
    LET end == Stop(3, CmdEnds)
        stop == Stop(end + 1, ArgEnds)
        text == SubSeq([i \in 1..CmdBufferSize |-> mCmdBuffer[i - 1]],
                       end + 2, stop)
    IN  [end |-> end, ended |-> stop < CmdBufferSize,
         headed |-> mCmdBuffer[0] = "X" /\ mCmdBuffer[1] = "L",
         command |-> mCmdBuffer[2] = "+",
         name |-> IF end = 4 THEN mCmdBuffer[3] ELSE "",
         mark |-> IF end < CmdBufferSize THEN mCmdBuffer[end] ELSE "",
         args |-> ArgTokens(text)]

ArgsFit(args) == Len(args) <= SelectSizeMax /\ ToSet(args) \cap Wide = {}
-----------------------------------------------------------------------------
MachineInit ==
    /\ Init
    /\ stream = <<>> /\ typed = <<>> /\ log = <<>>
    /\ mCmdPtr = 0 /\ mCmdBuffer = [i \in 0..CmdBufferSize-1 |-> "NUL"]
    /\ mode = "loop" /\ argv = <<>>

(* setup, once: the controller starts at 1000000 and goes on at 115200.      *)
Setup == /\ mXlSerialBaudRate # 115200 /\ typed = <<>>
         /\ setXlBaudRate(115200) /\ UNCHANGED machineVars

(* A line feed goes into the buffer like any other, then a zero if there is  *)
(* room, and the line is parsed.                                             *)
ReadChar ==
    /\ mode = "loop" /\ stream # <<>>
    /\ LET c == Head(stream)
           read == AddCmdChar(Buffer, c)
           buffer == IF c = "\n" THEN AddCmdChar(read, "NUL") ELSE read
       IN  /\ mCmdPtr' = buffer.ptr /\ mCmdBuffer' = buffer.cells
           /\ mode' = IF c = "\n" THEN "parse" ELSE "loop"
    /\ stream' = Tail(stream)
    /\ UNCHANGED <<vars, argv, typed, log>>

(* Mutant: the pointer stays behind the line.                                *)
RstCmdPtr_Never(next) ==
    /\ mode' = next /\ UNCHANGED <<mCmdPtr, stream, typed>>

(* parse is done and the pointer goes back to the start.                     *)
RstCmdPtr(next) == mCmdPtr' = 0 /\ mode' = next /\ UNCHANGED <<stream, typed>>

(* parse_command leaves a zero where the name of the command ends.           *)
EndName(cmd) == mCmdBuffer' = [mCmdBuffer EXCEPT ![cmd.end] = "NUL"]

Reply(said, values) ==
    log' = Append(log, [line |-> typed[Len(log) + 1],
                        reply |-> [said |-> said, values |-> values]])

(* No command: the header is wrong, or it is XL alone.                       *)
NoCommand(cmd) ==
    /\ ~(cmd.headed /\ cmd.command)
    /\ Reply(IF cmd.headed /\ mCmdBuffer[2] = "\r" /\ mCmdBuffer[3] = "\n"
             THEN "OK" ELSE "error", <<>>)
    /\ RstCmdPtr("loop") /\ UNCHANGED <<vars, mCmdBuffer, argv>>

HasCommand(cmd) == cmd.headed /\ cmd.command /\ cmd.end < CmdBufferSize

Refuse(cmd) ==
    /\ HasCommand(cmd)
    /\ ~(cmd.name \in CmdInfoTable /\ cmd.mark \in {"?", "="})
    /\ Reply("error", <<>>) /\ EndName(cmd) /\ RstCmdPtr("loop")
    /\ UNCHANGED <<vars, argv>>

Getter(cmd, name) == HasCommand(cmd) /\ cmd.name = name /\ cmd.mark = "?"
Setter(cmd, name) == /\ HasCommand(cmd) /\ cmd.name = name /\ cmd.mark = "="
                     /\ cmd.ended /\ ArgsFit(cmd.args)

GetXBaud(cmd) ==
    /\ Getter(cmd, "XBAUD") /\ Reply("values", <<mXlSerialBaudRate>>)
    /\ EndName(cmd) /\ RstCmdPtr("loop") /\ UNCHANGED <<vars, argv>>

(* Any number is taken for a speed; a negative one stands for its value      *)
(* modulo 2^32.  Without an argument the speed is whatever the stack holds.  *)
SetXBaud(cmd) ==
    /\ Setter(cmd, "XBAUD") /\ EndName(cmd) /\ RstCmdPtr("loop")
    /\ \E br \in IF Len(cmd.args) = 0 THEN Bauds ELSE {ToIntList(cmd.args)[1]} :
            setXlBaudRate(br) /\ Reply("values", <<br>>)
    /\ UNCHANGED argv

(* The arguments of a setter of PING are not looked at.                      *)
SetPing(cmd) ==
    /\ HasCommand(cmd) /\ cmd.name = "PING" /\ cmd.mark = "="
    /\ Reply("values", <<>>)
    /\ EndName(cmd) /\ RstCmdPtr("loop") /\ UNCHANGED <<vars, argv>>

GetSelect(cmd) ==
    /\ Getter(cmd, "SEL")
    /\ Reply("values", SubSeq(mSelectIds, 1, mSelectSize))
    /\ EndName(cmd) /\ RstCmdPtr("loop") /\ UNCHANGED <<vars, argv>>

SetSelect(cmd) ==
    LET numbers == ToIntList(cmd.args)
        chosen == [n \in 1..Len(numbers) |-> numbers[n] % 256]
    IN  /\ Setter(cmd, "SEL") /\ selectServo(chosen) /\ Reply("values", chosen)
        /\ EndName(cmd) /\ RstCmdPtr("loop") /\ UNCHANGED argv

CallController(cmd, op, reg) ==
    /\ Call(op, reg) /\ calls' = calls + 1
    /\ EndName(cmd) /\ RstCmdPtr("wait") /\ UNCHANGED log

GetPing(cmd) ==
    /\ Getter(cmd, "PING") /\ CallController(cmd, "ping", CHOOSE r \in Regs : TRUE)
    /\ UNCHANGED argv

GetReg(cmd) == \E reg \in Regs :
    Getter(cmd, reg) /\ CallController(cmd, "pull", reg) /\ UNCHANGED argv

(* push takes a value for each selected servo, given or not.                 *)
Uninitialised == -1
SetReg(cmd) == \E reg \in Regs :
    LET numbers == ToIntList(cmd.args) IN
    /\ Setter(cmd, reg) /\ CallController(cmd, "push", reg)
    /\ argv' = [i \in 1..mSelectSize |-> IF i <= Len(numbers)
                                THEN numbers[i] % 65536 ELSE Uninitialised]

(* The parser runs past the buffer, or the arguments past an array.          *)
ParsePast(cmd) ==
    /\ cmd.headed /\ cmd.command
    /\ \/ cmd.end = CmdBufferSize
       \/ /\ cmd.name \in CmdInfoTable \ {"PING"} /\ cmd.mark = "="
          /\ ~cmd.ended \/ ~ArgsFit(cmd.args)
    /\ mode' = "lost"
    /\ UNCHANGED <<vars, stream, bufferVars, argv, typed, log>>

ParseLine ==
    /\ mode = "parse"
    /\ \E cmd \in {Parsed} :
        \/ NoCommand(cmd) \/ Refuse(cmd) \/ GetXBaud(cmd) \/ SetXBaud(cmd)
        \/ SetPing(cmd) \/ GetSelect(cmd) \/ SetSelect(cmd) \/ GetPing(cmd)
        \/ GetReg(cmd) \/ SetReg(cmd) \/ ParsePast(cmd)

(* Mutant: a call that no servo has answered is not replied to.              *)
ControllerReturned_Answered == mode = "wait" /\ pc = "idle" /\ number > 0

ControllerReturned == mode = "wait" /\ pc = "idle"

ReplyToCall ==
    /\ ControllerReturned
    /\ ~(call.op = "ping" /\ Len(ids) > SelectSizeMax)
    /\ Reply("values", CASE call.op = "ping" -> ids
                         [] call.op = "pull" -> returnVector
                         [] call.op = "push" -> argv)
    /\ mode' = "loop"
    /\ UNCHANGED <<vars, stream, bufferVars, argv, typed>>

(* More answers to a ping than servoIds has room for.                        *)
PingPast ==
    /\ ControllerReturned /\ call.op = "ping" /\ Len(ids) > SelectSizeMax
    /\ mode' = "lost"
    /\ UNCHANGED <<vars, stream, bufferVars, argv, typed, log>>

Loop == ReadChar \/ ParseLine \/ ReplyToCall \/ PingPast

Rest == /\ Len(typed) = MaxLines /\ stream = <<>> /\ mode \in {"loop", "lost"}
        /\ UNCHANGED allVars
Lost == mode = "lost" /\ UNCHANGED allVars

MachineNext == Setup \/ (\E text \in Lines : Type(text)) \/ Loop
               \/ (mode # "lost" /\ (Arrive \/ Step) /\ UNCHANGED machineVars)
               \/ Rest \/ Lost

MachineSpec == MachineInit /\ [][MachineNext]_allVars

(* The sketch calls loop for ever; a call of the controller is part of it.   *)
MachineFairSpec ==
    /\ MachineSpec
    /\ WF_allVars(Loop) /\ WF_allVars(Step /\ UNCHANGED machineVars)
-----------------------------------------------------------------------------
(* Properties.                                                               *)

MachineTypeOK ==
    /\ mCmdPtr \in 0..CmdBufferSize /\ mode \in {"loop", "parse", "wait", "lost"}
    /\ Len(log) <= Len(typed) /\ mSelectSize \in 0..SelectSizeMax

(* What a user means by a line.                                              *)
Meaning(text) ==
    IF text.form = "raw" THEN [kind |-> text.kind, args |-> <<>>]
    ELSE [kind |-> CASE text.name = "SEL" /\ text.form = "set" -> "select"
                     [] text.name = "SEL" /\ text.form = "get" -> "selected"
                     [] text.name \in Regs -> text.form
                     [] text.name = "PING" /\ text.form = "get" -> "ping"
                     [] OTHER -> "other",
          args |-> IF text.form = "set"
                   THEN [n \in 1..Len(text.args) |-> ToInt(text.args[n])]
                   ELSE <<>>]

(* A servo is shown with one of its values, as silent, or with the value of  *)
(* an answer that is no value (a late answer to a ping).                     *)
ShownFor(id) ==
    {NoAnswer, OddAnswer}
        \cup {LET v == Value[<<id, r>>] IN
              IF Len(v) = 1 THEN v[1] ELSE MakeWord(v[1], v[2]) : r \in Regs}

(* The terminal keeps its promise, whatever was typed before and however     *)
(* late the servos answer, for as long as no array is overrun.               *)
Promise == INSTANCE Session WITH
    Command <- Meaning, Shown <- ShownFor, Servos <- ToSet(Chain),
    FirstSelection <- <<1>>, selection <- SubSeq(mSelectIds, 1, mSelectSize)
KeepsPromise == Promise!Spec

(* No array is overrun by a line that fits in the buffer with its zero, that *)
(* separates no more arguments than servos can be selected, none too long,   *)
(* and by a ping that only so many answer, with nothing else on the line and *)
(* no header cut at the end of what is received.                             *)
OverrunsHaveACause ==
    mode = "lost" =>
        LET text == Tokens(typed[Len(log) + 1]) IN
        \/ Len(text) >= CmdBufferSize
        \/ Cardinality({i \in 1..Len(text) : text[i] = ","}) >= SelectSizeMax
        \/ ToSet(text) \cap Wide # {}
        \/ text[4] = "PING"
                /\ (Len(Chain) > SelectSizeMax \/ ~fresh \/ noisy \/ Overrun)

(* Every line is answered, also when no servo answers, unless answers that   *)
(* came late have piled up and fill the buffer of the controller.            *)
EveryLineAnswered ==
    stream # <<>> ~> \/ Len(log) = Len(typed) \/ mode = "lost"
                     \/ pc = "receive" /\ awaited > RxBufferSizeMax
=============================================================================
