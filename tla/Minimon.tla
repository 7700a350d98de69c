------------------------------- MODULE Minimon -------------------------------
(***************************************************************************)
(* The monitor of src/src/tool/minimon.c: it reads a line of keys, splits  *)
(* it into a command and its arguments, checks them and runs the command   *)
(* on the target's memory.  A key is a character; memory is bytes, and a   *)
(* word is WordBytes of them, the lowest first.  Prompts, echoes and the   *)
(* wording of messages are left out.                                       *)
(***************************************************************************)
EXTENDS Text

CONSTANTS
  LineSize,   \* sizeof(cmdline)
  MaxArgs,    \* MINIMON_CMD_MAX_ARGS
  WordBytes,  \* sizeof(uint32_t)
  NmeaChunk,  \* MINIMON_NMEA_CHUNK_SIZE
  MemBytes,   \* the bytes of the target's memory
  Received,   \* bytes that may come in on stream1
  MiniLines   \* lines users type: [keys, means], see Meaning

\* The memory ends with a whole word: the commands move words.
ASSUME MemBytesAssumption == MemBytes % WordBytes = 0

Addresses == 0 .. MemBytes - 1

VARIABLES
  cmds,    \* g_minimon.cmds
  keys,    \* what was typed and is not read yet
  memory,  \* the target's memory
  irqs,    \* whether interrupts are "on" or "masked"
  output,  \* the bytes the last command showed or sent, or its sentences
  meant    \* ghost: memory and output by the meaning of the lines, what the
           \* last of them did, and what the one not run yet is to do (todo)

miniVars == <<cmds, keys, memory, irqs, output, meant>>

Param(type, required, dflt) == [type |-> type, required |-> required, dflt |-> dflt]
Num == Param("uint32", TRUE, 0)
Str == Param("str", TRUE, <<>>)
One == Param("uint32", FALSE, 1)

\* The built-in commands in the order of their table.
Builtin == <<
  [hook |-> "help", name |-> <<"h", "e", "l", "p">>, params |-> <<[Str EXCEPT !.required = FALSE]>>],
  [hook |-> "read", name |-> <<"r", "e", "a", "d">>, params |-> <<Num, One>>],
  [hook |-> "load", name |-> <<"l", "o", "a", "d">>, params |-> <<Num, Num>>],
  [hook |-> "send", name |-> <<"s", "e", "n", "d">>, params |-> <<Num, Num, Str>>],
  [hook |-> "write", name |-> <<"w", "r", "i", "t", "e">>, params |-> <<Num, Num, One>>],
  [hook |-> "jump", name |-> <<"j", "u", "m", "p">>, params |-> <<Num>>] >>

\* A command of the application, whose hook does nothing to the monitor.  It
\* takes as many arguments as a command may have.
User == [hook |-> "user", name |-> <<"w", "i", "p", "e">>,
         params |-> [i \in 1 .. MaxArgs |-> [Str EXCEPT !.required = FALSE]]]

\* minimon_init: help is always there, user commands come behind the others.
CmdTable(include_builtin) ==
  (IF include_builtin THEN Builtin ELSE <<Builtin[1]>>) \o <<User>>

MiniInit ==
  /\ \E include_builtin \in BOOLEAN : cmds = CmdTable(include_builtin)
  /\ keys = <<>> /\ irqs = "on" /\ output = <<>>
  /\ memory = [a \in Addresses |-> 0]
  /\ meant = [memory |-> memory, output |-> <<>>, did |-> "none", todo |-> [cmd |-> "none"]]

-----------------------------------------------------------------------------
\* mini_readline: a line ends at a carriage return, or when the buffer is
\* full; the rest is then the next line.  A backspace on an empty line is kept.
RECURSIVE Readline(_, _)
Readline(buf, in) ==
  LET c == Head(in)
      more(b) == IF Len(b) < LineSize - 2 THEN Readline(b, Tail(in))
                 ELSE [line |-> b, rest |-> Tail(in)]
  IN  CASE c = "NUL" -> more(buf)
        [] c = "BS" /\ buf # <<>> -> more(Front(buf))
        [] c = "CR" -> [line |-> buf, rest |-> Tail(in)]
        [] OTHER -> more(Append(buf, c))

IsSeparator(c) == c \in {" ", ","}

\* mini_parse: the command name starts the line, even an empty one.
TokenStarts(line) ==
  {1} \cup {i \in 2 .. Len(line) : ~IsSeparator(line[i]) /\ IsSeparator(line[i - 1])}

TokenAt(line, i) ==
  LET ends == {j \in i .. Len(line) : IsSeparator(line[j])}
  IN  SubSeq(line, i, IF ends = {} THEN Len(line) ELSE Min(ends) - 1)

Parse(line) ==
  LET starts == SetToSortSeq(TokenStarts(line), LAMBDA a, b : a < b)
  IN  [k \in DOMAIN starts |-> TokenAt(line, starts[k])]

IsHex(token) == Len(token) >= 2 /\ SubSeq(token, 1, 2) \in {<<"0", "x">>, <<"0", "X">>}

\* mini_validate_int, -1 for a token that is refused.  Every number may have
\* hexadecimal digits; in one without 0x the first of them ends it.
ValidateInt(token) ==
  LET digits == IF IsHex(token) THEN SubSeq(token, 3, Len(token)) ELSE token
  IN  IF Len(token) \notin 1 .. 10 \/ \E i \in DOMAIN digits : Digit(digits[i]) = -1 THEN -1
      ELSE Atoi(token, IF IsHex(token) THEN 16 ELSE 10)

\* mini_validate_args: the number of arguments and every integer.
ArgsAreValid(argv, params) ==
  LET n == Len(argv) - 1
  IN  /\ n <= Len(params) /\ n >= Len(SelectSeq(params, LAMBDA p : p.required))
      /\ \A i \in 1 .. n : params[i].type = "uint32" => ValidateInt(argv[i + 1]) # -1

\* What the hook gets: arguments that were given, and defaults.
EffectiveArgs(argv, params) ==
  [i \in DOMAIN params |->
     IF i >= Len(argv) THEN params[i].dflt
     ELSE IF params[i].type = "uint32" THEN ValidateInt(argv[i + 1]) ELSE argv[i + 1]]

\* The command of a name: the first that starts with it, 0 for none.
Match(table, name) == SelectInSeq(table, LAMBDA cmd : IsPrefix(name, cmd.name))

-----------------------------------------------------------------------------
\* union word_buf
WordOf(value) == [b \in 0 .. WordBytes - 1 |-> (value \div 256 ^ b) % 256]
ZeroWord == WordOf(0)
WordAt(mem, a) == [b \in 0 .. WordBytes - 1 |-> mem[a + b]]
PutWord(mem, a, w) ==
  [x \in DOMAIN mem |-> IF x - a \in 0 .. WordBytes - 1 THEN w[x - a] ELSE mem[x]]
BytesOf(w) == [i \in 1 .. WordBytes |-> w[i - 1]]
Counting(n) == [i \in 1 .. n |-> i - 1]

\* The bytes of n words.
Words(mem, a, n) == FlattenSeq([i \in 1 .. n |-> BytesOf(WordAt(mem, a + WordBytes * (i - 1)))])

\* mini_cmd_read shows words.
CmdRead(mem, a, size) == Words(mem, a, size)

\* mini_cmd_write
CmdWrite(mem, a, value, size) ==
  FoldLeft(LAMBDA m, i : PutWord(m, a + WordBytes * i, WordOf(value)), mem, Counting(size))

LoadByte(s, byte) ==
  LET hold == [s.hold EXCEPT ![s.n % WordBytes] = byte]
  IN  IF (s.n + 1) % WordBytes = 0
      THEN [mem |-> PutWord(s.mem, s.a + WordBytes * (s.n \div WordBytes), hold),
            hold |-> ZeroWord, n |-> s.n + 1, a |-> s.a]
      ELSE [s EXCEPT !.hold = hold, !.n = @ + 1]

\* Mutant of CmdLoad: the last word is written only when it is full.
CmdLoadWhole(mem, a, data) ==
  FoldLeft(LoadByte, [mem |-> mem, hold |-> ZeroWord, n |-> 0, a |-> a], data).mem

\* mini_cmd_load: words are written as they fill, and what is left at the end.
CmdLoad(mem, a, data) ==
  LET s == FoldLeft(LoadByte, [mem |-> mem, hold |-> ZeroWord, n |-> 0, a |-> a], data)
  IN  IF s.n % WordBytes = 0 THEN s.mem
      ELSE PutWord(s.mem, a + WordBytes * (s.n \div WordBytes), s.hold)

\* mini_cmd_send_raw and mini_cmd_send_text do the same: whole words.
WordsFor(size) == (size + WordBytes - 1) \div WordBytes
CmdSend(mem, a, size) == Words(mem, a, WordsFor(size))

\* mini_cmd_send_nmea: sentences of NmeaChunk bytes each.  The pointer moves
\* by a word for every byte counted, so that the words are not the ones asked
\* for, and only a sentence that is full gets its end.
CmdSendNmea(mem, a, size) ==
  LET perChunk == NmeaChunk \div WordBytes
      inChunk(k) == {i \in 0 .. WordsFor(size) - 1 : i \div perChunk = k}
  IN  [k \in 1 .. Max({1, (size + NmeaChunk - 1) \div NmeaChunk}) |->
         [id |-> k - 1, closed |-> Cardinality(inChunk(k - 1)) = perChunk,
          words |-> [j \in 1 .. Cardinality(inChunk(k - 1)) |->
                       WordAt(mem, a + WordBytes * WordBytes * ((k - 1) * perChunk + j - 1))]]]

-----------------------------------------------------------------------------
\* The line minimon_start reads next, in tokens, and whether its argv has room
\* for them and the end that mini_parse puts behind the last.
Argv == Parse(Readline(<<>>, keys).line)
ArgvSize == MaxArgs + 1
ArgvHolds == Len(Argv) + 1 <= ArgvSize

\* One iteration of the loop of minimon_start up to the call of the hook: the
\* line, the command found, its arguments.  A line that is empty, starts with
\* a separator, or fits no command calls none.
NoHook(rest) == [hook |-> "none", args |-> <<>>, rest |-> rest]
Dispatched ==
  LET read == Readline(<<>>, keys)
      n    == Match(cmds, Argv[1])
  IN  IF read.line = <<>> \/ Argv[1] = <<>> \/ n = 0 THEN NoHook(read.rest)
      ELSE IF ~ArgsAreValid(Argv, cmds[n].params) THEN NoHook(read.rest)
      ELSE [hook |-> cmds[n].hook, args |-> EffectiveArgs(Argv, cmds[n].params),
            rest |-> read.rest]

\* A byte nobody said anything about.
Unsaid == -1

\* What a line means to whoever types it, from its `means`: the bytes it sets,
\* and what it shows or sends.  The size of a load or a send is in bytes; what
\* becomes of the rest of the last word is not said.
Meaning(t, data) ==
  LET m      == meant.memory
      asked  == t.addr .. t.addr + t.size - 1
      behind == (t.addr .. t.addr + WordBytes * WordsFor(t.size) - 1) \ asked
      said(n) == [i \in 1 .. n |-> m[t.addr + i - 1]]
      none   == [memory |-> m, output |-> <<>>, did |-> t.cmd, todo |-> [cmd |-> "none"]]
  IN  CASE t.cmd = "write" -> [none EXCEPT !.memory =
             [x \in Addresses |-> IF x - t.addr \in 0 .. WordBytes * t.size - 1
                                  THEN WordOf(t.value)[(x - t.addr) % WordBytes] ELSE @[x]]]
        [] t.cmd = "load" -> [none EXCEPT !.memory =
             [x \in Addresses |-> IF x \in asked THEN data[x - t.addr + 1]
                                  ELSE IF x \in behind THEN Unsaid ELSE @[x]]]
        [] t.cmd = "read" -> [none EXCEPT !.output = said(WordBytes * t.size)]
        [] t.cmd \in {"send", "nmea"} -> [none EXCEPT !.output = said(t.size)]
        [] OTHER -> none

\* The end of every iteration; without the built-in commands only help works.
Prompt(call, data) ==
  /\ keys' = call.rest
  /\ meant' = Meaning(IF Len(cmds) > 2 THEN meant.todo ELSE [cmd |-> "none"], data)
  /\ UNCHANGED cmds

MiniType(line) ==
  /\ keys = <<>>
  /\ keys' = Append(line.keys, "CR")
  /\ meant' = [meant EXCEPT !.todo = line.means]
  /\ UNCHANGED <<cmds, memory, irqs, output>>

\* A line that calls no hook, help, or a command of the application.
MiniOther(call) ==
  /\ call.hook \in {"none", "help", "user"}
  /\ output' = <<>> /\ Prompt(call, <<>>) /\ UNCHANGED <<memory, irqs>>

MiniRead(call) ==
  /\ call.hook = "read"
  /\ output' = CmdRead(memory, call.args[1], call.args[2])
  /\ Prompt(call, <<>>) /\ UNCHANGED <<memory, irqs>>

MiniWrite(call) ==
  /\ call.hook = "write"
  /\ LET args == call.args IN memory' = CmdWrite(memory, args[1], args[2], args[3])
  /\ output' = <<>> /\ Prompt(call, <<>>) /\ UNCHANGED irqs

MiniLoad(call) ==
  /\ call.hook = "load"
  /\ \E data \in [1 .. call.args[2] -> Received] :
       memory' = CmdLoad(memory, call.args[1], data) /\ Prompt(call, data)
  /\ output' = <<>> /\ UNCHANGED irqs

MiniSend(call) ==
  /\ call.hook = "send"
  /\ LET args == call.args
     IN  output' = CASE IsPrefix(<<"r", "a", "w">>, args[3]) -> CmdSend(memory, args[1], args[2])
                     [] IsPrefix(<<"t", "e", "x", "t">>, args[3]) -> CmdSend(memory, args[1], args[2])
                     [] IsPrefix(<<"n", "m", "e", "a">>, args[3]) -> CmdSendNmea(memory, args[1], args[2])
                     [] OTHER -> <<>>
  /\ Prompt(call, <<>>) /\ UNCHANGED <<memory, irqs>>

\* mini_cmd_jump, of code that comes back, with both interrupt callbacks.
MiniJump(call) ==
  /\ call.hook = "jump"
  /\ irqs' = "masked" /\ output' = <<>> /\ Prompt(call, <<>>) /\ UNCHANGED memory

\* With more tokens than argv holds anything may happen, and nothing is followed.
MiniNext ==
  \/ \E line \in MiniLines : MiniType(line)
  \/ /\ keys # <<>> /\ ArgvHolds
     /\ \E call \in {Dispatched} :
          \/ MiniOther(call) \/ MiniRead(call) \/ MiniWrite(call)
          \/ MiniLoad(call) \/ MiniSend(call) \/ MiniJump(call)

-----------------------------------------------------------------------------
\* Bytes begin with those said, and have less than a word behind them.
Shows(bytes, said) ==
  /\ Len(bytes) - Len(said) \in 0 .. WordBytes - 1
  /\ \A i \in DOMAIN said : said[i] \in {Unsaid, bytes[i]}

\* The memory holds what the lines typed so far meant, to the byte, and each
\* command showed or sent the memory it was asked for: whatever was mistyped
\* and erased, refused, cut off because the line was full, or unaligned
\* (mini_readline, mini_parse, mini_dispatch, mini_validate_args, the hooks of
\* minimon.c).  Only the bytes behind the last one of a load or a send that is
\* no whole number of words may be any, and what protocol nmea sends.
MemoryAsCommanded ==
  /\ \A a \in Addresses : meant.memory[a] \in {Unsaid, memory[a]}
  /\ meant.did # "nmea" => Shows(output, meant.output)

\* What the help of minimon.c says of the SIZE of a send: the number of bytes to
\* send.
SizeIsInBytes == meant.did = "send" => Len(output) = Len(meant.output)

\* What the help says of a load: it loads that many bytes into memory, and so
\* leaves the others alone.
LoadsItsBytes ==
  [][meant.todo.cmd = "load" =>
       \A a \in Addresses \ (meant.todo.addr .. meant.todo.addr + meant.todo.size - 1) :
         memory'[a] = memory[a]]_miniVars

\* What the help says of protocol nmea: the packets contain the words of the data.
NmeaSendsTheData ==
  meant.did = "nmea" =>
    Shows(FlattenSeq([k \in DOMAIN output |->
                        FlattenSeq([j \in DOMAIN output[k].words |-> BytesOf(output[k].words[j])])]),
          meant.output)

\* What minimon.h says of MINIMON_CMD_MAX_ARGS: the maximum number of arguments
\* to a command.  A line with no more of them fits into argv.
ArgvHoldsMaxArgs == keys # <<>> /\ Len(Argv) - 1 <= MaxArgs => ArgvHolds
=============================================================================
