------------------------------- MODULE LogFile -------------------------------
(****************************************************************************)
(* module_user/src/logfile.c, of which the kernel module has its own copy:  *)
(* writing a line to the log file.  Threads of a module log at any time and *)
(* share is_initialized; both modules write to one file, without a lock.  A *)
(* failure is logged as well, by the same function: LOG_ERROR in            *)
(* logfile_write_line calls logfile_write_line.                             *)
(*                                                                          *)
(* A message is known by what vsnprintf returns for it: the length of its   *)
(* text, whose last character is a newline, or a negative error.  The file  *)
(* is what was written to it, write by write.  Messages may overwrite each  *)
(* other (include/log.h): what is written lands at the end of the file, or  *)
(* where the end was when the thread opened it.                             *)
(****************************************************************************)
EXTENDS Integers, Sequences, SequencesExt

CONSTANTS
  Modules,       \* each with its copy of logfile.c
  Threads,
  ModuleOf,      \* the module each thread runs in
  LineBuffer,    \* LOGFILE_LINE_BUFFER
  MarkerLen,     \* length of " Truncated\n"
  Messages,      \* what vsnprintf returns for messages of the module
  ErrorMessage,  \* and for those of logfile.c
  MaxCalls       \* bound: messages logged

ASSUME LogAssumption ==
  /\ LineBuffer \in Nat /\ MarkerLen \in Nat \ {0} /\ MarkerLen < LineBuffer
  /\ Messages \subseteq Int /\ ErrorMessage \in Int /\ MaxCalls \in Nat

ASSUME ModuleAssumption == ModuleOf \in [Threads -> Modules]

\* Messages are not empty: they end in a newline.
ASSUME MessagesAssumption == 0 \notin Messages \cup {ErrorMessage}

VARIABLES
  is_initialized,  \* of each module
  started,         \* the modules that have called logfile_init
  stack,  \* of each thread: its calls of logfile_write_line, innermost last
  fd,     \* of each thread: how much had been written when it opened the file
  file,   \* what was written to the file
  calls   \* messages logged so far

vars == <<is_initialized, started, stack, fd, file, calls>>

Pcs == {"check", "name", "format", "open", "write", "close", "return"}
Frame == [pc : Pcs, ret : Messages \cup {ErrorMessage}]

\* The first len characters of a line, alone if no other thread had the file open
\* to write from before it was opened for this line; it can be damaged later.
Piece == [ret : Messages \cup {ErrorMessage}, len : Nat,
          alone : BOOLEAN, intact : BOOLEAN]

Init ==
  /\ is_initialized = [m \in Modules |-> FALSE] /\ started = {}
  /\ stack = [t \in Threads |-> <<>>]
  /\ fd = [t \in Threads |-> 0] /\ file = <<>>
  /\ calls = 0

Frames(t) == Len(stack[t])
At(t, pc) == stack[t] # <<>> /\ Last(stack[t]).pc = pc
GotoPc(t, pc) == [stack[t] EXCEPT ![Frames(t)].pc = pc]

\* Mutant: no return after the error.
LogError_GoesOn(t) ==
  stack' = [stack EXCEPT ![t] = Append(GotoPc(t, "open"),
                                       [pc |-> "check", ret |-> ErrorMessage])]

\* LOG_ERROR, after which the function returns.
LogError(t) ==
  stack' = [stack EXCEPT ![t] = Append(GotoPc(t, "return"),
                                       [pc |-> "check", ret |-> ErrorMessage])]

Goto(t, pc) == stack' = [stack EXCEPT ![t] = GotoPc(t, pc)]

SwitchOff(t) == is_initialized' = [is_initialized EXCEPT ![ModuleOf[t]] = FALSE]

\* The first thing module_start calls, on a thread of its own.  An error that
\* keeps the directories from being made is logged, to no file.
logfile_init(m) ==
  /\ m \notin started /\ started' = started \cup {m}
  /\ \E made \in BOOLEAN : is_initialized' = [is_initialized EXCEPT ![m] = made]
  /\ UNCHANGED <<stack, fd, file, calls>>

\* A LOG_ macro in the module.
Log(t) ==
  /\ ModuleOf[t] \in started /\ calls < MaxCalls /\ calls' = calls + 1
  /\ stack[t] = <<>>
  /\ \E n \in Messages : stack' = [stack EXCEPT ![t] = <<[pc |-> "check", ret |-> n]>>]
  /\ UNCHANGED <<is_initialized, started, fd, file>>

Check(t) ==
  /\ At(t, "check")
  /\ Goto(t, IF is_initialized[ModuleOf[t]] THEN "name" ELSE "return")
  /\ UNCHANGED <<is_initialized, started, fd, file, calls>>

NameFits(t) ==
  /\ At(t, "name") /\ Goto(t, "format")
  /\ UNCHANGED <<is_initialized, started, fd, file, calls>>

\* snprintf fails, or truncates the name.
NameFails(t) ==
  /\ At(t, "name")
  /\ SwitchOff(t)
  /\ LogError(t)
  /\ UNCHANGED <<started, fd, file, calls>>

\* A line that cannot be formatted does not switch the log off.
Format(t) ==
  /\ At(t, "format")
  /\ IF Last(stack[t]).ret < 0 THEN LogError(t) ELSE Goto(t, "open")
  /\ UNCHANGED <<is_initialized, started, fd, file, calls>>

\* What vsnprintf leaves in the buffer for a text of n characters.
Char(n, i) == IF i = n THEN "newline" ELSE "text"
Marker == [i \in 1..MarkerLen |-> IF i = MarkerLen THEN "newline" ELSE "marker"]
Formatted(n) ==
  [i \in 1..LineBuffer |-> IF i <= n /\ i < LineBuffer THEN Char(n, i) ELSE "NUL"]

\* The part of it that is written: a text that leaves no room for the NUL is truncated.
Written(n) ==
  IF n < LineBuffer
  THEN SubSeq(Formatted(n), 1, n)
  ELSE SubSeq(Formatted(n), 1, LineBuffer - 1 - MarkerLen) \o Marker

\* Mutant: the error is logged before the log is switched off.
OpenFails_LogsFirst(t) ==
  /\ At(t, "open")
  /\ LogError(t)
  /\ UNCHANGED <<is_initialized, started, fd, file, calls>>

\* Mutant: start over until the file can be opened.
OpenFails_Retries(t) ==
  /\ At(t, "open") /\ Goto(t, "check")
  /\ UNCHANGED <<is_initialized, started, fd, file, calls>>

OpenFails(t) ==
  /\ At(t, "open")
  /\ SwitchOff(t)
  /\ LogError(t)
  /\ UNCHANGED <<started, fd, file, calls>>

\* Mutant: the file is not opened for appending.
Open_AtStart(t) ==
  /\ At(t, "open") /\ Goto(t, "write")
  /\ fd' = [fd EXCEPT ![t] = 0]
  /\ UNCHANGED <<is_initialized, started, file, calls>>

\* sceIoOpen, for appending.
Open(t) ==
  /\ At(t, "open") /\ Goto(t, "write")
  /\ fd' = [fd EXCEPT ![t] = Len(file)]
  /\ UNCHANGED <<is_initialized, started, file, calls>>

\* Since thread t opened the file nobody wrote, and nobody else is about to.
Alone(t) == fd[t] = Len(file) /\ \A u \in Threads \ {t} : ~At(u, "write")

Damaged(hit) ==
  [i \in 1..Len(file) |-> [file[i] EXCEPT !.intact = @ /\ i \notin hit]]

\* A line of thread t behind the others; it may share its place with what was
\* written since the thread opened the file.
Overwrite(t, len) ==
  \E hit \in SUBSET ((fd[t] + 1)..Len(file)), intact \in {TRUE, Alone(t)} :
    file' = Append(Damaged(hit), [ret |-> Last(stack[t]).ret, len |-> len,
                                  alone |-> Alone(t), intact |-> intact])

\* sceIoWrite, of which nothing is expected: it may write less, or nothing.
Write(t) ==
  /\ At(t, "write") /\ Goto(t, "close")
  /\ \/ UNCHANGED file
     \/ \E len \in 1..Len(Written(Last(stack[t]).ret)) : Overwrite(t, len)
  /\ UNCHANGED <<is_initialized, started, fd, calls>>

\* sceIoClose, whose failure is not noticed.
Close(t) ==
  /\ At(t, "close") /\ Goto(t, "return")
  /\ fd' = [fd EXCEPT ![t] = 0]
  /\ UNCHANGED <<is_initialized, started, file, calls>>

Return(t) ==
  /\ At(t, "return")
  /\ stack' = [stack EXCEPT ![t] = Front(@)]
  /\ UNCHANGED <<is_initialized, started, fd, file, calls>>

Step(t) ==
  \/ Check(t) \/ NameFits(t) \/ NameFails(t) \/ Format(t)
  \/ Open(t) \/ OpenFails(t) \/ Write(t) \/ Close(t) \/ Return(t)

Next ==
  \/ \E m \in Modules : logfile_init(m)
  \/ \E t \in Threads : Log(t) \/ Step(t)

Spec == Init /\ [][Next]_vars

\* Threads run.
FairSpec == Spec /\ \A t \in Threads : WF_vars(Step(t))

------------------------------------------------------------------------------
(* Properties.                                                              *)

\* Variables hold what the code can put there, and only the innermost call of a
\* thread runs; the others have only to return.
TypeOK ==
  /\ is_initialized \in [Modules -> BOOLEAN] /\ started \subseteq Modules
  /\ stack \in [Threads -> Seq(Frame)]
  /\ \A t \in Threads : \A i \in 1..(Frames(t) - 1) : stack[t][i].pc = "return"
  /\ file \in Seq(Piece) /\ fd \in [Threads -> 0..Len(file)]
  /\ calls \in 0..MaxCalls

\* Logging an error about logging ends: a failed message leads to at most two
\* more calls on the stack of the thread, whatever other threads run into, as long
\* as the messages of logfile.c can be formatted.
NestingBounded == \A t \in Threads : Frames(t) <= 3

\* A line written in full, with no other thread of either module in between
\* opening the file and writing, is never overwritten; it ends in its newline,
\* holds no NUL, and is complete unless it says that it is truncated.  Lines may
\* only be damaged by writes that overlap, and cut short by sceIoWrite.
LinesAreWhole ==
  \A i \in 1..Len(file) :
    LET line == Written(file[i].ret) IN
    file[i].alone /\ file[i].len = Len(line) =>
      /\ file[i].intact
      /\ Last(line) = "newline" /\ "NUL" \notin ToSet(line)
      /\ Len(line) < LineBuffer
      /\ Len(line) = file[i].ret \/ IsSuffix(Marker, line)

\* Whatever fails, every call returns.
LogReturns == \A t \in Threads : stack[t] # <<>> ~> stack[t] = <<>>

==============================================================================
