---------------------------- MODULE LogFileProofs ----------------------------
(****************************************************************************)
(* Proofs about LogFile: its types, that logging about logging ends, and    *)
(* what a line in the file looks like.                                      *)
(****************************************************************************)
EXTENDS LogFile, TLAPS

Rets == Messages \cup {ErrorMessage}

------------------------------------------------------------------------------
(* What the three ways to change a stack do to it.                          *)

\* The stack of one thread from s to r, by a jump of its innermost call, ...
Jumps(s, r, pc) ==
  /\ r \in Seq(Frame) /\ Len(r) = Len(s)
  /\ \A i \in 1..(Len(s) - 1) : r[i] = s[i]
  /\ r[Len(s)].pc = pc /\ r[Len(s)].ret = s[Len(s)].ret

\* ... by a nested call, which leaves the caller only to return, ...
Nests(s, r) ==
  /\ r \in Seq(Frame) /\ Len(r) = Len(s) + 1
  /\ \A i \in 1..(Len(s) - 1) : r[i] = s[i]
  /\ r[Len(s)].pc = "return" /\ r[Len(s)].ret = s[Len(s)].ret
  /\ r[Len(s) + 1].pc = "check" /\ r[Len(s) + 1].ret = ErrorMessage

\* ... and by a return.
Returns(s, r) ==
  /\ r \in Seq(Frame) /\ Len(r) = Len(s) - 1
  /\ \A i \in 1..(Len(s) - 1) : r[i] = s[i]

Others(t) == \A u \in Threads : u # t => stack'[u] = stack[u]

\* The innermost call is in the sequence.
LEMMA Innermost ==
  ASSUME TypeOK, NEW t \in Threads, NEW pc, At(t, pc)
  PROVE  /\ stack[t] \in Seq(Frame) /\ Len(stack[t]) \in Nat /\ Len(stack[t]) >= 1
         /\ stack[t][Len(stack[t])] \in Frame
         /\ Last(stack[t]) = stack[t][Len(stack[t])]
         /\ stack[t][Len(stack[t])].pc = pc
<1>1. stack[t] \in Seq(Frame) /\ stack[t] # <<>>
  BY DEF TypeOK, At
<1>2. Len(stack[t]) \in Nat /\ Len(stack[t]) >= 1
  BY <1>1
<1>3. stack[t][Len(stack[t])] \in Frame
  BY <1>1, <1>2
<1> QED
  BY <1>1, <1>2, <1>3 DEF At, Last

\* Goto is a jump.
LEMMA GotoJumps ==
  ASSUME TypeOK, NEW t \in Threads, NEW from, At(t, from), NEW pc \in Pcs, Goto(t, pc)
  PROVE  Jumps(stack[t], stack'[t], pc) /\ Others(t) /\ stack' \in [Threads -> Seq(Frame)]
<1> DEFINE n == Len(stack[t])
<1>1. /\ stack[t] \in Seq(Frame) /\ n \in Nat /\ n >= 1 /\ stack[t][n] \in Frame
  BY Innermost
<1>2. stack' = [stack EXCEPT ![t] = GotoPc(t, pc)] /\ stack \in [Threads -> Seq(Frame)]
  BY DEF Goto, TypeOK
<1>3. stack'[t] = [stack[t] EXCEPT ![n].pc = pc] /\ Others(t)
  BY <1>2 DEF GotoPc, Frames, Others
<1>4. [stack[t][n] EXCEPT !.pc = pc] \in Frame
  BY <1>1 DEF Frame
<1>5. [stack[t] EXCEPT ![n].pc = pc] = [stack[t] EXCEPT ![n] = [stack[t][n] EXCEPT !.pc = pc]]
  BY <1>1
<1>6. stack'[t] \in Seq(Frame) /\ Len(stack'[t]) = n
  BY <1>1, <1>3, <1>4, <1>5
<1>7. \A i \in 1..(n - 1) : stack'[t][i] = stack[t][i]
  BY <1>1, <1>3
<1>8. stack'[t][n].pc = pc /\ stack'[t][n].ret = stack[t][n].ret
  BY <1>1, <1>3, <1>4 DEF Frame
<1>9. Jumps(stack[t], stack'[t], pc)
  BY <1>6, <1>7, <1>8 DEF Jumps
<1> HIDE DEF n
<1>10. stack' \in [Threads -> Seq(Frame)]
  BY <1>2, <1>6
<1> QED
  BY <1>3, <1>9, <1>10

\* LOG_ERROR is a nested call.
LEMMA LogErrorNests ==
  ASSUME TypeOK, NEW t \in Threads, NEW from, At(t, from), LogError(t)
  PROVE  Nests(stack[t], stack'[t]) /\ Others(t) /\ stack' \in [Threads -> Seq(Frame)]
<1> DEFINE n == Len(stack[t])
           s == [stack[t] EXCEPT ![n] = [stack[t][n] EXCEPT !.pc = "return"]]
           new == [pc |-> "check", ret |-> ErrorMessage]
<1>1. /\ stack[t] \in Seq(Frame) /\ n \in Nat /\ n >= 1 /\ stack[t][n] \in Frame
  BY Innermost
<1>2. stack \in [Threads -> Seq(Frame)]
  BY DEF TypeOK
<1>3. GotoPc(t, "return") = s
  BY <1>1 DEF GotoPc, Frames
<1>4. stack'[t] = Append(s, new) /\ Others(t)
  BY <1>2, <1>3 DEF LogError, Others
<1>5. [stack[t][n] EXCEPT !.pc = "return"] \in Frame /\ new \in Frame
  BY <1>1 DEF Frame, Pcs
<1>6. s \in Seq(Frame) /\ Len(s) = n /\ s[n] = [stack[t][n] EXCEPT !.pc = "return"]
      /\ \A i \in 1..(n - 1) : s[i] = stack[t][i]
  BY <1>1, <1>5
<1>7. s[n].pc = "return" /\ s[n].ret = stack[t][n].ret
  BY <1>1, <1>6 DEF Frame
<1> HIDE DEF s, new
<1>8. /\ Append(s, new) \in Seq(Frame) /\ Len(Append(s, new)) = n + 1
      /\ Append(s, new)[n + 1] = new
      /\ \A i \in 1..n : Append(s, new)[i] = s[i]
  BY <1>1, <1>5, <1>6
<1>9. new.pc = "check" /\ new.ret = ErrorMessage
  BY DEF new
<1> HIDE DEF n
<1>10. Nests(stack[t], stack'[t])
  <2>1. \A i \in 1..(n - 1) : stack'[t][i] = stack[t][i]
    BY <1>1, <1>4, <1>6, <1>8
  <2>2. stack'[t][n] = s[n] /\ stack'[t][n + 1] = new
    BY <1>1, <1>4, <1>8
  <2> QED
    BY <1>4, <1>7, <1>8, <1>9, <2>1, <2>2 DEF Nests, n
<1>11. stack' \in [Threads -> Seq(Frame)]
  BY <1>2, <1>4, <1>8 DEF LogError
<1> QED
  BY <1>4, <1>10, <1>11

\* A return takes the innermost call away.
LEMMA ReturnReturns ==
  ASSUME TypeOK, NEW t \in Threads, Return(t)
  PROVE  Returns(stack[t], stack'[t]) /\ Others(t) /\ stack' \in [Threads -> Seq(Frame)]
<1> DEFINE n == Len(stack[t])
<1>1. stack[t] \in Seq(Frame) /\ n \in Nat /\ n >= 1
  BY Innermost DEF Return
<1>2. stack'[t] = SubSeq(stack[t], 1, n - 1) /\ Others(t)
      /\ stack' = [stack EXCEPT ![t] = SubSeq(stack[t], 1, n - 1)]
  BY DEF Return, Front, TypeOK, Others
<1>3. /\ SubSeq(stack[t], 1, n - 1) \in Seq(Frame)
      /\ Len(SubSeq(stack[t], 1, n - 1)) = n - 1
      /\ \A i \in 1..(n - 1) : SubSeq(stack[t], 1, n - 1)[i] = stack[t][i]
  BY <1>1
<1> QED
  BY <1>2, <1>3 DEF Returns, TypeOK

------------------------------------------------------------------------------
(* The buffer and the file.                                                 *)

\* The buffer is a sequence of LineBuffer characters.
LEMMA FormattedBuffer ==
  ASSUME NEW n \in Int
  PROVE  /\ Formatted(n) \in Seq({"text", "newline", "NUL"})
         /\ Len(Formatted(n)) = LineBuffer
         /\ \A i \in 1..LineBuffer :
              Formatted(n)[i] = IF i <= n /\ i < LineBuffer THEN Char(n, i) ELSE "NUL"
BY LogAssumption DEF Formatted, Char

\* What is written is a sequence, for texts of every length.
LEMMA LineLength ==
  ASSUME NEW n \in Int
  PROVE  Len(Written(n)) \in Nat
<1>1. CASE n < LineBuffer
  <2>1. SubSeq(Formatted(n), 1, n) \in Seq({"text", "newline", "NUL"})
    BY <1>1, FormattedBuffer, LogAssumption
  <2> QED
    BY <1>1, <2>1 DEF Written
<1>2. CASE ~(n < LineBuffer)
  <2>1. SubSeq(Formatted(n), 1, LineBuffer - 1 - MarkerLen)
          \in Seq({"text", "newline", "NUL", "marker"})
    BY FormattedBuffer, LogAssumption
  <2>2. Marker \in Seq({"text", "newline", "NUL", "marker"})
    BY LogAssumption DEF Marker
  <2> QED
    BY <1>2, <2>1, <2>2 DEF Written
<1> QED
  BY <1>1, <1>2

\* Writing puts a line behind what is there.
LEMMA Overwriting ==
  ASSUME TypeOK, NEW t \in Threads, At(t, "write"), NEW len \in Nat,
         Overwrite(t, len)
  PROVE  /\ file' \in Seq(Piece) /\ Len(file) \in Nat /\ Len(file') = Len(file) + 1
         /\ \A i \in 1..Len(file) :
              /\ file'[i].alone = file[i].alone /\ file'[i].ret = file[i].ret
              /\ i <= fd[t] => file'[i] = file[i]
         /\ LET new == file'[Len(file) + 1] IN
            /\ new.ret = Last(stack[t]).ret
            /\ new.alone => /\ new.intact
                            /\ \A u \in Threads \ {t} : ~At(u, "write")
<1> DEFINE n == Len(file)
           new(intact) == [ret |-> Last(stack[t]).ret, len |-> len, alone |-> Alone(t),
                           intact |-> intact]
<1>1. PICK hit \in SUBSET ((fd[t] + 1)..n), intact \in {TRUE, Alone(t)} :
        file' = Append(Damaged(hit), new(intact))
  BY DEF Overwrite
<1>2. n \in Nat /\ fd[t] \in 0..n /\ \A i \in 1..n : file[i] \in Piece
  BY DEF TypeOK
<1>3. new(intact) \in Piece
  <2>1. Last(stack[t]).ret \in Messages \cup {ErrorMessage}
    BY Innermost DEF Frame
  <2>2. Alone(t) \in BOOLEAN
    BY DEF Alone
  <2> QED
    BY <1>1, <2>1, <2>2 DEF Piece
<1>4. \A i \in 1..n : [file[i] EXCEPT !.intact = @ /\ i \notin hit] \in Piece
  BY <1>2 DEF Piece
<1>5. Damaged(hit) \in Seq(Piece) /\ Len(Damaged(hit)) = n
  BY <1>2, <1>4 DEF Damaged
<1>6. \A i \in 1..n : Damaged(hit)[i] = [file[i] EXCEPT !.intact = @ /\ i \notin hit]
  BY DEF Damaged
<1>7. ASSUME NEW i \in 1..n
      PROVE  /\ Damaged(hit)[i].alone = file[i].alone
             /\ Damaged(hit)[i].ret = file[i].ret
             /\ i \notin hit => Damaged(hit)[i] = file[i]
  <2> DEFINE p == file[i]
  <2>1. p \in Piece
    BY <1>2
  <2>2. Damaged(hit)[i] = [p EXCEPT !.intact = p.intact /\ i \notin hit]
    BY <1>6
  <2> HIDE DEF p
  <2>3. Damaged(hit)[i].alone = p.alone /\ Damaged(hit)[i].ret = p.ret
    BY <2>1, <2>2 DEF Piece
  <2>4. CASE i \notin hit
    <3>1. (p.intact /\ i \notin hit) = p.intact
      BY <2>1, <2>4 DEF Piece
    <3>2. [p EXCEPT !.intact = p.intact] = p
      BY <2>1 DEF Piece
    <3> QED
      BY <2>2, <2>3, <3>1, <3>2 DEF p
  <2> QED
    BY <2>3, <2>4 DEF p
<1>8. \A i \in 1..n : i <= fd[t] => i \notin hit
  BY <1>2
<1>9. /\ new(intact).ret = Last(stack[t]).ret
      /\ new(intact).alone => new(intact).intact /\ \A u \in Threads \ {t} : ~At(u, "write")
  BY <1>1 DEF Alone
<1> DEFINE o == Damaged(hit)
           w == new(intact)
<1>10. /\ file' = Append(o, w) /\ o \in Seq(Piece) /\ w \in Piece /\ Len(o) = n
  BY <1>1, <1>3, <1>5
<1> HIDE DEF o, w
<1>11. /\ file' \in Seq(Piece) /\ Len(file') = n + 1 /\ file'[n + 1] = w
       /\ \A i \in 1..n : file'[i] = o[i]
  BY <1>2, <1>10
<1> QED
  BY <1>2, <1>7, <1>8, <1>9, <1>11 DEF o, w

------------------------------------------------------------------------------
(* Types.                                                                   *)

\* The initial state has the types.
LEMMA InitType == Init => TypeOK
<1> SUFFICES ASSUME Init PROVE TypeOK
  OBVIOUS
<1>1. stack \in [Threads -> Seq(Frame)]
  BY DEF Init
<1>2. \A t \in Threads : Frames(t) = 0
  BY DEF Init, Frames
<1>3. \A t \in Threads : \A i \in 1..(Frames(t) - 1) : stack[t][i].pc = "return"
  BY <1>2
<1>4. calls \in 0..MaxCalls
  BY LogAssumption DEF Init
<1>5. is_initialized \in [Modules -> BOOLEAN] /\ started \subseteq Modules
  BY DEF Init
<1>6. file \in Seq(Piece) /\ Len(file) = 0
  BY DEF Init
<1>7. fd \in [Threads -> 0..Len(file)]
  BY <1>6 DEF Init
<1> QED
  BY <1>1, <1>3, <1>4, <1>5, <1>6, <1>7 DEF TypeOK

\* What a step does to a stack: three ways, or a first call.
LEMMA StepKinds ==
  ASSUME TypeOK, NEW t \in Threads, Step(t)
  PROVE  /\ \/ \E pc \in Pcs : Jumps(stack[t], stack'[t], pc)
            \/ Nests(stack[t], stack'[t])
            \/ Returns(stack[t], stack'[t])
         /\ Others(t) /\ stack' \in [Threads -> Seq(Frame)]
         /\ is_initialized' \in [Modules -> BOOLEAN]
         /\ \A m \in Modules : is_initialized'[m] => is_initialized[m]
         /\ UNCHANGED <<started, calls>>
         /\ Len(stack[t]) \in Nat /\ Len(stack[t]) >= 1
<1> "check" \in Pcs /\ "name" \in Pcs /\ "format" \in Pcs /\ "open" \in Pcs
    /\ "write" \in Pcs /\ "close" \in Pcs /\ "return" \in Pcs
  BY DEF Pcs
<1>0. /\ is_initialized' \in [Modules -> BOOLEAN]
      /\ \A m \in Modules : is_initialized'[m] => is_initialized[m]
      /\ UNCHANGED <<started, calls>>
  BY ModuleAssumption DEF TypeOK, Step, Check, NameFits, NameFails, Format, Open, OpenFails,
       Write, Close, Return, SwitchOff
<1> SUFFICES /\ \/ \E pc \in Pcs : Jumps(stack[t], stack'[t], pc)
                \/ Nests(stack[t], stack'[t])
                \/ Returns(stack[t], stack'[t])
             /\ Others(t) /\ stack' \in [Threads -> Seq(Frame)]
             /\ Len(stack[t]) \in Nat /\ Len(stack[t]) >= 1
  BY <1>0
<1>1. CASE Check(t)
  <2>1. CASE is_initialized[ModuleOf[t]]
    BY <1>1, <2>1, GotoJumps, Innermost DEF Check
  <2>2. CASE ~is_initialized[ModuleOf[t]]
    BY <1>1, <2>2, GotoJumps, Innermost DEF Check
  <2> QED
    BY <2>1, <2>2
<1>2. CASE NameFits(t)
  BY <1>2, GotoJumps, Innermost DEF NameFits
<1>3. CASE NameFails(t)
  BY <1>3, LogErrorNests, Innermost DEF NameFails
<1>4. CASE Format(t)
  <2>1. CASE Last(stack[t]).ret < 0
    BY <1>4, <2>1, LogErrorNests, Innermost DEF Format
  <2>2. CASE ~(Last(stack[t]).ret < 0)
    BY <1>4, <2>2, GotoJumps, Innermost DEF Format
  <2> QED
    BY <2>1, <2>2
<1>5. CASE OpenFails(t)
  BY <1>5, LogErrorNests, Innermost DEF OpenFails
<1>6. CASE Open(t) \/ Write(t) \/ Close(t)
  BY <1>6, GotoJumps, Innermost DEF Open, Write, Close
<1>7. CASE Return(t)
  BY <1>7, ReturnReturns, Innermost DEF Return
<1> QED
  BY <1>1, <1>2, <1>3, <1>4, <1>5, <1>6, <1>7 DEF Step

\* A first call.
LEMMA LogKind ==
  ASSUME TypeOK, NEW t \in Threads, Log(t)
  PROVE  /\ stack[t] = <<>> /\ Len(stack'[t]) = 1 /\ stack'[t][1].pc = "check"
         /\ Others(t) /\ stack' \in [Threads -> Seq(Frame)]
         /\ ModuleOf[t] \in started /\ calls' \in 0..MaxCalls
         /\ UNCHANGED <<is_initialized, started, fd, file>>
<1>1. PICK n \in Messages : stack' = [stack EXCEPT ![t] = <<[pc |-> "check", ret |-> n]>>]
  BY DEF Log
<1>2. [pc |-> "check", ret |-> n] \in Frame
  BY DEF Frame, Pcs
<1>3. stack'[t] = <<[pc |-> "check", ret |-> n]>> /\ Others(t)
      /\ stack' \in [Threads -> Seq(Frame)]
  BY <1>1, <1>2 DEF TypeOK, Others
<1>4. calls' \in 0..MaxCalls
  BY LogAssumption DEF Log, TypeOK
<1> QED
  BY <1>3, <1>4 DEF Log

\* The file only grows.
LEMMA FileType ==
  ASSUME TypeOK, NEW t \in Threads, Step(t)
  PROVE  file' \in Seq(Piece) /\ fd' \in [Threads -> 0..Len(file')]
<1>0. file \in Seq(Piece) /\ Len(file) \in Nat /\ fd \in [Threads -> 0..Len(file)]
  BY DEF TypeOK
<1>1. CASE Write(t)
  <2>1. CASE UNCHANGED file
    BY <1>0, <1>1, <2>1 DEF Write
  <2>2. ASSUME NEW len \in 1..Len(Written(Last(stack[t]).ret)), Overwrite(t, len)
        PROVE  file' \in Seq(Piece) /\ fd' \in [Threads -> 0..Len(file')]
    <3>1. len \in Nat
      <4>1. Last(stack[t]).ret \in Int
        BY <1>1, Innermost, LogAssumption DEF Write, Frame
      <4> QED
        BY <2>2, <4>1, LineLength
    <3>2. file' \in Seq(Piece) /\ Len(file') = Len(file) + 1
      BY <1>1, <2>2, <3>1, Overwriting DEF Write
    <3> QED
      BY <1>0, <1>1, <3>2 DEF Write
  <2> QED
    BY <1>1, <2>1, <2>2 DEF Write
<1>2. CASE Open(t)
  BY <1>0, <1>2 DEF Open
<1>3. CASE Close(t)
  BY <1>0, <1>3 DEF Close
<1> QED
  BY <1>0, <1>1, <1>2, <1>3 DEF Step, Check, NameFits, NameFails, Format, OpenFails, Return

\* Steps keep the types, and only the innermost call of a thread running.
LEMMA NextType == TypeOK /\ [Next]_vars => TypeOK'
<1> SUFFICES ASSUME TypeOK, [Next]_vars PROVE TypeOK'
  OBVIOUS
<1> DEFINE Waiting(s) == \A i \in 1..(Len(s) - 1) : s[i].pc = "return"
<1>1. \A u \in Threads : Waiting(stack[u])
  BY DEF TypeOK, Frames
<1>2. ASSUME stack' \in [Threads -> Seq(Frame)], is_initialized' \in [Modules -> BOOLEAN],
             started' \subseteq Modules, calls' \in 0..MaxCalls,
             file' \in Seq(Piece), fd' \in [Threads -> 0..Len(file')],
             \A u \in Threads : Waiting(stack'[u])
      PROVE TypeOK'
  BY <1>2 DEF TypeOK, Frames
<1>3. CASE UNCHANGED vars
  BY <1>1, <1>2, <1>3 DEF TypeOK, vars
<1>4. ASSUME NEW m \in Modules, logfile_init(m) PROVE TypeOK'
  BY <1>1, <1>2, <1>4 DEF TypeOK, logfile_init
<1>5. ASSUME NEW t \in Threads, Log(t) PROVE TypeOK'
  <2>1. Waiting(stack'[t])
    <3>1. Len(stack'[t]) = 1
      BY <1>5, LogKind
    <3> QED
      BY <3>1
  <2>2. \A u \in Threads : Waiting(stack'[u])
    BY <1>1, <1>5, <2>1, LogKind DEF Others
  <2> QED
    BY <1>2, <1>5, <2>2, LogKind DEF TypeOK
<1>6. ASSUME NEW t \in Threads, Step(t) PROVE TypeOK'
  <2> DEFINE s == stack[t]
             r == stack'[t]
  <2>1. Len(s) \in Nat /\ Len(s) >= 1 /\ Waiting(s)
    BY <1>1, <1>6, StepKinds
  <2>2. Waiting(r)
    <3>1. CASE \E pc \in Pcs : Jumps(s, r, pc)
      BY <2>1, <3>1 DEF Jumps
    <3>2. CASE Nests(s, r)
      BY <2>1, <3>2 DEF Nests
    <3>3. CASE Returns(s, r)
      BY <2>1, <3>3 DEF Returns
    <3> QED
      BY <1>6, <3>1, <3>2, <3>3, StepKinds
  <2>3. \A u \in Threads : Waiting(stack'[u])
    BY <1>1, <1>6, <2>2, StepKinds DEF Others
  <2> QED
    BY <1>2, <1>6, <2>3, StepKinds, FileType DEF TypeOK
<1> QED
  BY <1>3, <1>4, <1>5, <1>6 DEF Next

\* Every variable keeps to its type, and of the calls on a thread's stack only the
\* innermost runs: there is a return after every logged error of logfile.c.
THEOREM TypeCorrect == Spec => []TypeOK
BY InitType, NextType, PTL DEF Spec

------------------------------------------------------------------------------
(* Nesting.                                                                 *)

\* A nested call has a message of logfile.c, and the third one in a row finds the
\* log switched off.
DepthInv ==
  \A t \in Threads :
    /\ stack[t] # <<>> => ModuleOf[t] \in started
    /\ Frames(t) <= 3
    /\ \A i \in 2..Frames(t) : stack[t][i].ret = ErrorMessage
    /\ Frames(t) = 3 => ~is_initialized[ModuleOf[t]] /\ stack[t][3].pc \in {"check", "return"}

Depth(s, init) ==
  /\ Len(s) <= 3
  /\ \A i \in 2..Len(s) : s[i].ret = ErrorMessage
  /\ Len(s) = 3 => ~init /\ s[3].pc \in {"check", "return"}

\* The log is not switched on while anything is logged.
LEMMA NextDepth ==
  ErrorMessage >= 0 /\ TypeOK /\ DepthInv /\ [Next]_vars => DepthInv'
<1> SUFFICES ASSUME ErrorMessage >= 0, TypeOK, DepthInv, [Next]_vars PROVE DepthInv'
  OBVIOUS
<1>1. \A u \in Threads : /\ Depth(stack[u], is_initialized[ModuleOf[u]])
                         /\ stack[u] # <<>> => ModuleOf[u] \in started
  BY DEF DepthInv, Depth, Frames
<1>2. ASSUME \A u \in Threads : /\ Depth(stack'[u], is_initialized'[ModuleOf[u]])
                                /\ stack'[u] # <<>> => ModuleOf[u] \in started'
      PROVE DepthInv'
  BY <1>2 DEF DepthInv, Depth, Frames
<1>3. CASE UNCHANGED vars
  BY <1>1, <1>2, <1>3 DEF vars
<1>4. ASSUME NEW m \in Modules, logfile_init(m) PROVE DepthInv'
  <2>1. \A u \in Threads : ModuleOf[u] = m => stack'[u] = <<>>
    BY <1>1, <1>4 DEF logfile_init
  <2>2. \A u \in Threads : ModuleOf[u] # m =>
          is_initialized'[ModuleOf[u]] = is_initialized[ModuleOf[u]]
    BY <1>4, ModuleAssumption DEF logfile_init, TypeOK
  <2>3. \A u \in Threads : Depth(stack'[u], is_initialized'[ModuleOf[u]])
    BY <1>1, <1>4, <2>1, <2>2 DEF Depth, logfile_init
  <2> QED
    BY <1>1, <1>2, <1>4, <2>3 DEF logfile_init
<1>5. ASSUME NEW t \in Threads, Log(t) PROVE DepthInv'
  <2>1. Depth(stack'[t], is_initialized'[ModuleOf[t]])
    BY <1>5, LogKind DEF Depth
  <2>2. \A u \in Threads : Depth(stack'[u], is_initialized'[ModuleOf[u]])
    BY <1>1, <1>5, <2>1, LogKind DEF Others
  <2>3. \A u \in Threads : stack'[u] # <<>> => ModuleOf[u] \in started'
    BY <1>1, <1>5, LogKind DEF Others
  <2> QED
    BY <1>2, <2>2, <2>3
<1>6. ASSUME NEW t \in Threads, Step(t) PROVE DepthInv'
  <2> DEFINE s == stack[t]
             r == stack'[t]
             n == Len(s)
             on == is_initialized[ModuleOf[t]]
  <2>1. n \in Nat /\ n >= 1 /\ Depth(s, on) /\ s # <<>> /\ ModuleOf[t] \in started /\ n <= 3
    <3>1. n \in Nat /\ n >= 1
      BY <1>6, StepKinds
    <3>2. s # <<>>
      BY <3>1
    <3> QED
      BY <1>1, <3>1, <3>2 DEF Depth
  <2>5. n = 1 \/ n = 2 \/ n = 3
    <3> HIDE DEF n
    <3>1. n \in Nat /\ n >= 1 /\ n <= 3
      BY <2>1
    <3> QED
      BY <3>1
  <2>2. \A u \in Threads : is_initialized'[ModuleOf[u]] => is_initialized[ModuleOf[u]]
    BY <1>6, StepKinds, ModuleAssumption
  <2>3. Depth(r, is_initialized'[ModuleOf[t]])
    <3>1. CASE Return(t)
      <4>1. Returns(s, r)
        BY <3>1, ReturnReturns
      <4>2. Len(r) <= 2
        BY <2>1, <4>1 DEF Returns
      <4>3. \A i \in 2..Len(r) : r[i].ret = ErrorMessage
        BY <2>1, <4>1 DEF Returns, Depth
      <4> QED
        <5> HIDE DEF n
        <5>0. Len(r) = n - 1
          BY <4>1 DEF Returns, n
        <5>1. Len(r) # 3
          BY <2>5, <5>0
        <5>2. Len(r) <= 3
          BY <2>5, <5>0
        <5> QED
          BY <4>3, <5>1, <5>2 DEF Depth
    <3>2. CASE Check(t) \/ NameFits(t) \/ (Format(t) /\ ~(Last(stack[t]).ret < 0))
             \/ Open(t) \/ Write(t) \/ Close(t)
      <4>1. PICK from \in Pcs, pc \in Pcs :
              /\ At(t, from) /\ Goto(t, pc)
              /\ from # "return" /\ (from = "check" => on \/ pc = "return")
        BY <3>2 DEF Check, NameFits, Format, Open, Write, Close, Pcs
      <4>2. Jumps(s, r, pc) /\ s[n].pc = from
        BY <4>1, GotoJumps, Innermost
      <4>3. n = 3 => pc = "return"
        BY <2>1, <4>1, <4>2 DEF Depth
      <4> QED
        BY <2>1, <2>2, <4>2, <4>3 DEF Depth, Jumps
    <3>3. CASE NameFails(t) \/ OpenFails(t)
      <4>1. PICK from \in {"name", "open"} : At(t, from) /\ LogError(t) /\ ~is_initialized'[ModuleOf[t]]
        BY <3>3, ModuleAssumption DEF NameFails, OpenFails, SwitchOff, TypeOK
      <4>2. Nests(s, r) /\ s[n].pc = from
        BY <4>1, LogErrorNests, Innermost
      <4>3. n <= 2
        <5>1. n = 3 => s[n].pc \in {"check", "return"}
          BY <2>1 DEF Depth
        <5>2. n # 3
          BY <4>1, <4>2, <5>1
        <5> HIDE DEF n
        <5> QED
          BY <2>5, <5>2
      <4> QED
        BY <2>1, <4>1, <4>2, <4>3 DEF Depth, Nests
    <3>4. CASE Format(t) /\ Last(stack[t]).ret < 0
      <4>1. Nests(s, r) /\ s[n].ret < 0
        BY <3>4, LogErrorNests, Innermost DEF Format
      <4>2. n = 1
        <5>1. n \in 2..n => s[n].ret = ErrorMessage
          BY <2>1 DEF Depth
        <5>2. ~(n \in 2..n)
          BY <4>1, <5>1, LogAssumption
        <5> QED
          BY <2>5, <5>2
      <4> QED
        BY <2>1, <4>1, <4>2 DEF Depth, Nests
    <3> QED
      BY <1>6, <3>1, <3>2, <3>3, <3>4 DEF Step
  <2>4. \A u \in Threads : Depth(stack'[u], is_initialized'[ModuleOf[u]])
    <3>1. ASSUME NEW u \in Threads, u # t PROVE Depth(stack'[u], is_initialized'[ModuleOf[u]])
      BY <1>1, <1>6, <2>2, <3>1, StepKinds DEF Others, Depth
    <3> QED
      BY <2>3, <3>1
  <2>6. \A u \in Threads : stack'[u] # <<>> => ModuleOf[u] \in started'
    BY <1>1, <1>6, <2>1, StepKinds DEF Others
  <2> QED
    BY <1>2, <2>4, <2>6
<1> QED
  BY <1>3, <1>4, <1>5, <1>6 DEF Next

\* Logging an error about logging ends after two more calls, whatever fails and
\* whatever other threads log meanwhile, if the messages of logfile.c can be
\* formatted.
THEOREM NestingIsBounded == ErrorMessage >= 0 => (Spec => []NestingBounded)
<1> SUFFICES ASSUME ErrorMessage >= 0 PROVE Spec => []NestingBounded
  OBVIOUS
<1>1. Init => DepthInv
  <2> SUFFICES ASSUME Init PROVE DepthInv
    OBVIOUS
  <2>1. \A t \in Threads : stack[t] = <<>> /\ Frames(t) = 0
    BY DEF Init, Frames
  <2> QED
    BY <2>1 DEF DepthInv
<1>2. TypeOK /\ DepthInv /\ [Next]_vars => DepthInv'
  BY NextDepth
<1>3. DepthInv => NestingBounded
  BY DEF DepthInv, NestingBounded
<1> QED
  BY <1>1, <1>2, <1>3, InitType, NextType, PTL DEF Spec

------------------------------------------------------------------------------
(* Lines.                                                                   *)

\* What LinesAreWhole says of the line of a message.
Whole(text, n) ==
  /\ Last(text) = "newline" /\ "NUL" \notin ToSet(text)
  /\ Len(text) < LineBuffer
  /\ Len(text) = n \/ IsSuffix(Marker, text)

\* A text that fits is written as it is.
LEMMA FittingLine ==
  ASSUME NEW n \in Nat \ {0}, n < LineBuffer
  PROVE  Whole(Written(n), n)
<1> DEFINE w == SubSeq(Formatted(n), 1, n)
<1>1. /\ Len(w) = n /\ w \in Seq({"text", "newline", "NUL"})
      /\ \A i \in 1..n : w[i] = Formatted(n)[i]
  BY FormattedBuffer, LogAssumption
<1>2. \A i \in 1..n : w[i] = Char(n, i)
  BY <1>1, FormattedBuffer, LogAssumption
<1>3. w[n] = "newline"
  BY <1>2 DEF Char
<1>4. "NUL" \notin ToSet(w)
  BY <1>1, <1>2 DEF Char, ToSet
<1>5. Written(n) = w
  BY DEF Written
<1> QED
  BY <1>1, <1>3, <1>4, <1>5 DEF Whole, Last

\* A longer one ends in the marker.
LEMMA TruncatedLine ==
  ASSUME NEW n \in Nat, n >= LineBuffer
  PROVE  Whole(Written(n), n)
<1> DEFINE k == LineBuffer - 1 - MarkerLen
           p == SubSeq(Formatted(n), 1, k)
           w == p \o Marker
<1>1. k \in Nat /\ k < LineBuffer /\ MarkerLen \in Nat \ {0} /\ LineBuffer \in Nat
  BY LogAssumption
<1>2. /\ Len(p) = k /\ p \in Seq({"text", "newline", "NUL"})
      /\ \A i \in 1..k : p[i] = Formatted(n)[i]
  BY <1>1, FormattedBuffer
<1>3. \A i \in 1..k : p[i] # "NUL"
  BY <1>1, <1>2, FormattedBuffer DEF Char
<1>4. /\ Marker \in Seq({"newline", "marker"}) /\ Len(Marker) = MarkerLen
      /\ Marker[MarkerLen] = "newline"
      /\ \A i \in 1..MarkerLen : Marker[i] # "NUL"
  BY <1>1 DEF Marker
<1> HIDE DEF p
<1>5. /\ Len(w) = k + MarkerLen
      /\ \A i \in 1..k : w[i] = p[i]
      /\ \A i \in 1..MarkerLen : w[k + i] = Marker[i]
      /\ DOMAIN w = 1..(k + MarkerLen)
  BY <1>1, <1>2, <1>4
<1>6. \A i \in 1..(k + MarkerLen) : i \in 1..k \/ (i - k \in 1..MarkerLen /\ i = k + (i - k))
  BY <1>1
<1> DEFINE r == Reverse(w)
           m == Reverse(Marker)
<1>7. /\ Len(r) = k + MarkerLen /\ Len(m) = MarkerLen
      /\ \A i \in 1..MarkerLen : m[i] = Marker[MarkerLen - i + 1]
      /\ \A i \in 1..MarkerLen : r[i] = w[k + MarkerLen - i + 1]
  BY <1>1, <1>4, <1>5 DEF Reverse
<1>8. \A i \in 1..MarkerLen : r[i] = m[i]
  <2> TAKE i \in 1..MarkerLen
  <2>1. MarkerLen - i + 1 \in 1..MarkerLen
    BY <1>1
  <2>2. w[k + (MarkerLen - i + 1)] = Marker[MarkerLen - i + 1]
    BY <1>5, <2>1
  <2>3. k + (MarkerLen - i + 1) = k + MarkerLen - i + 1
    BY <1>1
  <2> QED
    BY <1>7, <2>2, <2>3
<1>9. "NUL" \notin ToSet(w)
  <2>1. ASSUME NEW i \in 1..(k + MarkerLen) PROVE w[i] # "NUL"
    BY <1>3, <1>4, <1>5, <1>6
  <2> QED
    BY <1>5, <2>1 DEF ToSet
<1>10. Written(n) = w
  BY LogAssumption DEF Written, p
<1>11. w[Len(w)] = "newline"
  <2>1. MarkerLen \in 1..MarkerLen
    BY <1>1
  <2>2. w[k + MarkerLen] = Marker[MarkerLen]
    BY <1>5, <2>1
  <2> QED
    BY <1>4, <1>5, <2>2
<1> HIDE DEF k, w
<1>12. IsSuffix(Marker, w)
  <2> HIDE DEF r, m
  <2>1. SubSeq(m, 1, MarkerLen) = [i \in 1..MarkerLen |-> m[i]]
        /\ SubSeq(r, 1, MarkerLen) = [i \in 1..MarkerLen |-> r[i]]
    BY <1>1
  <2>2. SubSeq(m, 1, MarkerLen) = SubSeq(r, 1, MarkerLen)
    BY <1>8, <2>1
  <2>3. Len(m) <= Len(r)
    BY <1>1, <1>7
  <2>4. IsPrefix(m, r)
    BY <1>7, <2>2, <2>3 DEF IsPrefix
  <2> QED
    BY <2>4 DEF IsSuffix, m, r
<1>13. Len(w) < LineBuffer
  BY <1>1, <1>5 DEF k
<1> QED
  BY <1>9, <1>10, <1>11, <1>12, <1>13 DEF Whole, Last

\* Only a message that could be formatted gets as far as the file, ...
OpenInv ==
  /\ \A t \in Threads : \A i \in 1..Frames(t) :
       stack[t][i].pc \in {"open", "write"} => stack[t][i].ret >= 0
  /\ \A i \in 1..Len(file) : file[i].ret \in Nat \ {0}

\* ... and whoever is about to write opened it behind the lines written alone.
AloneInv ==
  \A i \in 1..Len(file) : file[i].alone =>
    file[i].intact /\ \A t \in Threads : At(t, "write") => i <= fd[t]

Opens(s) == \A i \in 1..Len(s) : s[i].pc \in {"open", "write"} => s[i].ret >= 0

\* What a step of a thread does to the file.
LEMMA WriteOnly ==
  ASSUME NEW t \in Threads, Step(t), ~Write(t)
  PROVE  UNCHANGED file
BY DEF Step, Check, NameFits, NameFails, Format, Open, OpenFails, Close, Return

\* A step leaves the file alone, or writes.
LEMMA WriteKinds ==
  ASSUME TypeOK, NEW t \in Threads, Step(t)
  PROVE  \/ UNCHANGED file
         \/ Write(t) /\ \E len \in Nat : Overwrite(t, len)
<1>1. CASE Write(t)
  <2>1. Last(stack[t]).ret \in Int
    BY <1>1, Innermost, LogAssumption DEF Write, Frame
  <2>2. Len(Written(Last(stack[t]).ret)) \in Nat
    BY <2>1, LineLength
  <2>3. \A len \in 1..Len(Written(Last(stack[t]).ret)) : len \in Nat
    BY <2>2
  <2> QED
    BY <1>1, <2>3 DEF Write
<1> QED
  BY <1>1, WriteOnly

\* Only opening the file makes a thread about to write.
LEMMA NotAtWrite ==
  ASSUME TypeOK, NEW t \in Threads, Step(t), ~Open(t)
  PROVE  ~At(t, "write")'
<1> DEFINE s == stack[t]
           r == stack'[t]
           n == Len(s)
<1>1. CASE Return(t)
  <2>1. Returns(s, r) /\ n \in Nat /\ s \in Seq(Frame)
    BY <1>1, ReturnReturns, Innermost DEF Return
  <2>2. \A i \in 1..(n - 1) : s[i].pc = "return"
    BY DEF TypeOK, Frames
  <2>3. r # <<>> => n - 1 >= 1
    BY <2>1 DEF Returns
  <2>4. r # <<>> => Last(r) = r[n - 1] /\ r[n - 1].pc = "return"
    BY <2>1, <2>2, <2>3 DEF Returns, Last
  <2> QED
    BY <2>4 DEF At
<1>2. CASE NameFails(t) \/ OpenFails(t) \/ (Format(t) /\ Last(s).ret < 0)
  <2>1. Nests(s, r)
    BY <1>2, LogErrorNests DEF NameFails, OpenFails, Format
  <2>2. Last(r).pc = "check"
    BY <2>1 DEF Nests, Last
  <2> QED
    BY <2>2 DEF At
<1>3. CASE Check(t) \/ NameFits(t) \/ Write(t) \/ Close(t) \/ (Format(t) /\ ~(Last(s).ret < 0))
  <2>1. PICK from \in Pcs, pc \in Pcs : At(t, from) /\ Goto(t, pc) /\ pc # "write"
    BY <1>3 DEF Check, NameFits, Write, Close, Format, Pcs
  <2>2. Jumps(s, r, pc)
    BY <2>1, GotoJumps
  <2>3. Last(r).pc = pc
    BY <2>2 DEF Jumps, Last
  <2> QED
    BY <2>1, <2>3 DEF At
<1> QED
  BY <1>1, <1>2, <1>3 DEF Step

\* A thread that writes has a message that could be formatted.
LEMMA WriterRet ==
  ASSUME TypeOK, NEW t \in Threads, Opens(stack[t]), At(t, "write")
  PROVE  Last(stack[t]).ret \in Nat \ {0}
<1> DEFINE n == Len(stack[t])
<1>1. /\ Last(stack[t]) = stack[t][n] /\ stack[t][n] \in Frame
      /\ stack[t][n].pc = "write" /\ n \in 1..n
  BY Innermost
<1>2. stack[t][n].ret >= 0
  BY <1>1 DEF Opens
<1>3. stack[t][n].ret \in Messages \cup {ErrorMessage}
  BY <1>1 DEF Frame
<1>4. stack[t][n].ret \in Int /\ stack[t][n].ret # 0
  BY <1>3, LogAssumption, MessagesAssumption
<1> HIDE DEF n
<1> QED
  BY <1>1, <1>2, <1>4

\* Each step keeps the messages of the lines.
LEMMA NextOpen == TypeOK /\ OpenInv /\ [Next]_vars => OpenInv'
<1> SUFFICES ASSUME TypeOK, OpenInv, [Next]_vars PROVE OpenInv'
  OBVIOUS
<1> DEFINE LineInv == \A i \in 1..Len(file) : file[i].ret \in Nat \ {0}
<1>1. (\A u \in Threads : Opens(stack[u])) /\ LineInv
  BY DEF OpenInv, Opens, Frames
<1>2. ASSUME \A u \in Threads : Opens(stack'[u]), LineInv' PROVE OpenInv'
  BY <1>2 DEF OpenInv, Opens, Frames
<1>3. CASE UNCHANGED vars
  BY <1>1, <1>2, <1>3 DEF vars
<1>4. ASSUME NEW m \in Modules, logfile_init(m) PROVE OpenInv'
  BY <1>1, <1>2, <1>4 DEF logfile_init
<1>5. ASSUME NEW t \in Threads, Log(t) PROVE OpenInv'
  <2>1. Opens(stack'[t])
    BY <1>5, LogKind DEF Opens
  <2>2. \A u \in Threads : Opens(stack'[u])
    BY <1>1, <1>5, <2>1, LogKind DEF Others
  <2> QED
    BY <1>1, <1>2, <1>5, <2>2, LogKind
<1>6. ASSUME NEW t \in Threads, Step(t) PROVE OpenInv'
  <2> DEFINE s == stack[t]
             r == stack'[t]
             n == Len(s)
  <2>1. n \in Nat /\ n >= 1 /\ Opens(s)
    BY <1>1, <1>6, StepKinds
  <2>2. Opens(r)
    <3>1. CASE Return(t)
      BY <2>1, <3>1, ReturnReturns DEF Returns, Opens
    <3>2. CASE NameFails(t) \/ OpenFails(t) \/ (Format(t) /\ Last(s).ret < 0)
      <4>1. Nests(s, r)
        BY <3>2, LogErrorNests DEF NameFails, OpenFails, Format
      <4>2. ASSUME NEW i \in 1..Len(r), r[i].pc \in {"open", "write"} PROVE i \in 1..(n - 1)
        BY <2>1, <4>1, <4>2 DEF Nests
      <4>3. \A i \in 1..(n - 1) : i \in 1..n /\ r[i] = s[i]
        BY <2>1, <4>1 DEF Nests
      <4> QED
        BY <2>1, <4>2, <4>3 DEF Opens
    <3>3. CASE Check(t) \/ NameFits(t) \/ Write(t) \/ Close(t)
      <4>1. PICK from \in Pcs, pc \in Pcs :
              At(t, from) /\ Goto(t, pc) /\ pc # "open" /\ pc # "write"
        BY <3>3 DEF Check, NameFits, Write, Close, Pcs
      <4>2. Jumps(s, r, pc)
        BY <4>1, GotoJumps
      <4> QED
        BY <2>1, <4>1, <4>2 DEF Jumps, Opens
    <3>4. CASE Open(t) \/ (Format(t) /\ ~(Last(s).ret < 0))
      <4>1. PICK from \in {"format", "open"}, pc \in {"open", "write"} :
              /\ At(t, from) /\ Goto(t, pc)
              /\ from = "format" => ~(Last(s).ret < 0)
        BY <3>4 DEF Format, Open
      <4>5. pc \in Pcs
        BY <4>1 DEF Pcs
      <4>2. Jumps(s, r, pc) /\ Last(s) = s[n] /\ s[n] \in Frame /\ s[n].pc = from
        BY <4>1, <4>5, GotoJumps, Innermost
      <4>3. r[n].ret >= 0
        <5>1. s[n].ret \in Int
          BY <4>2, LogAssumption DEF Frame
        <5>2. r[n].ret = s[n].ret
          BY <4>2 DEF Jumps
        <5>3. CASE from = "format"
          <6>1. ~(s[n].ret < 0)
            BY <4>1, <4>2, <5>3
          <6> HIDE DEF r, s, n
          <6> QED
            BY <5>1, <5>2, <6>1
        <5>4. CASE from = "open"
          BY <2>1, <4>2, <5>2, <5>4 DEF Opens
        <5> QED
          BY <4>1, <5>3, <5>4
      <4> QED
        BY <2>1, <4>2, <4>3 DEF Jumps, Opens
    <3> QED
      BY <1>6, <3>1, <3>2, <3>3, <3>4 DEF Step
  <2>3. \A u \in Threads : Opens(stack'[u])
    BY <1>1, <1>6, <2>2, StepKinds DEF Others
  <2>4. LineInv'
    <3>1. CASE UNCHANGED file
      BY <1>1, <3>1
    <3>2. ASSUME Write(t), NEW len \in Nat, Overwrite(t, len) PROVE LineInv'
      <4>1. /\ Len(file) \in Nat /\ Len(file') = Len(file) + 1
            /\ \A i \in 1..Len(file) : file'[i].ret = file[i].ret
            /\ file'[Len(file) + 1].ret \in Nat \ {0}
        BY <2>1, <3>2, Overwriting, WriterRet DEF Write
      <4> QED
        BY <1>1, <4>1
    <3> QED
      BY <1>6, <3>1, <3>2, WriteKinds
  <2> QED
    BY <1>2, <2>3, <2>4
<1> QED
  BY <1>3, <1>4, <1>5, <1>6 DEF Next

\* What stands at the end of a stack decides who is about to write.
LEMMA NextAlone == TypeOK /\ AloneInv /\ [Next]_vars => AloneInv'
<1> SUFFICES ASSUME TypeOK, AloneInv, [Next]_vars PROVE AloneInv'
  OBVIOUS
<1>0. file \in Seq(Piece) /\ Len(file) \in Nat /\ fd \in [Threads -> 0..Len(file)]
  BY DEF TypeOK
<1>1. CASE UNCHANGED vars
  BY <1>1 DEF AloneInv, At, vars
<1>2. ASSUME NEW m \in Modules, logfile_init(m) PROVE AloneInv'
  BY <1>2 DEF AloneInv, At, logfile_init
<1>3. ASSUME NEW t \in Threads, Log(t) PROVE AloneInv'
  <2>1. ~At(t, "write")'
    <3>1. Len(stack'[t]) = 1 /\ stack'[t][1].pc = "check"
      BY <1>3, LogKind
    <3> QED
      BY <3>1 DEF At, Last
  <2>2. \A u \in Threads \ {t} : At(u, "write")' => At(u, "write")
    BY <1>3, LogKind DEF At, Others
  <2> QED
    BY <1>3, <2>1, <2>2, LogKind DEF AloneInv
<1>4. ASSUME NEW t \in Threads, Step(t) PROVE AloneInv'
  <2>1. \A u \in Threads \ {t} : /\ At(u, "write")' => At(u, "write")
                                /\ fd'[u] = fd[u]
    <3>1. \A u \in Threads \ {t} : At(u, "write")' => At(u, "write")
      BY <1>4, StepKinds DEF At, Others
    <3>2. \A u \in Threads \ {t} : fd'[u] = fd[u]
      BY <1>0, <1>4 DEF Step, Check, NameFits, NameFails, Format, Open, OpenFails, Write,
         Close, Return
    <3> QED
      BY <3>1, <3>2
  <2>2. CASE Open(t)
    <3>1. fd'[t] = Len(file) /\ UNCHANGED file
      BY <1>0, <2>2 DEF Open
    <3> QED
      BY <1>0, <2>1, <3>1 DEF AloneInv
  <2>3. CASE ~Open(t)
    <3>1. ~At(t, "write")'
      BY <1>4, <2>3, NotAtWrite
    <3>2. CASE UNCHANGED file
      BY <2>1, <3>1, <3>2 DEF AloneInv
    <3>3. ASSUME Write(t), NEW len \in Nat, Overwrite(t, len) PROVE AloneInv'
      <4>1. At(t, "write")
        BY <3>3 DEF Write
      <4>2. /\ Len(file') = Len(file) + 1
            /\ \A i \in 1..Len(file) : /\ file'[i].alone = file[i].alone
                                       /\ i <= fd[t] => file'[i] = file[i]
            /\ file'[Len(file) + 1].alone =>
                 /\ file'[Len(file) + 1].intact
                 /\ \A u \in Threads \ {t} : ~At(u, "write")
        BY <3>3, <4>1, Overwriting
      <4>3. ASSUME NEW i \in 1..Len(file), file'[i].alone
            PROVE  file'[i].intact /\ \A u \in Threads : At(u, "write")' => i <= fd'[u]
        <5>1. file[i].alone /\ i <= fd[t]
          BY <4>1, <4>2, <4>3 DEF AloneInv
        <5>2. file'[i] = file[i]
          BY <4>2, <5>1
        <5> QED
          BY <2>1, <3>1, <5>1, <5>2 DEF AloneInv
      <4>4. ASSUME file'[Len(file) + 1].alone
            PROVE  /\ file'[Len(file) + 1].intact
                   /\ \A u \in Threads : ~At(u, "write")'
        BY <2>1, <3>1, <4>2, <4>4
      <4>5. \A i \in 1..Len(file') : i \in 1..Len(file) \/ i = Len(file) + 1
        BY <1>0, <4>2
      <4> QED
        BY <4>3, <4>4, <4>5 DEF AloneInv
    <3> QED
      BY <1>4, <3>2, <3>3, WriteKinds
  <2> QED
    BY <2>2, <2>3
<1> QED
  BY <1>1, <1>2, <1>3, <1>4 DEF Next

\* A line written in full with no other thread in between opening the file and
\* writing is in the file for good, ends in its newline, holds no NUL, and is
\* complete unless it says that it is truncated: for any threads of any modules,
\* and messages and buffers of every length.
THEOREM LinesStayWhole == Spec => []LinesAreWhole
<1>1. Init => OpenInv /\ AloneInv
  <2> SUFFICES ASSUME Init PROVE OpenInv /\ AloneInv
    OBVIOUS
  <2>1. Len(file) = 0 /\ \A t \in Threads : Frames(t) = 0
    BY DEF Init, Frames
  <2> QED
    BY <2>1 DEF OpenInv, AloneInv
<1>2. OpenInv /\ AloneInv => LinesAreWhole
  <2> SUFFICES ASSUME OpenInv, AloneInv, NEW i \in 1..Len(file), file[i].alone
               PROVE  file[i].intact /\ Whole(Written(file[i].ret), file[i].ret)
    BY DEF LinesAreWhole, Whole
  <2>1. file[i].ret \in Nat \ {0} /\ file[i].intact
    BY DEF OpenInv, AloneInv
  <2>2. \A n \in Nat \ {0} : Whole(Written(n), n)
    BY FittingLine, TruncatedLine, LogAssumption
  <2> QED
    BY <2>1, <2>2
<1> QED
  BY <1>1, <1>2, InitType, NextType, NextOpen, NextAlone, PTL DEF Spec
==============================================================================
