------------------------ MODULE NativeTransportProofs ------------------------
(***************************************************************************)
(* Proofs about NativeTransport, for every bound and every number of       *)
(* commands, sessions and pauses.                                          *)
(***************************************************************************)
EXTENDS NativeTransportInv, SequenceTheorems, TLAPS

(* What a chunk of output and an entry of stdin are made of.                *)
LEMMA ChunkType == \A id \in Nat : Chunk(id, 1) \in Chunks /\ Chunk(id, 2) \in Chunks
  BY DEF Chunk, Chunks

(* The command in flight is a request, so it has a number.                  *)
LEMMA CurrentId == HostType /\ Have => current.id \in Nat
  BY DEF HostType, Have, Commands

(* Whatever Hatari reads next is a request or a Continue.                   *)
LEMMA StdinHead ==
  ASSUME StdinType, stdin # <<>>
  PROVE  Head(stdin).id \in Nat /\ Tail(stdin) \in Seq(StdinEntries)
<1>1. Head(stdin) \in StdinEntries /\ Tail(stdin) \in Seq(StdinEntries)
  BY DEF StdinType
<1> QED BY <1>1 DEF StdinEntries, Commands, Continue

(* Writing `c` keeps stdin a sequence of entries.                           *)
LEMMA AppendContinue == StdinType => Append(stdin, Continue) \in Seq(StdinEntries)
  BY DEF StdinType, StdinEntries

-----------------------------------------------------------------------------
(* The initial state is well typed.                                         *)
LEMMA InitTypeOK == Init => TypeOK
<1> SUFFICES ASSUME Init PROVE TypeOK
  OBVIOUS
<1>1. HostType /\ WaitType /\ EmuType
  BY DEF Init, HostType, WaitType, EmuType
<1>2. LineType /\ StdinType
  BY DEF Init, LineType, StdinType
<1>3. BookType
  BY DEF Init, BookType
<1> QED BY <1>1, <1>2, <1>3 DEF TypeOK

(* The prompt handlers keep the types, whichever step called them.          *)
LEMMA PromptType ==
  ASSUME TypeOK, prompts' \in Nat, NEW done \in {"loop", "dispatch"}, OnPrompt(done)
  PROVE  TypeOK'
<1>1. HostType'
  BY DEF OnPrompt, SwallowOwed, EntryPrompt, AnswerPrompt, StopPrompt,
         TypeOK, HostType, hostVars
<1>2. WaitType'
  <2>1. CASE SwallowOwed(done)
    <3>1. owed' \in Nat
      BY <2>1 DEF SwallowOwed, TypeOK, WaitType
    <3>2. stopped' \in BOOLEAN /\ awaiting' \in BOOLEAN
      BY <2>1 DEF SwallowOwed, ConsumeLines, TypeOK, WaitType
    <3> QED BY <3>1, <3>2 DEF WaitType
  <2>2. CASE ~SwallowOwed(done)
    BY <2>2 DEF OnPrompt, EntryPrompt, AnswerPrompt, StopPrompt,
                TypeOK, WaitType, hostVars
  <2> QED BY <2>1, <2>2
<1>3. LineType'
  BY DEF OnPrompt, SwallowOwed, EntryPrompt, AnswerPrompt, StopPrompt,
         ConsumeLines, TypeOK, LineType, hostVars
<1>4. EmuType' /\ StdinType' /\ BookType'
  BY DEF OnPrompt, TypeOK, EmuType, StdinType, BookType, boundVars
<1> QED BY <1>1, <1>2, <1>3, <1>4 DEF TypeOK

LEMMA TypeStep == TypeOK /\ [Next]_vars => TypeOK'
<1> SUFFICES ASSUME TypeOK, [Next]_vars PROVE TypeOK'
  OBVIOUS
<1>1. CASE Start
  <2>1. HostType' /\ WaitType'
    BY <1>1 DEF Start, ResetTransport, TypeOK, HostType, WaitType
  <2>2. LineType' /\ StdinType'
    BY <1>1 DEF Start, ResetTransport, FreshProcess, TypeOK, LineType, StdinType
  <2>3. EmuType' /\ BookType'
    BY <1>1 DEF Start, FreshProcess, TypeOK, EmuType, BookType
  <2> QED BY <2>1, <2>2, <2>3 DEF TypeOK
<1>2. CASE Stop
  <2>1. HostType'
    BY <1>2 DEF Stop, TypeOK, HostType
  <2>2. WaitType'
    BY <1>2 DEF Stop, TypeOK, WaitType
  <2>3. LineType' /\ StdinType'
    BY <1>2 DEF Stop, FreshProcess, TypeOK, LineType, StdinType
  <2>4. EmuType'
    BY <1>2 DEF Stop, FreshProcess, TypeOK, EmuType
  <2>5. BookType'
    BY <1>2 DEF Stop, FreshProcess, boundVars, TypeOK, BookType
  <2> QED BY <2>1, <2>2, <2>3, <2>4, <2>5 DEF TypeOK
<1>3. CASE Request
  BY <1>3
  DEF Request, Enqueue, Commands, emuVars, TypeOK, HostType, WaitType, LineType, EmuType, StdinType, BookType
<1>4. CASE Resume
  <2>1. HostType'
    BY <1>4 DEF Resume, FinishContinue, TypeOK, HostType
  <2>2. WaitType'
    BY <1>4 DEF Resume, FinishContinue, TypeOK, WaitType
  <2>3. LineType' /\ EmuType'
    BY <1>4 DEF Resume, TypeOK, LineType, EmuType
  <2>4. StdinType'
    BY AppendContinue, <1>4 DEF Resume, FinishContinue, TypeOK, StdinType
  <2>5. BookType'
    BY <1>4 DEF Resume, ArmsInHand, Keeps, Commands, NoCmd, boundVars, TypeOK, BookType, HostType
  <2> QED BY <2>1, <2>2, <2>3, <2>4, <2>5 DEF TypeOK
<1>5. CASE Pause
  BY <1>5
  DEF Pause, hostVars, boundVars, TypeOK, HostType, WaitType, LineType, EmuType, StdinType, BookType
<1>6. CASE ProcessFinished
  <2>1. HostType'
    BY <1>6 DEF ProcessFinished, TypeOK, HostType
  <2>2. WaitType'
    BY <1>6 DEF ProcessFinished, TypeOK, WaitType
  <2>3. LineType' /\ StdinType'
    BY <1>6 DEF ProcessFinished, TypeOK, LineType, StdinType
  <2>4. EmuType' /\ BookType'
    BY <1>6 DEF ProcessFinished, boundVars, TypeOK, EmuType, BookType
  <2> QED BY <2>1, <2>2, <2>3, <2>4 DEF TypeOK
<1>7. CASE ReadStderr
  <2>1. HostType' /\ EmuType'
    BY <1>7 DEF ReadStderr, TakeErrPrompt, TypeOK, HostType, EmuType
  <2>2. WaitType'
    BY <1>7 DEF ReadStderr, ConsumeLines, TypeOK, WaitType
  <2>3. LineType'
    BY <1>7 DEF ReadStderr, ConsumeLines, TypeOK, LineType
  <2>4. StdinType' /\ BookType'
    BY <1>7 DEF ReadStderr, boundVars, TypeOK, StdinType, BookType
  <2> QED BY <2>1, <2>2, <2>3, <2>4 DEF TypeOK
<1>8. CASE ReadPrompt
  <2>1. prompts' \in Nat /\ OnPrompt("loop")
    BY <1>8 DEF ReadPrompt, TypeOK, EmuType
  <2> QED BY <2>1, PromptType
<1>9. CASE ErrPrompt
  <2>1. prompts' \in Nat /\ (OnPrompt("loop") \/ OnPrompt("dispatch"))
    BY <1>9 DEF ErrPrompt, TypeOK, EmuType
  <2> QED BY <2>1, PromptType
<1>10. CASE DrainBeforeDispatch
  <2>1. HostType' /\ EmuType'
    BY <1>10 DEF DrainBeforeDispatch, TakeErrPrompt, TypeOK, HostType, EmuType
  <2>2. WaitType'
    BY <1>10 DEF DrainBeforeDispatch, ConsumeLines, TypeOK, WaitType
  <2>3. LineType'
    BY <1>10 DEF DrainBeforeDispatch, ConsumeLines, TypeOK, LineType
  <2>4. StdinType' /\ BookType'
    BY <1>10 DEF DrainBeforeDispatch, boundVars, TypeOK, StdinType, BookType
  <2> QED BY <2>1, <2>2, <2>3, <2>4 DEF TypeOK
<1>11. CASE DispatchNothing
  BY <1>11
  DEF DispatchNothing, hostVars, emuVars, boundVars, TypeOK, HostType, WaitType, LineType, EmuType, StdinType, BookType
<1>12. CASE DispatchContinue
  <2>1. HostType' /\ WaitType'
    BY <1>12 DEF DispatchContinue, FinishContinue, TypeOK, HostType, WaitType
  <2>2. LineType' /\ EmuType'
    BY <1>12 DEF DispatchContinue, TypeOK, LineType, EmuType
  <2>3. StdinType'
    BY <1>12 DEF DispatchContinue, FinishContinue, StdinEntries, TypeOK, StdinType
  <2>4. BookType'
    BY <1>12 DEF DispatchContinue, boundVars, TypeOK, BookType
  <2> QED BY <2>1, <2>2, <2>3, <2>4 DEF TypeOK
<1>13. CASE DispatchCommand
  <2>1. HostType' /\ WaitType'
    BY <1>13 DEF DispatchCommand, TypeOK, HostType, WaitType
  <2>2. LineType' /\ EmuType'
    BY <1>13 DEF DispatchCommand, TypeOK, LineType, EmuType
  <2>3. StdinType'
    BY <1>13 DEF DispatchCommand, StdinEntries, TypeOK, StdinType, HostType
  <2>4. BookType'
    BY <1>13 DEF DispatchCommand, boundVars, TypeOK, BookType
  <2> QED BY <2>1, <2>2, <2>3, <2>4 DEF TypeOK
<1>14. CASE CompleteCurrent
  <2>1. HostType'
    BY <1>14 DEF CompleteCurrent, TypeOK, HostType
  <2>2. WaitType'
    BY <1>14 DEF CompleteCurrent, TypeOK, WaitType
  <2>3. LineType'
    BY <1>14 DEF CompleteCurrent, TypeOK, LineType
  <2>4. EmuType' /\ StdinType'
    BY <1>14 DEF CompleteCurrent, TypeOK, EmuType, StdinType
  <2>5. BookType'
    <3>1. CASE Have
      <4>1. current.id \in Nat /\ raw \union err \subseteq Chunks
        BY <3>1, CurrentId DEF TypeOK, LineType
      <4>2. answer' = [id |-> current.id, lines |-> raw \union err, inTime |-> TRUE]
        BY <1>14, <3>1 DEF CompleteCurrent, Report
      <4> QED BY <4>1, <4>2, <1>14 DEF CompleteCurrent, boundVars, TypeOK, BookType
    <3>2. CASE ~Have
      BY <1>14, <3>2 DEF CompleteCurrent, boundVars, TypeOK, BookType
    <3> QED BY <3>1, <3>2
  <2> QED BY <2>1, <2>2, <2>3, <2>4, <2>5 DEF TypeOK
<1>15. CASE CommandTimeout
  <2>1. HostType'
    BY <1>15 DEF CommandTimeout, TypeOK, HostType
  <2>2. WaitType'
    BY <1>15 DEF CommandTimeout, TypeOK, WaitType
  <2>3. LineType'
    BY <1>15 DEF CommandTimeout, emuVars, TypeOK, LineType
  <2>4. EmuType' /\ StdinType'
    BY <1>15 DEF CommandTimeout, emuVars, TypeOK, EmuType, StdinType
  <2>5. BookType'
    BY CurrentId, <1>15 DEF CommandTimeout, Report, boundVars, TypeOK, BookType, LineType
  <2> QED BY <2>1, <2>2, <2>3, <2>4, <2>5 DEF TypeOK
<1>16. CASE EmuStop /\ ctl' \in Nat
  <2>1. HostType' /\ WaitType'
    BY <1>16 DEF EmuStop, hostVars, TypeOK, HostType, WaitType
  <2>2. LineType'
    BY ChunkType, <1>16 DEF EmuStop, Emit, hostVars, TypeOK, LineType, EmuType
  <2>3. EmuType'
    BY <1>16 DEF EmuStop, Emit, TypeOK, EmuType
  <2>4. StdinType' /\ BookType'
    BY <1>16 DEF EmuStop, boundVars, TypeOK, StdinType, BookType
  <2> QED BY <2>1, <2>2, <2>3, <2>4 DEF TypeOK
<1>17. CASE EmuPrompt
  <2>1. HostType' /\ WaitType'
    BY <1>17 DEF EmuPrompt, hostVars, TypeOK, HostType, WaitType
  <2>2. LineType'
    BY ChunkType, <1>17 DEF EmuPrompt, Emit, hostVars, TypeOK, LineType, EmuType
  <2>3. EmuType'
    BY <1>17 DEF EmuPrompt, Emit, TypeOK, EmuType
  <2>4. StdinType' /\ BookType'
    BY <1>17 DEF EmuPrompt, boundVars, TypeOK, StdinType, BookType
  <2> QED BY <2>1, <2>2, <2>3, <2>4 DEF TypeOK
<1>18. CASE EmuReadsContinue
  BY <1>18
  DEF EmuReadsContinue, hostVars, boundVars, TypeOK, HostType, WaitType, LineType, EmuType, StdinType, BookType
<1>19. CASE EmuReadsOver
  BY StdinHead, <1>19
  DEF EmuReadsOver, hostVars, boundVars, TypeOK, HostType, WaitType, LineType, EmuType, StdinType, BookType
<1>20. CASE EmuReadsCommand
  <2>1. HostType' /\ WaitType'
    BY <1>20 DEF EmuReadsCommand, hostVars, TypeOK, HostType, WaitType
  <2>2. LineType'
    BY StdinHead, ChunkType, <1>20 DEF EmuReadsCommand, Emit, hostVars, TypeOK, LineType
  <2>3. EmuType'
    BY StdinHead, <1>20 DEF EmuReadsCommand, Emit, TypeOK, EmuType
  <2>4. StdinType'
    BY StdinHead, <1>20 DEF EmuReadsCommand, TypeOK, StdinType
  <2>5. BookType'
    BY StdinHead, <1>20 DEF EmuReadsCommand, boundVars, TypeOK, BookType
  <2> QED BY <2>1, <2>2, <2>3, <2>4, <2>5 DEF TypeOK
<1>21. CASE EmuExits
  <2>1. HostType' /\ WaitType'
    BY <1>21 DEF EmuExits, hostVars, TypeOK, HostType, WaitType
  <2>2. LineType'
    BY <1>21 DEF EmuExits, hostVars, TypeOK, LineType
  <2>3. EmuType' /\ StdinType'
    BY <1>21 DEF EmuExits, TypeOK, EmuType, StdinType
  <2>4. BookType'
    BY <1>21 DEF EmuExits, boundVars, TypeOK, BookType
  <2> QED BY <2>1, <2>2, <2>3, <2>4 DEF TypeOK
<1>22. CASE UNCHANGED vars
  BY <1>22
  DEF vars, hostVars, emuVars, boundVars, TypeOK, HostType, WaitType, LineType, EmuType, StdinType, BookType
<1> QED
  <2>1. ProgramStops \/ PauseStops => EmuStop /\ ctl' \in Nat
    BY DEF ProgramStops, PauseStops, TypeOK, EmuType
  <2> QED BY <2>1, <1>1, <1>2, <1>3, <1>4, <1>5, <1>6, <1>7, <1>8, <1>9, <1>10,
             <1>11, <1>12, <1>13, <1>14, <1>15, <1>16, <1>17, <1>18, <1>19,
             <1>20, <1>21, <1>22 DEF Next, Host, Hatari

(* Every state of the transport and of the debugger it drives is well typed,*)
(* on both builds and whatever the timeouts do.                             *)
THEOREM TypeCorrect == Spec => []TypeOK
  BY InitTypeOK, TypeStep, PTL DEF Spec
-----------------------------------------------------------------------------
LEMMA SeqOne == ASSUME NEW x PROVE Append(<<>>, x) = <<x>> /\ Tail(<<x>>) = <<>> /\ Head(<<x>>) = x
  OBVIOUS
LEMMA SeqTwo ==
  ASSUME NEW x, NEW y
  PROVE  Append(<<x>>, y) = <<x, y>> /\ Tail(<<x, y>>) = <<y>> /\ Head(<<x, y>>) = x /\ <<x,y>>[1] = x
<1>1. <<x>> \in Seq({x, y}) /\ <<x, y>> \in Seq({x, y})
  OBVIOUS
<1>2. Append(<<x>>, y) \in Seq({x, y}) /\ Len(Append(<<x>>, y)) = 2 
  BY <1>1
<1>3. \A i \in 1..2 : Append(<<x>>, y)[i] = <<x, y>>[i]
  BY <1>1
<1>4. Append(<<x>>, y) = <<x, y>>
  BY <1>1, <1>2, <1>3, SeqEqual
<1>5. Tail(<<x, y>>) = <<y>> /\ Head(<<x, y>>) = x
  OBVIOUS
<1> QED BY <1>4, <1>5

-----------------------------------------------------------------------------
(* What one step of Hatari does to the phase it is in.                      *)

(* A program that stops was running for the one prompt still to come.       *)
LEMMA StopPhase ==
  ASSUME EmuStop, PromptOnStderr = FALSE, TypeOK
  PROVE /\ ~Idle /\ Busy => Busy' /\ emu' = "print"
        /\ BusyThenContinue => BusyThenContinue'
        /\ \A c : ~Sent(c)
  BY DEF EmuStop, Emit, Idle, Busy, BusyThenContinue, Sent, TypeOK, EmuType
LEMMA PromptPhase ==
  ASSUME EmuPrompt, PromptOnStderr = FALSE, TypeOK
  PROVE /\ ~Idle /\ Busy => Busy' /\ emu' = "prompt"
        /\ BusyThenContinue => BusyThenContinue'
        /\ \A c : ~Sent(c)
  BY DEF EmuPrompt, Emit, Idle, Busy, BusyThenContinue, Sent, TypeOK, EmuType

(* What Hatari finds at the head of stdin, when a Continue follows a command or not. *)
LEMMA ThenContinueHead ==
  ASSUME BusyThenContinue, emu = "prompt", stdin # <<>>, Head(stdin) # Continue
  PROVE  prompts = 0 /\ Tail(stdin) = <<Continue>>
<1>1. CASE SomeCommand /\ stdin = <<stdin[1], Continue>> /\ prompts = 0
  <2>1. PICK c : stdin = <<c, Continue>>
    BY <1>1
  <2>2. Tail(<<c, Continue>>) = <<Continue>>
    BY SeqTwo
  <2> QED BY <1>1, <2>1, <2>2
<1>2. CASE stdin = <<Continue>>
  BY <1>2, SeqOne
<1> QED BY <1>1, <1>2 DEF BusyThenContinue

LEMMA ThenContinueNext ==
  ASSUME BusyThenContinue, emu = "prompt", stdin # <<>>, Head(stdin) = Continue
  PROVE  prompts = 1 /\ Tail(stdin) = <<>>
<1>1. CASE SomeCommand /\ stdin = <<stdin[1], Continue>> /\ prompts = 0
  <2>1. PICK c \in Commands : stdin = <<c, Continue>>
    BY <1>1 DEF SomeCommand
  <2>2. Head(<<c, Continue>>) = c
    BY SeqTwo
  <2>3. c # Continue
    BY DEF Commands, Kinds, Continue
  <2> QED BY <2>1, <2>2, <2>3
<1>2. CASE stdin = <<Continue>>
  BY <1>2, SeqOne DEF BusyThenContinue, SomeCommand, Commands, Kinds, Continue
<1> QED BY <1>1, <1>2 DEF BusyThenContinue

LEMMA ContinuePhase ==
  ASSUME EmuReadsContinue
  PROVE /\ ~Idle /\ ~Busy
        /\ Sent(Continue) => Busy' 
        /\ BusyThenContinue => BusyThenContinue'
        /\ \A c \in Commands : ~Sent(c)
<1>1. \A c \in Commands : c # Continue
  BY DEF Commands, Kinds, Continue
<1>2. BusyThenContinue => BusyThenContinue'
  BY ThenContinueNext DEF EmuReadsContinue, BusyThenContinue
<1> QED BY <1>1, <1>2, SeqOne DEF EmuReadsContinue, Idle, Busy, Sent

LEMMA OverPhase ==
  ASSUME EmuReadsOver
  PROVE /\ ~Idle /\ ~Busy /\ ~Sent(Continue)
        /\ \A c \in Commands : Sent(c) => Busy' /\ emu' = "run" /\ job' = c.id
        /\ BusyThenContinue => BusyThenContinue'
<1>1. \A c \in Commands : Sent(c) => Busy' /\ emu' = "run" /\ job' = c.id
  BY SeqOne DEF EmuReadsOver, Busy, Sent
<1>2. BusyThenContinue => BusyThenContinue'
  BY ThenContinueHead DEF EmuReadsOver, BusyThenContinue, Continue
<1> QED BY <1>1, <1>2, SeqOne DEF EmuReadsOver, Idle, Busy, Sent, Continue
LEMMA CommandPhase ==
  ASSUME EmuReadsCommand, PromptOnStderr = FALSE, TypeOK
  PROVE /\ ~Idle /\ ~Busy /\ ~Sent(Continue)
        /\ \A c \in Commands : Sent(c) => Busy' /\ emu' = "print" /\ job' = c.id /\ err' = err \union {Chunk(c.id, 1)}
        /\ BusyThenContinue => BusyThenContinue'
<1>0. prompts' = prompts
  BY DEF EmuReadsCommand, Emit, TypeOK, EmuType
<1>1. \A c \in Commands : Sent(c) => Busy' /\ emu' = "print" /\ job' = c.id /\ err' = err \union {Chunk(c.id, 1)}
  BY <1>0, SeqOne DEF EmuReadsCommand, Emit, Busy, Sent
<1>2. BusyThenContinue => BusyThenContinue'
  BY <1>0, ThenContinueHead DEF EmuReadsCommand, BusyThenContinue, Continue
<1> QED BY <1>1, <1>2, SeqOne DEF EmuReadsCommand, Idle, Busy, Sent, Continue
-----------------------------------------------------------------------------
(* The accounting of prompts, step by step.                                 *)

(* The build and the timing the accounting holds for.                       *)
OnStdout == PromptOnStderr = FALSE /\ Timeouts # "racing"

Kept == Accounting /\ AnswerIsExact

LEMMA InitAccounting == Init => IInv
  BY InitTypeOK DEF Init, IInv, AnswerIsExact, Have

(* A new session owes nothing and its program is running. *)
LEMMA StartKeeps ==
  ASSUME OnStdout, IInv, Start, proc' = "running"
  PROVE  Kept'
<1> USE DEF OnStdout, Kept, IInv, Accounting, Waiting, Have, InFlight, Owed, Entering, AtRest,
            Banner, Drained
<1> QED BY DEF Start, ResetTransport, FreshProcess, Running, Serving, Busy, BusyThenContinue, Idle, Sent, SomeCommand,
               Commands, NoCmd, Continue, Response, Chunk, AnswerIsExact, TypeOK, WaitType, EmuType

(* A request changes nothing but the queue. *)
LEMMA EnqueueKeeps ==
  ASSUME OnStdout, IInv, Request, proc' = "running"
  PROVE  Kept'
<1> USE DEF OnStdout, Kept, IInv, Accounting, Waiting, Have, InFlight, Owed, Entering, AtRest,
            Banner, Drained
<1> QED BY DEF Request, Enqueue, emuVars, Running, Serving, Busy, BusyThenContinue, Idle, Sent, SomeCommand,
               Commands, NoCmd, Continue, Response, Chunk, AnswerIsExact, TypeOK, WaitType, EmuType

(* A pause line is no prompt. *)
LEMMA PauseKeeps ==
  ASSUME OnStdout, IInv, Pause, proc' = "running"
  PROVE  Kept'
<1> USE DEF OnStdout, Kept, IInv, Accounting, Waiting, Have, InFlight, Owed, Entering, AtRest,
            Banner, Drained
<1> QED BY DEF Pause, hostVars, Running, Serving, Busy, BusyThenContinue, Idle, Sent, SomeCommand,
               Commands, NoCmd, Continue, Response, Chunk, AnswerIsExact, TypeOK, WaitType, EmuType

(* The banner makes the entry prompt the one to wait for. *)
LEMMA ReadStderrKeeps ==
  ASSUME OnStdout, IInv, ReadStderr, proc' = "running"
  PROVE  Kept'
<1> USE DEF OnStdout, Kept, IInv, Accounting, Waiting, Have, InFlight, Owed, Entering, AtRest,
            Banner, Drained
<1> QED BY DEF ReadStderr, ConsumeLines, TakeErrPrompt, Running, Serving, Busy, BusyThenContinue, Idle, Sent, SomeCommand,
               Commands, NoCmd, Continue, Response, Chunk, AnswerIsExact, TypeOK, WaitType, EmuType

(* The prompt that is swallowed is the one that was owed. *)
LEMMA SwallowKeeps ==
  ASSUME OnStdout, IInv, ReadPrompt, SwallowOwed("loop"), proc' = "running"
  PROVE  Kept'
<1> USE DEF OnStdout, Kept, IInv, Accounting, Waiting, Have, InFlight, Owed, Entering, AtRest,
            Banner, Drained
<1> QED BY DEF ReadPrompt, OnPrompt, SwallowOwed, ConsumeLines, Running, Serving, Busy, BusyThenContinue, Idle, Sent, SomeCommand,
               Commands, NoCmd, Continue, Response, Chunk, AnswerIsExact, TypeOK, WaitType, EmuType

(* The prompt after the banner is the entry prompt. *)
LEMMA EntryKeeps ==
  ASSUME OnStdout, IInv, ReadPrompt, EntryPrompt, proc' = "running"
  PROVE  Kept'
<1> USE DEF OnStdout, Kept, IInv, Accounting, Waiting, Have, InFlight, Owed, Entering, AtRest,
            Banner, Drained
<1> QED BY DEF ReadPrompt, OnPrompt, EntryPrompt, Running, Serving, Busy, BusyThenContinue, Idle, Sent, SomeCommand,
               Commands, NoCmd, Continue, Response, Chunk, AnswerIsExact, TypeOK, WaitType, EmuType

(* The prompt read while a command is in flight is that command's. *)
LEMMA AnswerKeeps ==
  ASSUME OnStdout, IInv, ReadPrompt, AnswerPrompt("loop"), proc' = "running"
  PROVE  Kept'
<1> USE DEF OnStdout, Kept, IInv, Accounting, Waiting, Have, InFlight, Owed, Entering, AtRest,
            Banner, Drained
<1> QED BY DEF ReadPrompt, OnPrompt, AnswerPrompt, Running, Serving, Busy, BusyThenContinue, Idle, Sent, SomeCommand,
               Commands, NoCmd, Continue, Response, Chunk, AnswerIsExact, TypeOK, WaitType, EmuType

(* A prompt with nothing waited for is a stop. *)
LEMMA StopKeeps ==
  ASSUME OnStdout, IInv, ReadPrompt, StopPrompt("loop"), proc' = "running"
  PROVE  Kept'
<1> USE DEF OnStdout, Kept, IInv, Accounting, Waiting, Have, InFlight, Owed, Entering, AtRest,
            Banner, Drained
<1> QED BY DEF ReadPrompt, OnPrompt, StopPrompt, Running, Serving, Busy, BusyThenContinue, Idle, Sent, SomeCommand,
               Commands, NoCmd, Continue, Response, Chunk, AnswerIsExact, TypeOK, WaitType, EmuType

(* A dispatch that does nothing changes nothing. *)
LEMMA NothingKeeps ==
  ASSUME OnStdout, IInv, DispatchNothing, proc' = "running"
  PROVE  Kept'
<1> USE DEF OnStdout, Kept, IInv, Accounting, Waiting, Have, InFlight, Owed, Entering, AtRest,
            Banner, Drained
<1> QED BY DEF DispatchNothing, hostVars, emuVars, Running, Serving, Busy, BusyThenContinue, Idle, Sent, SomeCommand,
               Commands, NoCmd, Continue, Response, Chunk, AnswerIsExact, TypeOK, WaitType, EmuType

(* The response is whole when the settle timer fires. *)
LEMMA CompleteKeeps ==
  ASSUME OnStdout, IInv, CompleteCurrent, proc' = "running"
  PROVE  Kept'
<1> USE DEF OnStdout, Kept, IInv, Accounting, Waiting, Have, InFlight, Owed, Entering, AtRest,
            Banner, Drained
<1> QED BY DEF CompleteCurrent, Report, Running, Serving, Busy, BusyThenContinue, Idle, Sent, SomeCommand,
               Commands, NoCmd, Continue, Response, Chunk, AnswerIsExact, TypeOK, WaitType, EmuType

(* The program stops. *)
LEMMA EmuStopKeeps ==
  ASSUME OnStdout, IInv, EmuStop, proc' = "running"
  PROVE  Kept'
<1> USE DEF OnStdout, Kept, IInv, Accounting, Waiting, Have, InFlight, Owed, Entering, AtRest,
            Banner, Drained
<1> QED BY DEF EmuStop, Emit, hostVars, Running, Serving, Busy, BusyThenContinue, Idle, Sent, SomeCommand,
               Commands, NoCmd, Continue, Response, Chunk, AnswerIsExact, TypeOK, WaitType, EmuType

(* Hatari finishes its output and prompts. *)
LEMMA EmuPromptKeeps ==
  ASSUME OnStdout, IInv, EmuPrompt, proc' = "running"
  PROVE  Kept'
<1> USE DEF OnStdout, Kept, IInv, Accounting, Waiting, Have, InFlight, Owed, Entering, AtRest,
            Banner, Drained
<1> QED BY DEF EmuPrompt, Emit, hostVars, Running, Serving, Busy, BusyThenContinue, Idle, Sent, SomeCommand,
               Commands, NoCmd, Continue, Response, Chunk, AnswerIsExact, TypeOK, WaitType, EmuType

(* What is in the pipes survives the process. *)
LEMMA EmuExitsKeeps ==
  ASSUME OnStdout, IInv, EmuExits, proc' = "running"
  PROVE  Kept'
<1> USE DEF OnStdout, Kept, IInv, Accounting, Waiting, Have, InFlight, Owed, Entering, AtRest,
            Banner, Drained
<1> QED BY DEF EmuExits, hostVars, Running, Serving, Busy, BusyThenContinue, Idle, Sent, SomeCommand,
               Commands, NoCmd, Continue, Response, Chunk, AnswerIsExact, TypeOK, WaitType, EmuType

(* Before a dispatch stderr is empty, unless something is waited for.        *)
LEMMA DrainKeeps ==
  ASSUME OnStdout, IInv, DrainBeforeDispatch, proc' = "running"
  PROVE  Kept'
<1> SUFFICES ASSUME proc = "running", TypeOK, Accounting, AnswerIsExact PROVE Kept'
  BY DEF DrainBeforeDispatch, IInv, Have
<1> USE DEF OnStdout, Kept, Accounting, Waiting, Have, DrainBeforeDispatch,
            ConsumeLines, TakeErrPrompt
<1>0. AnswerIsExact'
  BY DEF AnswerIsExact
<1>1a. Waiting => banner = "read"
  BY DEF Banner, TypeOK, LineType
<1>1b. InFlight'
  BY <1>1a DEF InFlight, Serving, Busy, Idle, Sent
<1>1. Owed'
  BY <1>1a DEF Owed, Busy, BusyThenContinue, Sent, SomeCommand
<1>2. Entering' /\ AtRest'
  BY DEF Entering, Banner, AtRest, Busy, BusyThenContinue, Running, Idle, Sent, SomeCommand
<1>3. Banner'
  BY DEF Banner, AtRest, Idle
<1>4. Drained'
  <2>1. CASE banner = "unprinted"
    BY <2>1 DEF Banner, Drained
  <2>2. CASE banner # "unprinted"
    BY <2>2 DEF Drained, TypeOK, LineType
  <2> QED BY <2>1, <2>2
<1>5. (settling => Have)' /\ (cwi => stopped)'
  BY DEF Banner
<1> QED BY <1>0, <1>1b, <1>1, <1>2, <1>3, <1>4, <1>5

(* A Continue is written behind at most one unread prompt.                  *)
LEMMA ContinueBehind ==
  /\ Idle /\ stdin' = Append(stdin, Continue) /\ UNCHANGED <<emu, prompts>>
       => Sent(Continue)'
  /\ Busy /\ stdin' = Append(stdin, Continue) /\ UNCHANGED <<emu, prompts>>
       => BusyThenContinue'
  /\ SomeCommand /\ Sent(stdin[1]) /\ stdin' = Append(stdin, Continue)
     /\ UNCHANGED <<emu, prompts>>
       => BusyThenContinue'
<1>1. ASSUME Idle, stdin' = Append(stdin, Continue), UNCHANGED <<emu, prompts>>
      PROVE  Sent(Continue)'
  BY <1>1, SeqOne DEF Idle, Sent, Continue
<1>2. ASSUME Busy, stdin' = Append(stdin, Continue), UNCHANGED <<emu, prompts>>
      PROVE  BusyThenContinue'
  BY <1>2, SeqOne DEF Busy, BusyThenContinue
<1>3. ASSUME SomeCommand, Sent(stdin[1]), stdin' = Append(stdin, Continue),
             UNCHANGED <<emu, prompts>>
      PROVE  BusyThenContinue'
  <2>1. PICK c \in Commands : stdin = <<c>>
    BY <1>3 DEF SomeCommand, Sent
  <2>2. stdin' = <<c, Continue>> /\ <<c, Continue>>[1] = c
    BY <1>3, <2>1, SeqTwo
  <2>3. stdin' = <<stdin'[1], Continue>> /\ stdin' # <<>> /\ stdin'[1] \in Commands
    BY <2>2
  <2> QED BY <1>3, <2>3 DEF BusyThenContinue, SomeCommand, Sent
<1> QED BY <1>1, <1>2, <1>3

LEMMA ResumeKeeps ==
  ASSUME OnStdout, IInv, Resume, proc' = "running"
  PROVE  Kept'
<1> SUFFICES ASSUME proc = "running", TypeOK, Accounting, AnswerIsExact PROVE Kept'
  BY DEF Resume, IInv, Have
<1> USE DEF OnStdout, Kept, Accounting, Waiting, Have
<1>1. AnswerIsExact' /\ (settling => Have)' /\ (cwi => stopped)'
  BY DEF Resume, FinishContinue, AnswerIsExact
<1>2. banner = "read" /\ stopped /\ pc = "loop"
  BY DEF Resume, Banner, TypeOK, LineType
<1>3. Banner' /\ Drained'
  BY <1>2 DEF Resume, Banner, Drained
<1>4. CASE ~Have /\ FinishContinue
  <2>1. stdin' = Append(stdin, Continue) /\ UNCHANGED <<emu, prompts>>
    BY <1>4 DEF Resume, FinishContinue
  <2>2. ~stopped' /\ UNCHANGED <<current, owed, awaiting, settling>>
    BY <1>4 DEF Resume, FinishContinue
  <2>3. InFlight'
    BY <1>4, <2>2 DEF InFlight
  <2>4. Entering'
    BY <1>2, <2>1, <2>2, ContinueBehind DEF Entering
  <2>6. Owed'
    <3>1. owed > 0 => BusyThenContinue'
      BY <1>2, <2>1, ContinueBehind DEF Owed
    <3> QED BY <2>2, <3>1 DEF Owed
  <2>5. AtRest'
    <3>1. ~Waiting => Sent(Continue)'
      BY <1>2, <2>1, ContinueBehind DEF AtRest
    <3> QED BY <2>2, <3>1 DEF AtRest, Running
  <2> QED BY <1>1, <1>3, <2>3, <2>4, <2>5, <2>6
<1>5. CASE UNCHANGED <<stopped, stdin>>
  BY <1>1, <1>3, <1>5
  DEF Resume, InFlight, Owed, Entering, AtRest, Running, Serving, Busy, BusyThenContinue,
      Idle, Sent, SomeCommand
<1> QED BY <1>4, <1>5 DEF Resume

LEMMA DispatchContinueKeeps ==
  ASSUME OnStdout, IInv, DispatchContinue, proc' = "running"
  PROVE  Kept'
<1> SUFFICES ASSUME proc = "running", TypeOK, Accounting, AnswerIsExact PROVE Kept'
  BY DEF DispatchContinue, IInv, Have
<1> USE DEF OnStdout, Kept, Accounting, Waiting, Have
<1>1. ~Waiting /\ stopped /\ Idle /\ banner = "read"
  BY DEF DispatchContinue, MayDispatch, AtRest, Drained, TypeOK, WaitType
<1>2. stdin' = Append(stdin, Continue) /\ UNCHANGED <<emu, prompts>> /\ ~stopped' /\ ~cwi'
      /\ UNCHANGED <<current, owed, awaiting, settling, banner, answer>>
  BY DEF DispatchContinue, FinishContinue
<1>3. Sent(Continue)'
  BY <1>1, <1>2, ContinueBehind
<1>4. ~Waiting'
  BY <1>1, <1>2
<1>5. InFlight' /\ Owed' /\ Entering'
  BY <1>4 DEF InFlight, Owed, Entering
<1>6. AtRest'
  BY <1>2, <1>3 DEF AtRest, Running
<1>7. Banner' /\ Drained'
  BY <1>1, <1>2 DEF Banner, Drained
<1>8. AnswerIsExact'
  BY <1>2 DEF AnswerIsExact
<1> QED BY <1>1, <1>2, <1>5, <1>6, <1>7, <1>8

(* A command is written to an idle debugger, and stderr holds nothing of another. *)
LEMMA DispatchCommandKeeps ==
  ASSUME OnStdout, IInv, DispatchCommand, proc' = "running"
  PROVE  Kept'
<1> SUFFICES ASSUME proc = "running", TypeOK, Accounting, AnswerIsExact PROVE Kept'
  BY DEF DispatchCommand, IInv, Have
<1> USE DEF OnStdout, Kept, Accounting, Waiting, Have
<1>1. ~Waiting /\ stopped /\ Idle /\ banner = "read" /\ err = {} /\ ~settling
  BY DEF DispatchCommand, MayDispatch, AtRest, Drained, TypeOK, WaitType
<1>2. PICK c \in queue : current' = c /\ stdin' = Append(stdin, c)
  BY DEF DispatchCommand
<1>3. c \in Commands /\ c # NoCmd
  BY DEF TypeOK, HostType, Commands, Kinds, NoCmd
<1>4. UNCHANGED <<settling, owed, awaiting, stopped, cwi, emu, prompts, err, banner, answer>>
      /\ raw' = {}
  BY DEF DispatchCommand
<1>5. Sent(current)'
  BY <1>1, <1>2, <1>4, SeqOne DEF Idle, Sent
<1>6. InFlight'
  <2>1. Serving'
    BY <1>1, <1>4, <1>5 DEF Serving
  <2>2. owed' = 0 /\ ~awaiting' /\ stopped' /\ ~settling' /\ current' \in Commands
    BY <1>1, <1>2, <1>3, <1>4 DEF TypeOK, WaitType
  <2> QED BY <2>1, <2>2 DEF InFlight
<1>7. Owed' /\ Entering' /\ AtRest'
  BY <1>1, <1>2, <1>3, <1>4 DEF Owed, Entering, AtRest
<1>8. Banner' /\ Drained'
  BY <1>1, <1>2, <1>3, <1>4 DEF Banner, Drained
<1>9. AnswerIsExact' /\ ~settling' /\ (cwi => stopped)'
  BY <1>1, <1>4 DEF AnswerIsExact
<1> QED BY <1>6, <1>7, <1>8, <1>9

(* The command that times out has one prompt to come: the one that is owed. *)
LEMMA TimeoutKeeps ==
  ASSUME OnStdout, IInv, CommandTimeout, proc' = "running"
  PROVE  Kept'
<1> SUFFICES ASSUME proc = "running", TypeOK, Accounting, AnswerIsExact PROVE Kept'
  BY DEF CommandTimeout, IInv, Have
<1> USE DEF OnStdout, Kept, Accounting, Waiting, Have
<1>1. Have /\ ~settling /\ owed = 0 /\ ~awaiting /\ stopped /\ Serving /\ current \in Commands
  BY DEF CommandTimeout, InFlight, TimeoutsAssumption
<1>2. owed' = 1 /\ ~Have' /\ ~settling' /\ UNCHANGED <<awaiting, stopped, cwi, emuVars>>
  BY <1>1 DEF CommandTimeout
<1>3. Busy \/ (SomeCommand /\ Sent(stdin[1]))
  <2>1. CASE Sent(current)
    <3>1. stdin[1] = current /\ stdin # <<>>
      BY <2>1 DEF Sent
    <3> QED BY <1>1, <2>1, <3>1 DEF SomeCommand
  <2> QED BY <1>1, <2>1 DEF Serving
<1>4. (Busy \/ (SomeCommand /\ Sent(stdin[1])))'
  BY <1>2, <1>3 DEF emuVars, Busy, Sent, SomeCommand
<1>5. raw \subseteq Response(current.id)
  BY <1>1 DEF Serving, Response
<1>6. AnswerIsExact'
  BY <1>5 DEF CommandTimeout, Report, AnswerIsExact
<1>7. banner = "read"
  BY <1>1 DEF Banner
<1> QED
  BY <1>1, <1>2, <1>4, <1>6, <1>7 DEF InFlight, Owed, Entering, AtRest, Banner, Drained, emuVars

(* A Continue that is read was the last thing written, and the program runs. *)
LEMMA EmuReadsContinueKeeps ==
  ASSUME OnStdout, IInv, EmuReadsContinue, proc' = "running"
  PROVE  Kept'
<1> SUFFICES ASSUME proc = "running", TypeOK, Accounting, AnswerIsExact PROVE Kept'
  BY DEF EmuReadsContinue, IInv, Have
<1> USE DEF OnStdout, Kept, Accounting, Waiting, Have
<1>1. UNCHANGED <<pc, current, settling, raw, owed, awaiting, stopped, cwi, banner, answer>>
  BY DEF EmuReadsContinue, hostVars
<1>2. ~Idle /\ ~Busy /\ emu = "prompt"
  BY ContinuePhase DEF EmuReadsContinue
<1>3. InFlight'
  BY <1>1, <1>2, ContinuePhase DEF InFlight, Serving
<1>4. Owed'
  <2>1. owed > 0 => (stopped => Busy') /\ (~stopped => BusyThenContinue')
    BY <1>2, ContinuePhase DEF Owed, SomeCommand
  <2> QED BY <1>1, <2>1 DEF Owed
<1>5. Entering'
  <2>1. awaiting => ~stopped /\ BusyThenContinue'
    BY <1>2, ContinuePhase DEF Entering
  <2> QED BY <1>1, <2>1 DEF Entering
<1>6. AtRest'
  <2>1. ~Waiting => ~stopped /\ Busy'
    BY <1>2, ContinuePhase DEF AtRest, Running
  <2> QED BY <1>1, <2>1 DEF AtRest, Running
<1>7. banner = "read"
  <2>1. CASE banner = "pipe" /\ stopped
    BY <1>2, <2>1 DEF Banner, AtRest
  <2> QED BY <1>2, <2>1 DEF Banner, TypeOK, LineType
<1>8. Banner'
  BY <1>1, <1>7 DEF Banner
<1>9. Drained'
  BY <1>1, <1>2 DEF Drained, AtRest
<1>10. AnswerIsExact'
  BY <1>1 DEF AnswerIsExact
<1> QED BY <1>1, <1>3, <1>4, <1>5, <1>6, <1>8, <1>9, <1>10

(* A step over runs the program and its prompt comes when it stops. *)
LEMMA EmuReadsOverKeeps ==
  ASSUME OnStdout, IInv, EmuReadsOver, proc' = "running"
  PROVE  Kept'
<1> SUFFICES ASSUME proc = "running", TypeOK, Accounting, AnswerIsExact PROVE Kept'
  BY DEF EmuReadsOver, IInv, Have
<1> USE DEF OnStdout, Kept, Accounting, Waiting, Have
<1>1. UNCHANGED <<pc, current, settling, raw, owed, awaiting, stopped, cwi, banner, answer>>
  BY DEF EmuReadsOver, hostVars
<1>2. ~Idle /\ ~Busy /\ emu = "prompt"
  BY OverPhase DEF EmuReadsOver
<1>3. InFlight'
  <2>1. CASE Have
    <3>1. ~settling /\ Sent(current) /\ current \in Commands /\ raw = {} /\ err = {}
      BY <1>2, <2>1 DEF InFlight, Serving
    <3>2. Busy' /\ emu' = "run" /\ job' = current.id /\ err' = {}
      BY <3>1, OverPhase DEF EmuReadsOver
    <3>3. Serving'
      BY <1>1, <3>1, <3>2 DEF Serving
    <3> QED BY <1>1, <2>1, <3>1, <3>3 DEF InFlight
  <2> QED BY <1>1, <2>1 DEF InFlight
<1>4. Owed'
  <2>1. owed > 0 => (stopped => Busy') /\ (~stopped => BusyThenContinue')
    BY <1>2, OverPhase DEF Owed, SomeCommand
  <2> QED BY <1>1, <2>1 DEF Owed
<1>5. Entering'
  <2>1. awaiting => ~stopped /\ BusyThenContinue'
    BY <1>2, OverPhase DEF Entering
  <2> QED BY <1>1, <2>1 DEF Entering
<1>6. AtRest'
  <2>1. ~Waiting => ~stopped /\ FALSE
    BY <1>2, OverPhase DEF AtRest, Running
  <2> QED BY <1>1, <2>1 DEF AtRest, Running
<1>7. banner = "read"
  <2>1. CASE banner = "pipe" /\ stopped
    BY <1>2, <2>1 DEF Banner, AtRest
  <2> QED BY <1>2, <2>1 DEF Banner, TypeOK, LineType
<1>8. Banner'
  BY <1>1, <1>7 DEF Banner
<1>9. Drained'
  BY <1>1, <1>2 DEF Drained, AtRest
<1>10. AnswerIsExact'
  BY <1>1 DEF AnswerIsExact
<1> QED BY <1>1, <1>3, <1>4, <1>5, <1>6, <1>8, <1>9, <1>10

(* A command that is read has its prompt to come. *)
LEMMA EmuReadsCommandKeeps ==
  ASSUME OnStdout, IInv, EmuReadsCommand, proc' = "running"
  PROVE  Kept'
<1> SUFFICES ASSUME proc = "running", TypeOK, Accounting, AnswerIsExact PROVE Kept'
  BY DEF EmuReadsCommand, IInv, Have
<1> USE DEF OnStdout, Kept, Accounting, Waiting, Have
<1>1. UNCHANGED <<pc, current, settling, raw, owed, awaiting, stopped, cwi, banner, answer>>
  BY DEF EmuReadsCommand, hostVars
<1>2. ~Idle /\ ~Busy /\ emu = "prompt"
  BY CommandPhase DEF EmuReadsCommand
<1>3. InFlight'
  <2>1. CASE Have
    <3>1. ~settling /\ Sent(current) /\ current \in Commands /\ raw = {} /\ err = {}
      BY <1>2, <2>1 DEF InFlight, Serving
    <3>2. Busy' /\ emu' = "print" /\ job' = current.id /\ err' = {Chunk(job', 1)}
      BY <3>1, CommandPhase
    <3>3. Serving'
      BY <1>1, <3>1, <3>2 DEF Serving
    <3> QED BY <1>1, <2>1, <3>1, <3>3 DEF InFlight
  <2> QED BY <1>1, <2>1 DEF InFlight
<1>4. Owed'
  <2>1. owed > 0 => (stopped => Busy') /\ (~stopped => BusyThenContinue')
    BY <1>2, CommandPhase DEF Owed, SomeCommand
  <2> QED BY <1>1, <2>1 DEF Owed
<1>5. Entering'
  <2>1. awaiting => ~stopped /\ BusyThenContinue'
    BY <1>2, CommandPhase DEF Entering
  <2> QED BY <1>1, <2>1 DEF Entering
<1>6. AtRest'
  <2>1. ~Waiting => ~stopped /\ FALSE
    BY <1>2, CommandPhase DEF AtRest, Running
  <2> QED BY <1>1, <2>1 DEF AtRest, Running
<1>7. banner = "read"
  <2>1. CASE banner = "pipe" /\ stopped
    BY <1>2, <2>1 DEF Banner, AtRest
  <2> QED BY <1>2, <2>1 DEF Banner, TypeOK, LineType
<1>8. Banner'
  BY <1>1, <1>7 DEF Banner
<1>9. Drained'
  BY <1>1, <1>2 DEF Drained, AtRest
<1>10. AnswerIsExact'
  BY <1>1 DEF AnswerIsExact
<1> QED BY <1>1, <1>3, <1>4, <1>5, <1>6, <1>8, <1>9, <1>10

-----------------------------------------------------------------------------
LEMMA Step == OnStdout /\ IInv /\ [Next]_vars => IInv'
<1> SUFFICES ASSUME OnStdout, IInv, [Next]_vars PROVE IInv'
  OBVIOUS
<1>1. TypeOK'
  BY TypeStep DEF IInv
<1>2. pc' \in {"loop", "drain", "dispatch"}
  BY DEF OnStdout, IInv, Next, Request, Host, Hatari, vars, Start, Stop, Enqueue, Resume,
         Pause, ProcessFinished, ReadStderr, TakeErrPrompt, ReadPrompt, ErrPrompt, OnPrompt,
         SwallowOwed, EntryPrompt, AnswerPrompt, StopPrompt,
         DrainBeforeDispatch, DispatchNothing, DispatchContinue, DispatchCommand,
         CompleteCurrent, CommandTimeout, ProgramStops, PauseStops, EmuStop, EmuPrompt,
         EmuReadsContinue, EmuReadsOver, EmuReadsCommand, EmuExits
<1>3. CASE UNCHANGED vars
  BY <1>1, <1>2, <1>3
  DEF IInv, vars, hostVars, emuVars, Accounting, InFlight, Owed, Entering, AtRest, Banner,
      Drained, Waiting, Have, Serving, Running, Busy, BusyThenContinue, Idle, Sent,
      SomeCommand, AnswerIsExact
<1>4. CASE Next /\ proc' = "running"
  <2>1. ProgramStops \/ PauseStops => EmuStop
    BY DEF ProgramStops, PauseStops
  <2>2. ReadPrompt => OnPrompt("loop")
    BY DEF ReadPrompt
  <2>3. ~Stop /\ ~ProcessFinished /\ ~ErrPrompt
    BY <1>4 DEF IInv, Stop, ProcessFinished, ErrPrompt
  <2>4. Kept'
    BY <1>4, <2>1, <2>2, <2>3, StartKeeps, EnqueueKeeps, ResumeKeeps, PauseKeeps,
       ReadStderrKeeps, SwallowKeeps, EntryKeeps, AnswerKeeps, StopKeeps,
       DrainKeeps, NothingKeeps, DispatchContinueKeeps, DispatchCommandKeeps,
       CompleteKeeps, TimeoutKeeps, EmuStopKeeps, EmuPromptKeeps, EmuReadsContinueKeeps,
       EmuReadsOverKeeps, EmuReadsCommandKeeps, EmuExitsKeeps
    DEF Next, Host, Hatari, OnPrompt
  <2> QED BY <1>1, <1>2, <1>4, <2>4 DEF Kept, IInv
<1>5. CASE Next /\ proc' # "running"
  <2>1. CASE Stop \/ ProcessFinished
    BY <1>1, <1>2, <1>5, <2>1 DEF Stop, ProcessFinished, IInv, AnswerIsExact, Have
  <2>2. CASE ~Stop /\ ~ProcessFinished
    <3>1. proc' = proc /\ ~Have
      BY <1>5, <2>2
      DEF IInv, Next, Request, Host, Hatari, Start, Enqueue, Resume, Pause, ReadStderr,
          ReadPrompt, ErrPrompt, OnPrompt, DrainBeforeDispatch, DispatchNothing,
          DispatchContinue, DispatchCommand, CompleteCurrent, CommandTimeout, ProgramStops,
          PauseStops, EmuStop, EmuPrompt, EmuReadsContinue, EmuReadsOver, EmuReadsCommand,
          EmuExits
    <3>2. UNCHANGED <<current, answer>>
      BY <1>5, <2>2, <3>1
      DEF IInv, Next, Request, Host, Hatari, Start, Enqueue, Resume, Pause, ReadStderr,
          ReadPrompt, ErrPrompt, OnPrompt, DrainBeforeDispatch, DispatchNothing, MayDispatch,
          DispatchContinue, DispatchCommand, CompleteCurrent, CommandTimeout, ProgramStops,
          PauseStops, EmuStop, EmuPrompt, EmuReadsContinue, EmuReadsOver, EmuReadsCommand,
          EmuExits, hostVars
    <3> QED BY <1>1, <1>2, <1>5, <3>1, <3>2 DEF IInv, AnswerIsExact, Have
  <2> QED BY <2>1, <2>2
<1> QED BY <1>3, <1>4, <1>5

(* The inductive invariant holds in every state of every behaviour.         *)
THEOREM Invariance == OnStdout => (Spec => []IInv)
<1> SUFFICES ASSUME OnStdout PROVE Spec => []IInv
  OBVIOUS
<1>1. IInv /\ [Next]_vars => IInv'
  BY Step
<1> QED BY <1>1, InitAccounting, PTL DEF Spec

(* Every response commandFinished reports is the whole output of its own    *)
(* command and of no other.                                                 *)
THEOREM ResponsesAreExact == OnStdout => (Spec => []AnswerIsExact)
<1> SUFFICES ASSUME OnStdout PROVE Spec => []AnswerIsExact
  OBVIOUS
<1>1. IInv => AnswerIsExact
  BY DEF IInv
<1> QED BY <1>1, Invariance, PTL

(* An owed prompt is still to come: the queue it holds back will move.      *)
THEOREM OwedPrompts == OnStdout => (Spec => []OwedPromptIsToCome)
<1> SUFFICES ASSUME OnStdout PROVE Spec => []OwedPromptIsToCome
  OBVIOUS
<1>1. IInv => OwedPromptIsToCome
  <2> SUFFICES ASSUME IInv, owed > 0, proc = "running"
               PROVE  owed = 1 /\ (emu \in {"run", "print"} \/ stdin # <<>> \/ prompts > 0)
    BY DEF OwedPromptIsToCome
  <2>1. CASE stopped
    BY <2>1 DEF IInv, Accounting, Owed, Busy, SomeCommand
  <2>2. CASE ~stopped
    BY <2>2 DEF IInv, Accounting, Owed, BusyThenContinue, SomeCommand
  <2> QED BY <2>1, <2>2
<1> QED BY <1>1, Invariance, PTL

(* With nothing in flight and nothing unread, the host knows whether the    *)
(* program is stopped.                                                      *)
THEOREM StopView == OnStdout => (Spec => []StopViewIsTrue)
<1> SUFFICES ASSUME OnStdout PROVE Spec => []StopViewIsTrue
  OBVIOUS
<1>1. IInv => StopViewIsTrue
  <2> SUFFICES ASSUME IInv, Quiet, emu # "print" PROVE stopped <=> emu = "prompt"
    BY DEF StopViewIsTrue
  <2>1. CASE awaiting
    BY <2>1 DEF IInv, Accounting, Entering, Quiet, Busy, BusyThenContinue, TypeOK, EmuType
  <2>2. CASE ~awaiting
    BY <2>2 DEF IInv, Accounting, AtRest, Waiting, Quiet, Running, Busy, Idle, Sent
  <2> QED BY <2>1, <2>2
<1> QED BY <1>1, Invariance, PTL

(* A command is written only to a debugger that is blocked at its prompt.   *)
THEOREM CommandsMeetPrompts == OnStdout => (Spec => CommandMeetsPrompt)
<1> SUFFICES ASSUME OnStdout PROVE Spec => CommandMeetsPrompt
  OBVIOUS
<1>1. IInv /\ [Next]_vars =>
        [current = NoCmd /\ current' # NoCmd => emu = "prompt" /\ stdin = <<>>]_vars
  <2> SUFFICES ASSUME IInv, Next, current = NoCmd, current' # NoCmd
               PROVE  emu = "prompt" /\ stdin = <<>>
    OBVIOUS
  <2>1. DispatchCommand
    BY DEF Next, Request, Host, Hatari, Start, ResetTransport, Stop, Enqueue, Resume, Pause,
           ProcessFinished, ReadStderr, ReadPrompt, ErrPrompt, OnPrompt, SwallowOwed,
           EntryPrompt, AnswerPrompt, StopPrompt, DrainBeforeDispatch,
           DispatchNothing, DispatchContinue, CompleteCurrent, CommandTimeout,
           ProgramStops, PauseStops, EmuStop, EmuPrompt, EmuReadsContinue, EmuReadsOver,
           EmuReadsCommand, EmuExits, hostVars
  <2> QED BY <2>1 DEF DispatchCommand, MayDispatch, IInv, Accounting, AtRest, Waiting, Idle,
                      TypeOK, WaitType
<1> QED BY <1>1, Invariance, PTL DEF Spec, CommandMeetsPrompt

-----------------------------------------------------------------------------
(* The arms a Continue must not overtake.                                   *)

LEMMA AliveRunsStep ==
  ASSUME AliveRuns, [Next]_vars
  PROVE  AliveRuns'
<1> USE DEF AliveRuns
<1>1. CASE Start \/ Stop
  BY <1>1 DEF Start, Stop
<1>2. CASE Request \/ Resume \/ Pause
  BY <1>2 DEF Request, Enqueue, Resume, Pause, emuVars
<1>3. CASE Host
  <2>1. CASE ProcessFinished
    BY <2>1 DEF ProcessFinished
  <2>2. CASE ReadPrompt \/ ErrPrompt
    BY <2>2 DEF ReadPrompt, ErrPrompt, OnPrompt
  <2>3. CASE ReadStderr \/ DrainBeforeDispatch \/ DispatchNothing \/ DispatchContinue
    BY <2>3 DEF ReadStderr, DrainBeforeDispatch, DispatchNothing, DispatchContinue, emuVars
  <2>4. CASE DispatchCommand \/ CompleteCurrent \/ CommandTimeout
    BY <2>4 DEF DispatchCommand, CompleteCurrent, CommandTimeout, emuVars
  <2> QED BY <1>3, <2>1, <2>2, <2>3, <2>4 DEF Host
<1>4. CASE Hatari
  BY <1>4 DEF Hatari, ProgramStops, PauseStops, EmuStop, EmuPrompt, EmuReadsContinue,
              EmuReadsOver, EmuReadsCommand, EmuExits
<1>5. CASE UNCHANGED vars
  BY <1>5 DEF vars, emuVars
<1> QED BY <1>1, <1>2, <1>3, <1>4, <1>5 DEF Next

(* What the debugger reads next, and what stays first when more is written. *)
LEMMA StdinFirst ==
  ASSUME StdinType, stdin # <<>>
  PROVE  /\ Head(stdin) = stdin[1]
         /\ \A e \in StdinEntries : Append(stdin, e) # <<>> /\ Append(stdin, e)[1] = stdin[1]
<1>1. stdin \in Seq(StdinEntries) /\ Len(stdin) \in Nat /\ Len(stdin) # 0
  BY DEF StdinType
<1>2. ASSUME NEW e \in StdinEntries
      PROVE  Append(stdin, e) # <<>> /\ Append(stdin, e)[1] = stdin[1]
  BY <1>1
<1> QED BY <1>1, <1>2

(* The arms stay where they are: nothing is taken from stdin or the queue.  *)
LEMMA ArmsAlone ==
  ASSUME ArmsAreAhead, proc' = "running" => proc = "running",
         UNCHANGED <<stdin, cwi, executed, due>>, queue \subseteq queue',
         current' \in {current, NoCmd}
  PROVE  ArmsAreAhead'
BY DEF ArmsAreAhead, Pending, SomeCommand, Have

LEMMA HostArms ==
  ASSUME OnStdout, IInv, ArmsAreAhead, Host
  PROVE  ArmsAreAhead'
<1>1. CASE ProcessFinished
  BY <1>1 DEF ProcessFinished, ArmsAreAhead
<1>2. CASE ReadPrompt \/ ErrPrompt
  <2>1. UNCHANGED <<proc, stdin, cwi, executed, due, queue, current>>
    BY <1>2 DEF ReadPrompt, ErrPrompt, OnPrompt, SwallowOwed, EntryPrompt, AnswerPrompt, StopPrompt
  <2> QED BY <2>1, ArmsAlone
<1>3. CASE ReadStderr \/ DrainBeforeDispatch \/ DispatchNothing
  <2>1. UNCHANGED <<proc, stdin, cwi, executed, due, queue, current>>
    BY <1>3 DEF ReadStderr, DrainBeforeDispatch, DispatchNothing, hostVars, emuVars
  <2> QED BY <2>1, ArmsAlone
<1>4. CASE CompleteCurrent \/ CommandTimeout
  <2>1. UNCHANGED <<proc, stdin, cwi, executed, due, queue>> /\ current' \in {current, NoCmd}
    BY <1>4 DEF CompleteCurrent, CommandTimeout, emuVars
  <2> QED BY <2>1, ArmsAlone
<1>5. CASE DispatchContinue
  <2>1. /\ queue = {} /\ ~Have /\ proc = "running" /\ stdin' = Append(stdin, Continue)
        /\ UNCHANGED <<current, executed, due>>
    BY <1>5 DEF DispatchContinue, MayDispatch, FinishContinue
  <2>2. ASSUME NEW a, Pending(a)
        PROVE  Pending(a)'
    <3>1. stdin # <<>> /\ StdinType /\ Continue \in StdinEntries
      BY <2>2 DEF Pending, SomeCommand, IInv, TypeOK, StdinEntries
    <3>2. stdin' # <<>> /\ stdin'[1] = stdin[1]
      BY <2>1, <3>1, StdinFirst
    <3> QED BY <2>2, <3>2 DEF Pending, SomeCommand
  <2>3. ~Have'
    BY <2>1 DEF Have
  <2> QED BY <2>1, <2>2, <2>3 DEF ArmsAreAhead
<1>6. CASE DispatchCommand
  <2>1. PICK c \in queue : /\ current' = c /\ queue' = queue \ {c}
                           /\ stdin' = Append(stdin, c)
    BY <1>6 DEF DispatchCommand
  <2>2. /\ stopped /\ ~Have /\ ~awaiting /\ owed = 0 /\ proc = "running"
        /\ UNCHANGED <<proc, cwi, executed, due>>
    BY <1>6 DEF DispatchCommand, MayDispatch
  <2>3. stdin = <<>> /\ c \in Commands
    BY <2>1, <2>2 DEF IInv, Accounting, AtRest, Waiting, Idle, TypeOK, HostType
  <2>4. stdin' = <<c>> /\ stdin' # <<>> /\ stdin'[1] = c
    BY <2>1, <2>3
  <2>5. Keeps(c) => Pending(c.id)'
    BY <2>3, <2>4 DEF Pending, SomeCommand
  <2>6. \A a : ~Pending(a)
    BY <2>3 DEF Pending, SomeCommand
  <2>7. ASSUME NEW a \in due
        PROVE  \/ a \in executed \/ Pending(a)'
               \/ cwi /\ \E d \in queue' : Keeps(d) /\ d.id = a
    <3>1. a \in executed \/ (cwi /\ \E d \in queue : Keeps(d) /\ d.id = a)
      BY <2>2, <2>6 DEF ArmsAreAhead
    <3>2. ASSUME NEW d \in queue, Keeps(d), d.id = a, cwi
          PROVE  Pending(a)' \/ \E e \in queue' : Keeps(e) /\ e.id = a
      BY <2>1, <2>5, <3>2
    <3> QED BY <2>2, <3>1, <3>2
  <2> QED BY <2>1, <2>2, <2>5, <2>7 DEF ArmsAreAhead
<1> QED BY <1>1, <1>2, <1>3, <1>4, <1>5, <1>6 DEF Host

LEMMA HatariArms ==
  ASSUME OnStdout, IInv, ArmsAreAhead, Hatari
  PROVE  ArmsAreAhead'
<1>1. CASE ProgramStops \/ PauseStops \/ EmuPrompt \/ EmuExits
  <2>1. UNCHANGED <<proc, stdin, cwi, executed, due, queue, current>>
    BY <1>1 DEF ProgramStops, PauseStops, EmuStop, EmuPrompt, EmuExits, hostVars
  <2> QED BY <2>1, ArmsAlone
<1>2. CASE EmuReadsContinue \/ EmuReadsOver
  <2>1. /\ stdin # <<>> /\ (Head(stdin) = Continue \/ Head(stdin).kind = "over")
        /\ UNCHANGED <<proc, cwi, executed, due, queue, current>>
    BY <1>2 DEF EmuReadsContinue, EmuReadsOver, hostVars
  <2>2. Head(stdin) = stdin[1]
    BY <2>1, StdinFirst DEF IInv, TypeOK
  <2>3. \A a : ~Pending(a)
    BY <2>1, <2>2 DEF Pending, Keeps, Continue
  <2> QED BY <2>1, <2>3 DEF ArmsAreAhead, Have
<1>3. CASE EmuReadsCommand
  <2>1. /\ stdin # <<>>
        /\ executed' = executed \union (IF Keeps(Head(stdin)) THEN {Head(stdin).id} ELSE {})
        /\ UNCHANGED <<proc, cwi, due, queue, current>>
    BY <1>3 DEF EmuReadsCommand, hostVars
  <2>2. Head(stdin) = stdin[1]
    BY <2>1, StdinFirst DEF IInv, TypeOK
  <2>3. \A a : Pending(a) => a \in executed'
    BY <2>1, <2>2 DEF Pending
  <2> QED BY <2>1, <2>3 DEF ArmsAreAhead, Have
<1> QED BY <1>1, <1>2, <1>3 DEF Hatari

LEMMA ArmsStep ==
  ASSUME OnStdout, IInv, ArmsAreAhead, [Next]_vars
  PROVE  ArmsAreAhead'
<1>1. CASE Start
  <2>1. due' = {} /\ current' = NoCmd
    BY <1>1 DEF Start, ResetTransport, FreshProcess
  <2> QED BY <2>1 DEF ArmsAreAhead, Have
<1>2. CASE Stop
  BY <1>2 DEF Stop, ArmsAreAhead
<1>3. CASE Request \/ Pause
  <2>1. UNCHANGED <<proc, stdin, cwi, executed, due, current>> /\ queue \subseteq queue'
    BY <1>3 DEF Request, Enqueue, Pause, hostVars, emuVars
  <2> QED BY <2>1, ArmsAlone
<1>4. CASE Resume
  <2>1. /\ proc = "running" /\ UNCHANGED <<proc, current, executed>>
        /\ queue' = {c \in queue : Keeps(c)} /\ due' = ArmsInHand
    BY <1>4 DEF Resume
  <2>2. \A a \in due' : (\E c \in queue' : Keeps(c) /\ c.id = a) \/ (Keeps(current) /\ a = current.id)
    BY <2>1 DEF ArmsInHand
  <2>3. ~Keeps(NoCmd)
    BY DEF Keeps, NoCmd
  <2>4. CASE ~Have /\ queue' = {}
    BY <2>1, <2>2, <2>3, <2>4 DEF ArmsAreAhead, Have
  <2>5. CASE Have \/ queue' # {}
    <3>1. cwi' = TRUE /\ stdin' = stdin
      BY <1>4, <2>5 DEF Resume
    <3>2. Have /\ Keeps(current) => current.id \in executed \/ Pending(current.id)
      BY <2>1 DEF ArmsAreAhead
    <3> QED BY <2>1, <2>2, <2>3, <3>1, <3>2 DEF ArmsAreAhead, Have, Pending, SomeCommand
  <2> QED BY <2>4, <2>5
<1>5. CASE UNCHANGED vars
  <2>1. UNCHANGED <<proc, stdin, cwi, executed, due, queue, current>>
    BY <1>5 DEF vars, hostVars, emuVars
  <2> QED BY <2>1, ArmsAlone
<1> QED BY <1>1, <1>2, <1>3, <1>4, <1>5, HostArms, HatariArms DEF Next

(* When the debugger reads a Continue it has executed every arm that was in *)
(* hand when resume() asked for it.                                         *)
THEOREM ContinuesFollowTheirArms == OnStdout => (Spec => ArmsPrecedeContinue)
<1> SUFFICES ASSUME OnStdout PROVE Spec => ArmsPrecedeContinue
  OBVIOUS
<1>1. Init => AliveRuns /\ ArmsAreAhead
  BY DEF Init, AliveRuns, ArmsAreAhead
<1>2. IInv /\ AliveRuns /\ ArmsAreAhead /\ [Next]_vars => AliveRuns' /\ ArmsAreAhead'
  BY AliveRunsStep, ArmsStep
<1>3. IInv /\ AliveRuns /\ ArmsAreAhead /\ [Next]_vars
        => [EmuReadsContinue => due \subseteq executed]_vars
  <2> SUFFICES ASSUME IInv, AliveRuns, ArmsAreAhead, EmuReadsContinue, NEW a \in due
               PROVE  a \in executed
    OBVIOUS
  <2>1. alive /\ stdin # <<>> /\ Head(stdin) = Continue /\ emu = "prompt"
    BY DEF EmuReadsContinue
  <2>2. proc = "running"
    BY <2>1 DEF AliveRuns
  <2>3. stdin[1] = Continue
    BY <2>1, StdinFirst DEF IInv, TypeOK
  <2>4. Continue \notin Commands
    BY DEF Continue, Commands, Kinds
  <2>5. ~Pending(a)
    BY <2>3, <2>4 DEF Pending, SomeCommand
  <2>6. ~cwi
    <3> SUFFICES ASSUME stopped
                 PROVE  FALSE
      BY <2>2 DEF IInv, Accounting
    <3>1. ~Busy /\ ~Idle /\ \A c \in Commands : ~Sent(c)
      BY <2>1, <2>3, <2>4 DEF Busy, Idle, Sent
    <3>2. CASE Have
      BY <2>2, <3>1, <3>2 DEF IInv, Accounting, InFlight, Serving
    <3>3. CASE ~Have /\ owed > 0
      BY <2>2, <3>1, <3>3 DEF IInv, Accounting, Owed, SomeCommand
    <3>4. CASE awaiting
      BY <2>2, <3>1, <3>4 DEF IInv, Accounting, Entering
    <3>5. CASE ~Have /\ ~(owed > 0) /\ ~awaiting
      BY <2>2, <3>1, <3>5 DEF IInv, Accounting, AtRest, Waiting
    <3> QED BY <3>2, <3>3, <3>4, <3>5
  <2> QED BY <2>2, <2>5, <2>6 DEF ArmsAreAhead
<1> QED BY <1>1, <1>2, <1>3, Invariance, PTL DEF Spec, ArmsPrecedeContinue
=============================================================================
