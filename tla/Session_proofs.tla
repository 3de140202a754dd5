--------------------------- MODULE Session_proofs ---------------------------
(***************************************************************************)
(* Proofs about Session, for every number of commands and every choice of  *)
(* what commands do and of what else may happen.                           *)
(***************************************************************************)
EXTENDS Session, TLAPS

(***************************************************************************)
(* Types.  A command that is about to be written is within the bound.      *)
(***************************************************************************)
TypeInv == TypeOK /\ (cpc = "send" => sent < MaxRequests)

LEMMA TypeInit == Init => TypeInv
  <1> SUFFICES ASSUME Init PROVE TypeInv
    OBVIOUS
  <1>1. 0 \in 0 .. MaxRequests
    BY SessionAssumption
  <1>2. /\ question \in Seq(0 .. MaxRequests)
        /\ answer \in Seq(0 .. MaxRequests)
        /\ shown \subseteq (0 .. MaxRequests) \X (0 .. MaxRequests)
    BY DEF Init
  <1> QED
    BY <1>1, <1>2 DEF Init, TypeInv, TypeOK, ClientPC, ThreadPC, OutputKind

LEMMA AppendType ==
  ASSUME NEW S, NEW s \in Seq(S), NEW e \in S
  PROVE  Append(s, e) \in Seq(S)
  OBVIOUS

(* write() adds one message to the question pipe, or none. *)
LEMMA WriteType ==
  ASSUME TypeInv, NEW message \in 0 .. MaxRequests, NEW next,
         Write(message, next)
  PROVE  /\ question' \in Seq(0 .. MaxRequests)
         /\ cpc' \in {next, "handler"}
  <1>1. question \in Seq(0 .. MaxRequests)
    BY DEF TypeInv, TypeOK
  <1>2. Append(question, message) \in Seq(0 .. MaxRequests)
    BY <1>1, AppendType
  <1> QED
    BY <1>1, <1>2 DEF Write

LEMMA AnswerType ==
  ASSUME TypeInv, NEW message \in 0 .. MaxRequests, NEW from, NEW to \in ThreadPC,
         Answer(message, from, to)
  PROVE  TypeInv'
  <1>1. Append(answer, message) \in Seq(0 .. MaxRequests)
    BY AppendType DEF TypeInv, TypeOK
  <1>2. CASE /\ ThreadGoto(from, to) /\ answer' = Append(answer, message)
             /\ UNCHANGED <<clientVars, question, request, output, held, daemon>>
    BY <1>1, <1>2 DEF TypeInv, TypeOK, ThreadGoto, clientVars
  <1>3. CASE SigPipe /\ UNCHANGED <<clientVars, question, answer, request,
                                  output, held>>
    BY <1>3 DEF TypeInv, TypeOK, SigPipe, ThreadPC, clientVars
  <1> QED
    BY <1>2, <1>3 DEF Answer

LEMMA TypeNext == TypeInv /\ [Next]_vars => TypeInv'
  <1> SUFFICES ASSUME TypeInv, [Next]_vars PROVE TypeInv'
    OBVIOUS
  <1> USE SessionAssumption DEF ClientPC, ThreadPC
  <1>a. Quit \in 0 .. MaxRequests /\ Notice \in 0 .. MaxRequests
    BY DEF Quit, Notice
  <1>1. CASE User
    <2>1. CASE TypeCommand
      BY <2>1 DEF TypeCommand, TypeInv, TypeOK, threadVars
    <2>2. CASE TypeQuit
      BY <1>a, <2>2, WriteType DEF TypeQuit, TypeInv, TypeOK, threadVars
    <2>3. CASE EndOfInput
      BY <2>3 DEF EndOfInput, TypeInv, TypeOK, threadVars
    <2> QED
      BY <1>1, <2>1, <2>2, <2>3 DEF User
  <1>2. CASE ClientStep
    <2>1. CASE SendCommand
      <3>1. sent + 1 \in 0 .. MaxRequests
        BY <2>1 DEF SendCommand, TypeInv, TypeOK
      <3> QED
        BY <2>1, <3>1, WriteType DEF SendCommand, TypeInv, TypeOK, threadVars
    <2>2. CASE Receive
      <3>1. \A i \in DOMAIN answer : answer[i] \in 0 .. MaxRequests
        BY DEF TypeInv, TypeOK
      <3>2. shown' \subseteq (0 .. MaxRequests) \X (0 .. MaxRequests)
        BY <2>2, <3>1 DEF Receive, TypeInv, TypeOK
      <3> QED
        BY <2>2, <3>2 DEF Receive, TypeInv, TypeOK, threadVars
    <2>3. CASE ClientTimeout
      BY <1>a, <2>3, WriteType DEF ClientTimeout, TypeInv, TypeOK, threadVars
    <2>4. CASE Dispose
      BY <2>4 DEF Dispose, TypeInv, TypeOK, threadVars
    <2> QED
      BY <1>2, <2>1, <2>2, <2>3, <2>4 DEF ClientStep
  <1>3. CASE Handle
    <2>1. question' \in Seq(0 .. MaxRequests)
      BY <1>a, <1>3, AppendType DEF Handle, TypeInv, TypeOK
    <2> QED
      BY <1>3, <2>1 DEF Handle, TypeInv, TypeOK, threadVars
  <1>4. CASE ThreadStep
    <2>1. CASE Ready \/ ReadEnd \/ Process \/ Close
      BY <2>1 DEF Ready, ReadEnd, Process, Close, ThreadGoto, TypeInv, TypeOK,
                  clientVars
    <2>2. CASE ReadQuit
      <3>1. question' \in Seq(0 .. MaxRequests)
        BY <2>2 DEF ReadQuit
      <3> QED
        BY <2>2, <3>1 DEF ReadQuit, ThreadGoto, TypeInv, TypeOK, clientVars
    <2>3. CASE ReadCommand
      <3>1. Head(question) \in 0 .. MaxRequests
        BY <2>3 DEF ReadCommand, TypeInv, TypeOK
      <3> QED
        BY <2>3, <3>1
           DEF ReadCommand, ThreadGoto, TypeInv, TypeOK, clientVars
    <2>4. CASE Reply
      <3>1. request \in 0 .. MaxRequests
        BY DEF TypeInv, TypeOK
      <3> QED
        BY <2>4, <3>1, AnswerType DEF Reply
    <2>5. CASE Notify \/ SignalFails
      BY <1>a, <2>5, AnswerType DEF Notify, SignalFails
    <2>6. CASE FirstTimeout \/ LaterTimeout
      BY <2>6 DEF FirstTimeout, LaterTimeout, ThreadGoto, TypeInv, TypeOK,
                  clientVars
    <2>7. CASE Signal
      BY <2>7 DEF Signal, ThreadGoto, ClientOpen, TypeInv, TypeOK
    <2> QED
      BY <1>4, <2>1, <2>2, <2>3, <2>4, <2>5, <2>6, <2>7 DEF ThreadStep
  <1>5. CASE UNCHANGED vars
    BY <1>5 DEF vars, clientVars, threadVars, TypeInv, TypeOK
  <1> QED
    BY <1>1, <1>2, <1>3, <1>4, <1>5 DEF Next

(* Every variable keeps its type: the messages in both pipes are commands  *)
(* that were typed, or one of the two fixed ones.                          *)
THEOREM TypeCorrect == Spec => []TypeOK
  <1>1. TypeInv => TypeOK
    BY DEF TypeInv
  <1> QED
    BY <1>1, TypeInit, TypeNext, PTL DEF Spec

-----------------------------------------------------------------------------
(***************************************************************************)
(* Answers and commands.  Messages are not numbered, so what keeps them    *)
(* together is that at most one command is under way: it is the last one   *)
(* sent, it is in the question pipe, or in the hands of the thread, or     *)
(* answered, and the client does not ask for a line meanwhile.             *)
(***************************************************************************)
Serving == tpc \in {"select_first", "read", "process", "reply", "select"}
Asking == cpc \in {"input", "send"}

(* A command that the thread may still read. *)
CommandUnread ==
  Serving =>
    \A i \in DOMAIN question : question[i] # Quit =>
      /\ question[i] = sent /\ ~Asking
      /\ answer = << >> /\ tpc \notin {"process", "reply"}

(* A command in the hands of the thread. *)
CommandRunning ==
  tpc \in {"process", "reply"} =>
    request = sent /\ request # Notice /\ answer = << >> /\ ~Asking

(* An answer that the client has not read.  A notice is the last message   *)
(* of a thread, which does not serve any more.                             *)
CommandAnswered ==
  \A i \in DOMAIN answer :
    /\ answer[i] # Notice => answer[i] = sent /\ ~Asking
    /\ answer[i] = Notice => ~Serving

PairInv ==
  TypeInv /\ CommandUnread /\ CommandRunning /\ CommandAnswered /\ AnswersPaired

LEMMA PairInit == Init => PairInv
  <1> SUFFICES ASSUME Init PROVE PairInv
    OBVIOUS
  <1>1. TypeInv
    BY TypeInit
  <1> QED
    BY <1>1 DEF Init, PairInv, CommandUnread, CommandRunning, CommandAnswered,
                AnswersPaired

(* A message at the end of a pipe leaves the others as they are. *)
LEMMA Appended ==
  ASSUME NEW S, NEW s \in Seq(S), NEW e \in S, NEW i \in DOMAIN Append(s, e)
  PROVE  \/ i \in DOMAIN s /\ Append(s, e)[i] = s[i]
         \/ i = Len(s) + 1 /\ Append(s, e)[i] = e
  OBVIOUS

(* A step of the client that writes "quit", or nothing, stops asking or    *)
(* goes on asking without a command under way.                             *)
LEMMA ClientQuiet ==
  ASSUME PairInv, UNCHANGED <<sent, shown, answer, threadVars>>,
         Asking' => Asking,
         question' \in {question, Append(question, Quit)}
  PROVE  CommandUnread' /\ CommandRunning' /\ CommandAnswered' /\ AnswersPaired'
  <1>1. CommandUnread'
    <2>1. \A i \in DOMAIN question' : question'[i] # Quit =>
            i \in DOMAIN question /\ question'[i] = question[i]
      <3>1. question \in Seq(0 .. MaxRequests) /\ Quit \in 0 .. MaxRequests
        BY SessionAssumption DEF PairInv, TypeInv, TypeOK, Quit
      <3> QED
        BY <3>1, Appended
    <2> QED
      BY <2>1 DEF PairInv, CommandUnread, Serving, threadVars
  <1>2. CommandRunning' /\ CommandAnswered' /\ AnswersPaired'
    BY DEF PairInv, CommandRunning, CommandAnswered, AnswersPaired, Serving,
           threadVars
  <1> QED
    BY <1>1, <1>2

(* A step of the thread that neither answers nor takes a command. *)
LEMMA ThreadQuiet ==
  ASSUME PairInv, UNCHANGED <<cpc, sent, shown, answer, request>>,
         question' \in {question, << >>},
         Serving' => Serving,
         tpc' \in {"process", "reply"} => tpc \in {"process", "reply"}
  PROVE  CommandUnread' /\ CommandRunning' /\ CommandAnswered' /\ AnswersPaired'
  <1>1. CommandUnread'
    BY DEF PairInv, CommandUnread, Serving, Asking
  <1>2. CommandRunning' /\ CommandAnswered' /\ AnswersPaired'
    BY DEF PairInv, CommandRunning, CommandAnswered, AnswersPaired, Asking
  <1> QED
    BY <1>1, <1>2

(* The last message of a thread. *)
LEMMA LastMessage ==
  ASSUME PairInv, NEW from, Answer(Notice, from, "close")
  PROVE  CommandUnread' /\ CommandRunning' /\ CommandAnswered' /\ AnswersPaired'
  <1>1. ~Serving' /\ UNCHANGED <<cpc, sent, shown>>
    BY DEF Answer, ThreadGoto, SigPipe, Serving, clientVars
  <1>2. answer' \in {answer, Append(answer, Notice)}
    BY DEF Answer
  <1>3. answer \in Seq(0 .. MaxRequests) /\ Notice \in 0 .. MaxRequests
    BY SessionAssumption DEF PairInv, TypeInv, TypeOK, Notice
  <1>4. CommandAnswered'
    BY <1>1, <1>2, <1>3, Appended DEF PairInv, CommandAnswered, Asking
  <1> QED
    BY <1>1, <1>4
       DEF PairInv, CommandUnread, CommandRunning, AnswersPaired, Serving

LEMMA PairNext == PairInv /\ [Next]_vars => PairInv'
  <1> SUFFICES ASSUME PairInv, [Next]_vars
               PROVE  /\ CommandUnread' /\ CommandRunning' /\ CommandAnswered'
                      /\ AnswersPaired'
    BY TypeNext DEF PairInv
  <1>t. /\ question \in Seq(0 .. MaxRequests) /\ answer \in Seq(0 .. MaxRequests)
        /\ sent \in 0 .. MaxRequests /\ MaxRequests \in Nat
    BY SessionAssumption DEF PairInv, TypeInv, TypeOK
  <1>1. CASE TypeCommand \/ EndOfInput \/ Dispose
    <2>1. Asking' => Asking
      BY <1>1 DEF TypeCommand, EndOfInput, Dispose, Asking
    <2> QED
      BY <1>1, <2>1, ClientQuiet DEF TypeCommand, EndOfInput, Dispose
  <1>2. CASE TypeQuit \/ ClientTimeout \/ Handle
    <2>1. ~Asking'
      BY <1>2 DEF TypeQuit, ClientTimeout, Handle, Write, Asking
    <2>2. question' \in {question, Append(question, Quit)}
      BY <1>2 DEF TypeQuit, ClientTimeout, Handle, Write
    <2> QED
      BY <1>2, <2>1, <2>2, ClientQuiet DEF TypeQuit, ClientTimeout, Handle
  <1>3. CASE SendCommand
    <2>1. /\ cpc = "send" /\ sent' = sent + 1
          /\ UNCHANGED <<shown, answer, threadVars>>
          /\ cpc' \in {"wait", "handler"}
          /\ \/ question' = Append(question, sent + 1)
             \/ question' = question /\ tpc = "ended"
      BY <1>3 DEF SendCommand, Write, ThreadOpen
    <2>2. tpc \notin {"process", "reply"}
      BY <2>1 DEF PairInv, CommandRunning, Asking
    <2>3. Serving => answer = << >>
      <3>1. \A i \in DOMAIN answer : answer[i] = Notice
        BY <2>1 DEF PairInv, CommandAnswered, Asking
      <3>2. Serving => DOMAIN answer = {}
        BY <3>1 DEF PairInv, CommandAnswered
      <3> QED
        BY <1>t, <3>2
    <2>4. Serving => \A i \in DOMAIN question : question[i] = Quit
      BY <2>1 DEF PairInv, CommandUnread, Asking
    <2>5. sent + 1 \in 0 .. MaxRequests
      BY <2>1, <1>t DEF PairInv, TypeInv
    <2>6. CommandUnread'
      <3>1. SUFFICES ASSUME Serving', NEW i \in DOMAIN question',
                            question'[i] # Quit
                     PROVE  /\ question'[i] = sent' /\ ~Asking'
                            /\ answer' = << >>
                            /\ tpc' \notin {"process", "reply"}
        BY DEF CommandUnread
      <3>2. Serving /\ tpc' = tpc /\ tpc # "ended"
        BY <2>1, <3>1 DEF Serving, threadVars
      <3>3. question'[i] = sent + 1
        BY <1>t, <2>1, <2>4, <2>5, <3>1, <3>2, Appended
      <3> QED
        BY <2>1, <2>2, <2>3, <3>2, <3>3 DEF Asking
    <2>7. CommandRunning' /\ AnswersPaired'
      BY <2>1, <2>2 DEF CommandRunning, PairInv, AnswersPaired, threadVars
    <2>8. CommandAnswered'
      BY <2>1 DEF PairInv, CommandAnswered, Asking, Serving, threadVars
    <2> QED
      BY <2>6, <2>7, <2>8
  <1>4. CASE Receive
    <2>1. /\ answer # << >> \/ tpc = "ended"
          /\ answer' = << >>
          /\ shown' = shown \cup {<<sent, answer[i]>> : i \in DOMAIN answer}
          /\ UNCHANGED <<sent, question, threadVars>>
      BY <1>4 DEF Receive, ThreadOpen
    <2>2. AnswersPaired'
      BY <2>1 DEF PairInv, AnswersPaired, CommandAnswered
    <2>3. CommandUnread' /\ CommandRunning'
      BY <2>1 DEF PairInv, CommandUnread, CommandRunning, Serving, threadVars
    <2>4. CommandAnswered'
      BY <2>1 DEF CommandAnswered
    <2> QED
      BY <2>2, <2>3, <2>4
  <1>5. CASE ReadCommand
    <2>1. /\ tpc = "read" /\ tpc' = "process"
          /\ question # << >> /\ Head(question) # Quit /\ question' = << >>
          /\ request' = Head(question)
          /\ UNCHANGED <<cpc, sent, shown, answer>>
      BY <1>5 DEF ReadCommand, ThreadGoto, clientVars
    <2>2. 1 \in DOMAIN question /\ Head(question) = question[1]
      BY <1>t, <2>1
    <2>3. Head(question) = sent /\ ~Asking /\ answer = << >>
      BY <2>1, <2>2 DEF PairInv, CommandUnread, Serving
    <2>4. CommandRunning'
      BY <2>1, <2>3 DEF CommandRunning, Asking, Quit, Notice
    <2>5. CommandUnread' /\ CommandAnswered' /\ AnswersPaired'
      BY <2>1, <2>3
         DEF PairInv, CommandUnread, CommandAnswered, AnswersPaired
    <2> QED
      BY <2>4, <2>5
  <1>6. CASE Reply
    <2>1. CASE daemon' = "down"
      <3>1. /\ tpc' = "ended"
            /\ UNCHANGED <<cpc, sent, shown, answer, question, request>>
        BY <1>6, <2>1 DEF Reply, Answer, ThreadGoto, SigPipe, clientVars
      <3> QED
        BY <3>1, ThreadQuiet DEF Serving
    <2>2. CASE daemon' # "down"
      <3>1. /\ tpc = "reply" /\ tpc' = "select"
            /\ answer' = Append(answer, request)
            /\ UNCHANGED <<cpc, sent, shown, question>>
        BY <1>6, <2>2 DEF Reply, Answer, ThreadGoto, SigPipe, clientVars
      <3>2. request = sent /\ request # Notice /\ answer = << >> /\ ~Asking
        BY <3>1 DEF PairInv, CommandRunning
      <3>3. answer' = <<sent>>
        BY <3>1, <3>2
      <3>4. CommandAnswered'
        BY <3>1, <3>2, <3>3 DEF CommandAnswered, Asking
      <3>5. CommandUnread'
        BY <3>1 DEF PairInv, CommandUnread, Serving
      <3>6. CommandRunning' /\ AnswersPaired'
        BY <3>1 DEF PairInv, CommandRunning, AnswersPaired
      <3> QED
        BY <3>4, <3>5, <3>6
    <2> QED
      BY <2>1, <2>2
  <1>7. CASE Notify \/ SignalFails
    BY <1>7, LastMessage DEF Notify, SignalFails
  <1>8. CASE \/ Ready \/ ReadQuit \/ ReadEnd \/ Process
             \/ FirstTimeout \/ LaterTimeout \/ Signal \/ Close
    <2>1. /\ UNCHANGED <<cpc, sent, shown, answer, request>>
          /\ question' \in {question, << >>}
      BY <1>8 DEF Ready, ReadQuit, ReadEnd, Process, FirstTimeout,
                  LaterTimeout, Signal, Close, clientVars
    <2>2. /\ Serving' => Serving
          /\ tpc' \in {"process", "reply"} => tpc \in {"process", "reply"}
      BY <1>8 DEF Ready, ReadQuit, ReadEnd, Process, FirstTimeout,
                  LaterTimeout, Signal, Close, ThreadGoto, Serving
    <2> QED
      BY <2>1, <2>2, ThreadQuiet
  <1>9. CASE UNCHANGED vars
    BY <1>9 DEF vars, clientVars, threadVars, PairInv, CommandUnread,
                CommandRunning, CommandAnswered, AnswersPaired, Serving, Asking
  <1> QED
    BY <1>1, <1>2, <1>3, <1>4, <1>5, <1>6, <1>7, <1>8, <1>9
       DEF Next, User, ClientStep, ThreadStep

(* An answer displayed after a command is the answer to that command, for  *)
(* any number of commands and whoever gives up.                            *)
THEOREM AnswersBelong == Spec => []AnswersPaired
  <1>1. PairInv => AnswersPaired
    BY DEF PairInv
  <1> QED
    BY <1>1, PairInit, PairNext, PTL DEF Spec

-----------------------------------------------------------------------------
(***************************************************************************)
(* Leaving.  A client that has left quietly stays so: its thread reads the *)
(* "quit" or the end of file and closes, and says nothing on the way.      *)
(***************************************************************************)
LEMMA QuietStays == QuietlyLeft /\ [Next]_vars => QuietlyLeft'
  <1> SUFFICES ASSUME QuietlyLeft, [Next]_vars PROVE QuietlyLeft'
    OBVIOUS
  <1> USE DEF QuietlyLeft
  <1>1. ~User /\ ~ClientStep /\ ~Handle
    BY DEF User, TypeCommand, TypeQuit, EndOfInput, ClientStep, SendCommand,
           Receive, ClientTimeout, Dispose, Handle
  <1>2. CASE ThreadStep
    <2>1. ~ReadCommand
      BY DEF ReadCommand, ThreadGoto
    <2>2. ~Process /\ ~Reply /\ ~Notify /\ ~Signal /\ ~SignalFails
      BY DEF Process, Reply, Notify, Signal, SignalFails, Answer, ThreadGoto
    <2>3. ~FirstTimeout /\ ~LaterTimeout
      BY DEF FirstTimeout, LaterTimeout, Expired
    <2>4. CASE Ready \/ ReadQuit \/ ReadEnd \/ Close
      BY <2>4 DEF Ready, ReadQuit, ReadEnd, Close, ThreadGoto, clientVars
    <2> QED
      BY <1>2, <2>1, <2>2, <2>3, <2>4 DEF ThreadStep
  <1>3. CASE UNCHANGED vars
    BY <1>3 DEF vars, clientVars, threadVars
  <1> QED
    BY <1>1, <1>2, <1>3 DEF Next

(* A client that has left while its thread is in select(), about to read,  *)
(* closing or gone, with nothing unread or "quit" first, never costs the   *)
(* others their daemon.  Of a thread that is at work, about to write a     *)
(* notice or about to signal, this says nothing.                           *)
THEOREM QuietLeaveHarmless == Spec => QuietLeave
  <1>1. QuietlyLeft => daemon = "up"
    BY DEF QuietlyLeft
  <1> QED
    BY <1>1, QuietStays, PTL DEF Spec, QuietLeave
=============================================================================
