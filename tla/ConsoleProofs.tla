--------------------------- MODULE ConsoleProofs ---------------------------
(***************************************************************************)
(* For every set of lines and every interleaving of the two threads: they  *)
(* are never inside m_tokens together, and every line typed at the console *)
(* reaches ProcessCommandTokens once, in order and intact.                 *)
(***************************************************************************)
EXTENDS Console, SequenceTheorems, Foundations

(* What is in m_tokens when neither thread has anything to do with them.   *)
Base == IF executed = <<>> THEN leftover ELSE <<>>

(* Before Start() returns no thread runs.                                  *)
NotStarted ==
  ~started => /\ reader = "getline" /\ sim = "idle" /\ ~m_readyToRead
              /\ accepted = <<>> /\ executed = <<>>

(* m_readyToRead says whose turn it is: a thread inside m_tokens has it.   *)
Turns ==
  /\ ReaderInTokens => ~m_readyToRead
  /\ SimInTokens => m_readyToRead

(* On the reader's turn the tokens it has pushed and those it has not make *)
(* up its line, behind what was there.                                     *)
ReadersTurn ==
  (started /\ ~m_readyToRead) =>
    /\ Len(accepted) = Len(executed)
    /\ IF ReaderInTokens THEN m_tokens \o rest = Base \o line ELSE m_tokens = Base

ReaderLocals ==
  /\ reader = "check" => rest = line
  /\ reader = "ready" => rest = <<>> /\ m_tokens # <<>>

(* On the simulator's turn m_tokens is the last accepted line, until it    *)
(* has been processed and then cleared.                                    *)
SimulatorsTurn ==
  /\ (m_readyToRead /\ sim \in {"idle", "process", "stopped"}) =>
       /\ Len(accepted) = Len(executed) + 1
       /\ m_tokens = Expected(Len(accepted))
       /\ m_tokens # <<>>
  /\ sim \in {"clear", "reset"} => Len(accepted) = Len(executed) /\ executed # <<>>
  /\ sim = "reset" => m_tokens = <<>>

Executed == \A i \in 1 .. Len(executed) : executed[i] = Expected(i)

IInv == TypeOK /\ NotStarted /\ Turns /\ ReadersTurn /\ ReaderLocals /\ SimulatorsTurn /\ Executed

(* Pushing the head of what is left does not change the whole.             *)
LEMMA PushHead ==
  ASSUME NEW S, NEW a \in Seq(S), NEW r \in Seq(S), r # <<>>
  PROVE  Append(a, Head(r)) \o Tail(r) = a \o r
<1>1. Head(r) \in S /\ Tail(r) \in Seq(S)
  BY HeadTailProperties
<1>2. r = <<Head(r)>> \o Tail(r)
  <2>1. <<Head(r)>> \in Seq(S)
    BY <1>1
  <2>2. /\ <<Head(r)>> \o Tail(r) \in Seq(S)
        /\ Len(<<Head(r)>> \o Tail(r)) = Len(r)
    BY <1>1, <2>1, ConcatProperties, HeadTailProperties
  <2>3. ASSUME NEW i \in 1 .. Len(r) PROVE r[i] = (<<Head(r)>> \o Tail(r))[i]
    BY <1>1, <2>1, ConcatProperties, HeadTailProperties
  <2> QED BY <2>2, <2>3, SeqEqual
<1>3. Append(a, Head(r)) = a \o <<Head(r)>>
  BY <1>1, AppendIsConcat
<1>4. (a \o <<Head(r)>>) \o Tail(r) = a \o (<<Head(r)>> \o Tail(r))
  BY <1>1, ConcatAssociative
<1> QED BY <1>2, <1>3, <1>4

(* Doubling with the limit keeps the delay within its range.               *)
LEMMA DoubledDelayBounds ==
  ASSUME NEW d \in MIN_SCAN_DELAY .. MAX_SCAN_DELAY
  PROVE  DoubledDelay(d) \in MIN_SCAN_DELAY .. MAX_SCAN_DELAY
BY ConsoleBounds DEF DoubledDelay, MIN_SCAN_DELAY

(* What an event of the scenario is made of.                               *)
LEMMA EventProperties ==
  ASSUME NEW k \in Nat, NEW tokens \in Seq(Tokens), NEW number, NEW at \in Nat
  PROVE  /\ Event(k, tokens, number, at) \in Events
         /\ Event(k, tokens, number, at).line = k
         /\ Event(k, tokens, number, at).cmd = tokens
<1>1. Targets(tokens, number) \subseteq 0 .. TotalNodes - 1
  BY DEF Targets
<1> QED BY <1>1 DEF Event, Events

(* A word that spells no number still leaves something in its variable.    *)
LEMMA NumberOfProperties ==
  ASSUME NEW word
  PROVE  NumberOf(word) \subseteq Nat /\ NumberOf(word) # {}
BY TokensAssumption DEF NumberOf

(* The inductive invariant holds when the program starts,                  *)
LEMMA InitIInv == Init => IInv
<1> SUFFICES ASSUME Init PROVE IInv
  OBVIOUS
<1>1. \A S : <<>> \in Seq(S)
  BY EmptySeq
<1>2. /\ m_tokens \in Seq(Tokens) /\ line \in Seq(Tokens) /\ rest \in Seq(Tokens)
      /\ leftover \in Seq(Tokens) /\ script \in Seq(Lines)
      /\ scheduled \in Seq(Events)
      /\ accepted \in Seq(Seq(Tokens)) /\ executed \in Seq(Seq(Tokens))
  BY <1>1, Zenon DEF Init
<1>3. /\ m_scanDelay \in MIN_SCAN_DELAY .. MAX_SCAN_DELAY
      /\ m_notReadyCount \in 0 .. MAX_NOT_READY - 1
      /\ typed \in 0 .. MaxLines
      /\ time \in Nat
  BY ConsoleBounds DEF Init, MIN_SCAN_DELAY, MAX_NOT_READY
<1>4. TypeOK
  BY <1>2, <1>3, Zenon DEF Init, TypeOK
<1> QED BY <1>4 DEF Init, IInv, NotStarted, Turns, ReadersTurn, ReaderLocals, SimulatorsTurn,
                    Executed, ReaderInTokens, SimInTokens

(* and every access of either thread preserves it.                         *)
LEMMA NextIInv == IInv /\ [Next]_vars => IInv'
<1> SUFFICES ASSUME IInv, [Next]_vars PROVE IInv'
  OBVIOUS
<1> USE DEF startVars, readerVars, simThreadVars, shared
<1>1. ASSUME NEW l \in Lines, ScriptLine(l) PROVE IInv'
  <2>1. m_tokens \o l \in Seq(Tokens)
    BY <1>1, TokensAssumption, ConcatProperties DEF IInv, TypeOK
  <2> DEFINE tokens == m_tokens \o l
  <2>2. tokens \in Seq(Tokens)
    BY <2>1
  <2> HIDE DEF tokens
  <2>3. SkipLine(tokens) \/ RejectTime(tokens) \/ AdvanceTime(tokens) \/ AddCommand(tokens)
    BY <1>1 DEF ScriptLine, tokens
  <2>4. /\ time' \in Nat /\ m_tokens' \in Seq(Tokens) /\ quitting' \in BOOLEAN
        /\ scheduled' \in Seq(Events)
    <3>1. CASE SkipLine(tokens)
      BY <3>1 DEF SkipLine, IInv, TypeOK
    <3>2. CASE RejectTime(tokens)
      BY <2>2, <3>2 DEF RejectTime, IInv, TypeOK
    <3>3. CASE AdvanceTime(tokens)
      <4>1. PICK delta \in NumberOf(tokens[2]) : time' = time + delta
        BY <3>3 DEF AdvanceTime
      <4>2. delta \in Nat
        BY NumberOfProperties
      <4>3. time \in Nat
        BY DEF IInv, TypeOK
      <4>4. time' \in Nat
        BY <4>1, <4>2, <4>3
      <4> QED BY <3>3, <4>4 DEF AdvanceTime, IInv, TypeOK
    <3>4. CASE AddCommand(tokens)
      <4>1. \A n : Event(Len(script) + 1, tokens, n, time) \in Events
        BY <2>2, EventProperties DEF IInv, TypeOK
      <4>2. scheduled' \in Seq(Events)
        BY <3>4, <4>1, AppendProperties DEF AddCommand, IInv, TypeOK
      <4>3. quitting' \in BOOLEAN
        BY <3>4 DEF AddCommand, IInv, TypeOK
      <4> QED BY <3>4, <4>2, <4>3 DEF AddCommand, IInv, TypeOK
    <3> QED BY <2>3, <3>1, <3>2, <3>3, <3>4
  <2>5. script' \in Seq(Lines)
    BY <1>1, AppendProperties DEF ScriptLine, IInv, TypeOK
  <2>6. TypeOK'
    BY <1>1, <2>4, <2>5 DEF ScriptLine, IInv, TypeOK
  <2> QED BY <1>1, <2>6 DEF ScriptLine, IInv, NotStarted, Turns, ReadersTurn, ReaderLocals,
            SimulatorsTurn, Executed, ReaderInTokens, SimInTokens
<1>2. CASE StartThreads
  <2>1. TypeOK'
    BY <1>2 DEF StartThreads, IInv, TypeOK
  <2> QED BY <1>2, <2>1 DEF StartThreads, IInv, NotStarted, Turns, ReadersTurn, ReaderLocals,
            SimulatorsTurn, Executed, ReaderInTokens, SimInTokens, Base
<1>3. ASSUME NEW l \in TypedLines, GetLine(l) PROVE IInv'
  <2>1. TypeOK'
    BY <1>3, TokensAssumption, ConsoleBounds DEF GetLine, IInv, TypeOK
  <2> QED BY <1>3, <2>1 DEF GetLine, IInv, NotStarted, Turns, ReadersTurn, ReaderLocals,
            SimulatorsTurn, Executed, ReaderInTokens, SimInTokens, Base, Expected
<1>4. CASE CheckBusy
  <2>1. TypeOK'
    BY <1>4 DEF CheckBusy, TestBusy, IInv, TypeOK
  <2>2. ~m_readyToRead /\ started => m_tokens \o rest = Base \o line
    BY <1>4 DEF CheckBusy, IInv, ReadersTurn, ReaderLocals, ReaderInTokens
  <2> QED BY <1>4, <2>1, <2>2 DEF CheckBusy, TestBusy, IInv, NotStarted, Turns, ReadersTurn,
            ReaderLocals, SimulatorsTurn, Executed, ReaderInTokens, SimInTokens, Base, Expected
<1>5. CASE Tokenize
  <2>1. /\ Head(rest) \in Tokens /\ Tail(rest) \in Seq(Tokens)
        /\ Append(m_tokens, Head(rest)) \in Seq(Tokens)
    BY <1>5, HeadTailProperties, AppendProperties DEF Tokenize, IInv, TypeOK
  <2>2. TypeOK'
    BY <1>5, <2>1 DEF Tokenize, IInv, TypeOK
  <2>3. m_tokens' \o rest' = m_tokens \o rest
    BY <1>5, PushHead DEF Tokenize, IInv, TypeOK
  <2>4. ~m_readyToRead /\ ~SimInTokens
    BY <1>5 DEF Tokenize, IInv, Turns, ReaderInTokens
  <2> QED BY <1>5, <2>2, <2>3, <2>4 DEF Tokenize, IInv, NotStarted, Turns, ReadersTurn,
            ReaderLocals, SimulatorsTurn, Executed, ReaderInTokens, SimInTokens, Base, Expected
<1>6. CASE Tokenized
  <2>1. TypeOK'
    BY <1>6 DEF Tokenized, IInv, TypeOK
  <2>2. ~m_readyToRead /\ ~SimInTokens
    BY <1>6 DEF Tokenized, IInv, Turns, ReaderInTokens
  <2>3. m_tokens = Base \o line /\ m_tokens \o <<>> = m_tokens
    <3>1. m_tokens \o rest = Base \o line
      BY <1>6, <2>2 DEF Tokenized, IInv, ReadersTurn, ReaderInTokens, NotStarted
    <3>2. m_tokens \o <<>> = m_tokens
      BY ConcatEmptySeq DEF IInv, TypeOK
    <3> QED BY <1>6, <3>1, <3>2 DEF Tokenized
  <2>4. Base \in Seq(Tokens)
    BY DEF Base, IInv, TypeOK
  <2>5. m_tokens = <<>> => m_tokens = Base
    <3>1. \A b, l \in Seq(Tokens) : b \o l = <<>> => b = <<>>
      BY ConcatEqualIffEmpty
    <3>2. line \in Seq(Tokens)
      BY DEF IInv, TypeOK
    <3> QED BY <2>3, <2>4, <3>1, <3>2, Zenon
  <2> QED BY <1>6, <2>1, <2>2, <2>3, <2>5 DEF Tokenized, IInv, NotStarted, Turns, ReadersTurn,
            ReaderLocals, SimulatorsTurn, Executed, ReaderInTokens, SimInTokens, Base, Expected
<1>7. CASE SetReady
  <2>1. accepted' \in Seq(Seq(Tokens))
    BY <1>7, AppendProperties DEF SetReady, IInv, TypeOK
  <2>2. TypeOK'
    BY <1>7, <2>1 DEF SetReady, IInv, TypeOK
  <2>3. ~m_readyToRead /\ ~SimInTokens /\ started
    BY <1>7 DEF SetReady, IInv, Turns, ReaderInTokens, NotStarted
  <2>4. /\ Len(accepted') = Len(accepted) + 1
        /\ accepted'[Len(accepted) + 1] = line
        /\ \A i \in 1 .. Len(accepted) : accepted'[i] = accepted[i]
    BY <1>7, AppendProperties DEF SetReady, IInv, TypeOK
  <2>5. Len(accepted) = Len(executed)
    BY <2>3 DEF IInv, ReadersTurn
  <2>6. m_tokens = Base \o line
    <3>1. m_tokens \o rest = Base \o line
      BY <1>7, <2>3 DEF SetReady, IInv, ReadersTurn, ReaderInTokens
    <3>2. m_tokens \o <<>> = m_tokens
      BY ConcatEmptySeq DEF IInv, TypeOK
    <3> QED BY <1>7, <3>1, <3>2 DEF SetReady, IInv, ReaderLocals
  <2>7. m_tokens = Expected(Len(accepted))'
    <3>1. CASE executed = <<>>
      <4>1. Len(accepted') = 1
        BY <2>4, <2>5, <3>1
      <4> QED BY <1>7, <2>4, <2>6, <3>1, <4>1 DEF Expected, Base, SetReady
    <3>2. CASE executed # <<>>
      <4>1. Len(accepted') # 1 /\ accepted'[Len(accepted')] = line
        BY <2>4, <2>5, <3>2, EmptySeq DEF IInv, TypeOK
      <4>2. <<>> \o line = line
        BY ConcatEmptySeq DEF IInv, TypeOK
      <4> QED BY <2>6, <3>2, <4>1, <4>2 DEF Expected, Base
    <3> QED BY <3>1, <3>2
  <2>8. Executed'
    BY <1>7, <2>4, <2>5 DEF SetReady, IInv, Executed, Expected
  <2>9. SimulatorsTurn'
    BY <1>7, <2>3, <2>4, <2>5, <2>7 DEF SetReady, IInv, SimulatorsTurn, ReaderLocals, SimInTokens
  <2> QED BY <1>7, <2>2, <2>3, <2>8, <2>9 DEF SetReady, IInv, NotStarted, Turns, ReadersTurn,
            ReaderLocals, ReaderInTokens, SimInTokens
<1>8. CASE ScanNothing
  <2>1. TypeOK'
    BY <1>8, DoubledDelayBounds DEF ScanNothing, IInv, TypeOK, MAX_NOT_READY
  <2> QED BY <1>8, <2>1 DEF ScanNothing, IInv, NotStarted, Turns, ReadersTurn, ReaderLocals,
            SimulatorsTurn, Executed, ReaderInTokens, SimInTokens, Base, Expected
<1>9. CASE ScanReady
  <2>1. TypeOK'
    BY <1>9, ConsoleBounds DEF ScanReady, IInv, TypeOK, MIN_SCAN_DELAY
  <2> QED BY <1>9, <2>1 DEF ScanReady, IInv, NotStarted, Turns, ReadersTurn, ReaderLocals,
            SimulatorsTurn, Executed, ReaderInTokens, SimInTokens, Base, Expected
<1>10. CASE ProcessTokens
  <2>1. m_readyToRead /\ ~ReaderInTokens /\ started
    BY <1>10 DEF ProcessTokens, IInv, Turns, SimInTokens, NotStarted
  <2>2. /\ Len(accepted) = Len(executed) + 1
        /\ m_tokens = Expected(Len(accepted)) /\ m_tokens # <<>>
    BY <1>10, <2>1 DEF ProcessTokens, IInv, SimulatorsTurn
  <2>3. executed' = Append(executed, m_tokens)
    BY <1>10, <2>2 DEF ProcessTokens
  <2>4. /\ executed' \in Seq(Seq(Tokens)) /\ executed' # <<>>
        /\ Len(executed') = Len(executed) + 1
        /\ executed'[Len(executed) + 1] = m_tokens
        /\ \A i \in 1 .. Len(executed) : executed'[i] = executed[i]
    <3>1. executed \in Seq(Seq(Tokens)) /\ m_tokens \in Seq(Tokens)
      BY DEF IInv, TypeOK
    <3> DEFINE S == Seq(Tokens)
    <3>2. \A e \in Seq(S), t \in S :
             /\ Append(e, t) \in Seq(S) /\ Append(e, t) # <<>>
             /\ Len(Append(e, t)) = Len(e) + 1
             /\ Append(e, t)[Len(e) + 1] = t
             /\ \A i \in 1 .. Len(e) : Append(e, t)[i] = e[i]
      <4> HIDE DEF S
      <4> QED BY AppendProperties
    <3> QED BY <2>3, <3>1, <3>2, Zenon
  <2>5. quitting' \in BOOLEAN
    BY <1>10 DEF ProcessTokens
  <2>6. TypeOK'
    BY <1>10, <2>4, <2>5 DEF ProcessTokens, IInv, TypeOK
  <2>7. Executed'
    <3> SUFFICES ASSUME NEW i \in 1 .. Len(executed') PROVE executed'[i] = Expected(i)'
      BY DEF Executed
    <3>1. Expected(i)' = Expected(i)
      BY <1>10 DEF ProcessTokens, Expected
    <3>2. i \in 1 .. Len(executed) \/ i = Len(executed) + 1
      BY <2>4 DEF IInv, TypeOK
    <3> QED BY <2>2, <2>4, <3>1, <3>2 DEF IInv, Executed
  <2>8. SimulatorsTurn'
    BY <1>10, <2>2, <2>4 DEF ProcessTokens, SimulatorsTurn
  <2> QED BY <1>10, <2>1, <2>6, <2>7, <2>8 DEF ProcessTokens, IInv, NotStarted, Turns, ReadersTurn,
            ReaderLocals, ReaderInTokens, SimInTokens
<1>11. CASE ClearTokens
  <2>1. TypeOK'
    BY <1>11 DEF ClearTokens, IInv, TypeOK
  <2> QED BY <1>11, <2>1 DEF ClearTokens, IInv, NotStarted, Turns, ReadersTurn, ReaderLocals,
            SimulatorsTurn, Executed, ReaderInTokens, SimInTokens, Expected
<1>12. CASE ResetReady
  <2>1. TypeOK'
    BY <1>12 DEF ResetReady, IInv, TypeOK
  <2> QED BY <1>12, <2>1 DEF ResetReady, IInv, NotStarted, Turns, ReadersTurn, ReaderLocals,
            SimulatorsTurn, Executed, ReaderInTokens, SimInTokens, Base, Expected
<1>13. CASE Stop
  <2>1. TypeOK'
    BY <1>13 DEF Stop, IInv, TypeOK
  <2> QED BY <1>13, <2>1 DEF Stop, IInv, NotStarted, Turns, ReadersTurn, ReaderLocals,
            SimulatorsTurn, Executed, ReaderInTokens, SimInTokens, Base, Expected
<1>14. CASE UNCHANGED vars
  <2>1. TypeOK'
    BY <1>14 DEF vars, IInv, TypeOK
  <2> QED BY <1>14, <2>1 DEF vars, IInv, NotStarted, Turns, ReadersTurn, ReaderLocals,
            SimulatorsTurn, Executed, ReaderInTokens, SimInTokens, Base, Expected
<1> QED BY <1>1, <1>2, <1>3, <1>4, <1>5, <1>6, <1>7, <1>8, <1>9, <1>10, <1>11, <1>12, <1>13,
           <1>14 DEF Next, CommandHandler, ReadCommandTokens

(* So it holds throughout.                                                 *)
LEMMA Invariance == Spec => []IInv
BY InitIInv, NextIInv, PTL DEF Spec

(* TypeOK for every instance: the scan delay of ReadCommandTokens stays    *)
(* within its limits.                                                      *)
THEOREM TypeCorrect == Spec => []TypeOK
<1>1. IInv => TypeOK
  BY DEF IInv
<1> QED BY <1>1, Invariance, PTL

(* CommandHandler and ReadCommandTokens are never inside m_tokens          *)
(* together: m_readyToRead serves as a lock.                               *)
THEOREM Exclusion == Spec => []MutualExclusion
<1>1. IInv => MutualExclusion
  BY DEF IInv, Turns, MutualExclusion
<1> QED BY <1>1, Invariance, PTL

(* The lines accepted by CommandHandler are executed by ReadCommandTokens  *)
(* once each, in order, with their own tokens.                             *)
THEOREM Intact == Spec => []CommandsIntact
<1>1. ASSUME IInv PROVE CommandsIntact
  <2>1. Len(accepted) \in Nat /\ Len(executed) \in Nat
    BY <1>1 DEF IInv, TypeOK
  <2>2. Len(accepted) = Len(executed) \/ Len(accepted) = Len(executed) + 1
    BY <1>1 DEF IInv, TypeOK, NotStarted, ReadersTurn, SimulatorsTurn
  <2> QED BY <1>1, <2>1, <2>2 DEF IInv, Executed, CommandsIntact
<1> QED BY <1>1, Invariance, PTL

(* What Start() leaves in m_tokens between two lines of the scenario is a  *)
(* TIME line, and so is everything that is appended to it.                 *)
LeftoverIsTime == ~started => m_tokens = <<>> \/ IsTime(m_tokens)

(* One line of the scenario adds one event or none.                        *)
LEMMA ScriptLineStep ==
  ASSUME TypeOK, NEW l \in Lines, ScriptLine(l)
  PROVE  /\ ~started /\ ~started'
         /\ Len(script) \in Nat /\ Len(script') = Len(script) + 1
         /\ script'[Len(script) + 1] = l
         /\ \A k \in 1 .. Len(script) : script'[k] = script[k]
         /\ Len(scheduled) \in Nat
         /\ \/ UNCHANGED scheduled
            \/ \E number \in NumberOf((m_tokens \o l)[1]) :
                 /\ ~IsTime(m_tokens \o l)
                 /\ Schedules(m_tokens \o l, number)
                 /\ Len(scheduled') = Len(scheduled) + 1
                 /\ scheduled'[Len(scheduled) + 1]
                      = Event(Len(script) + 1, m_tokens \o l, number, time)
                 /\ \A i \in 1 .. Len(scheduled) : scheduled'[i] = scheduled[i]
<1> DEFINE tokens == m_tokens \o l
<1>1. /\ tokens \in Seq(Tokens) /\ script \in Seq(Lines) /\ scheduled \in Seq(Events)
      /\ Len(script) \in Nat /\ Len(scheduled) \in Nat /\ time \in Nat
  BY TokensAssumption, ConcatProperties DEF TypeOK
<1>2. /\ ~started /\ ~started' /\ script' = Append(script, l)
      /\ SkipLine(tokens) \/ RejectTime(tokens) \/ AdvanceTime(tokens) \/ AddCommand(tokens)
  BY DEF ScriptLine
<1> HIDE DEF tokens
<1>3. /\ Len(script') = Len(script) + 1 /\ script'[Len(script) + 1] = l
      /\ \A k \in 1 .. Len(script) : script'[k] = script[k]
  BY <1>1, <1>2, AppendProperties
<1> DEFINE Adding(number) ==
             /\ ~IsTime(tokens) /\ Schedules(tokens, number)
             /\ Len(scheduled') = Len(scheduled) + 1
             /\ scheduled'[Len(scheduled) + 1] = Event(Len(script) + 1, tokens, number, time)
             /\ \A i \in 1 .. Len(scheduled) : scheduled'[i] = scheduled[i]
<1>4. ASSUME AddCommand(tokens)
      PROVE  UNCHANGED scheduled \/ \E number \in NumberOf(tokens[1]) : Adding(number)
  <2>1. PICK number \in NumberOf(tokens[1]) :
               scheduled' = IF Schedules(tokens, number)
                            THEN Append(scheduled, Event(Len(script) + 1, tokens, number, time))
                            ELSE scheduled
    BY <1>4 DEF AddCommand
  <2>2. Event(Len(script) + 1, tokens, number, time) \in Events
    BY <1>1, EventProperties
  <2>3. ~IsTime(tokens)
    BY <1>4 DEF AddCommand
  <2>4. CASE Schedules(tokens, number)
    <3>1. /\ Len(scheduled') = Len(scheduled) + 1
          /\ scheduled'[Len(scheduled) + 1] = Event(Len(script) + 1, tokens, number, time)
          /\ \A i \in 1 .. Len(scheduled) : scheduled'[i] = scheduled[i]
      BY <1>1, <2>1, <2>2, <2>4, AppendProperties
    <3>2. Adding(number)
      BY <2>3, <2>4, <3>1
    <3> HIDE DEF Adding
    <3> QED BY <3>2
  <2> QED BY <2>1, <2>4
<1>5. UNCHANGED scheduled \/ \E number \in NumberOf(tokens[1]) : Adding(number)
  <2> HIDE DEF Adding
  <2> QED BY <1>2, <1>4 DEF SkipLine, RejectTime, AdvanceTime
<1> QED BY <1>1, <1>2, <1>3, <1>5, Zenon DEF tokens

(* What is scheduled is that line, because a leftover would make it a TIME *)
(* line.                                                                   *)
LEMMA ScriptLineSchedules ==
  ASSUME TypeOK, LeftoverIsTime, ScheduledAreLines, NEW l \in Lines, ScriptLine(l)
  PROVE  LeftoverIsTime' /\ ScheduledAreLines'
<1> DEFINE tokens == m_tokens \o l
           N == Len(script)
<1>1. m_tokens \in Seq(Tokens) /\ l \in Seq(Tokens) /\ tokens \in Seq(Tokens) /\ time \in Nat
  BY TokensAssumption, ConcatProperties DEF TypeOK
<1>2. /\ m_tokens = <<>> => tokens = l
      /\ m_tokens # <<>> => tokens # <<>> /\ tokens[1] = m_tokens[1]
  <2>1. m_tokens # <<>> => Len(m_tokens) >= 1 /\ Len(l) >= 0
    BY <1>1, EmptySeq
  <2>2. CASE m_tokens = <<>>
    BY <1>1, <2>2, ConcatEmptySeq
  <2>3. CASE m_tokens # <<>>
    BY <1>1, <2>1, <2>3, ConcatProperties
  <2> QED BY <2>2, <2>3
<1>3. ~started /\ (SkipLine(tokens) \/ RejectTime(tokens) \/ AdvanceTime(tokens) \/ AddCommand(tokens))
  BY DEF ScriptLine
<1>4. /\ N \in Nat /\ Len(script') = N + 1 /\ script'[N + 1] = l
      /\ \A k \in 1 .. N : script'[k] = script[k]
      /\ Len(scheduled) \in Nat
      /\ \/ UNCHANGED scheduled
         \/ \E number \in NumberOf(tokens[1]) :
              /\ ~IsTime(tokens) /\ Schedules(tokens, number)
              /\ Len(scheduled') = Len(scheduled) + 1
              /\ scheduled'[Len(scheduled) + 1] = Event(N + 1, tokens, number, time)
              /\ \A i \in 1 .. Len(scheduled) : scheduled'[i] = scheduled[i]
  BY ScriptLineStep
<1> HIDE DEF tokens, N
<1>5. LeftoverIsTime'
  BY <1>2, <1>3 DEF LeftoverIsTime, SkipLine, RejectTime, AdvanceTime, AddCommand, IsTime
<1>6. ASSUME NEW i \in 1 .. Len(scheduled), scheduled'[i] = scheduled[i]
      PROVE  /\ scheduled'[i].line \in 1 .. Len(script')
             /\ scheduled'[i].cmd = script'[scheduled'[i].line]
             /\ Len(scheduled'[i].cmd) >= 3
  <2>1. /\ scheduled[i].line \in 1 .. N /\ scheduled[i].cmd = script[scheduled[i].line]
        /\ Len(scheduled[i].cmd) >= 3
    BY DEF ScheduledAreLines, N
  <2> QED BY <1>4, <1>6, <2>1
<1>7. CASE UNCHANGED scheduled
  BY <1>5, <1>6, <1>7 DEF ScheduledAreLines
<1>8. CASE ~UNCHANGED scheduled
  <2>1. PICK number \in NumberOf(tokens[1]) :
          /\ ~IsTime(tokens) /\ Schedules(tokens, number)
          /\ Len(scheduled') = Len(scheduled) + 1
          /\ scheduled'[Len(scheduled) + 1] = Event(N + 1, tokens, number, time)
          /\ \A i \in 1 .. Len(scheduled) : scheduled'[i] = scheduled[i]
    BY <1>4, <1>8
  <2>2. tokens = l
    BY <1>2, <1>3, <2>1 DEF LeftoverIsTime, IsTime
  <2>3. Len(l) >= 3
    BY <2>1, <2>2 DEF Schedules
  <2>4. /\ Event(N + 1, tokens, number, time).line = N + 1
        /\ Event(N + 1, tokens, number, time).cmd = tokens
    BY <1>1, <1>4, EventProperties
  <2>5. ASSUME NEW i \in 1 .. Len(scheduled')
        PROVE  /\ scheduled'[i].line \in 1 .. Len(script')
               /\ scheduled'[i].cmd = script'[scheduled'[i].line]
               /\ Len(scheduled'[i].cmd) >= 3
    <3>1. CASE i = Len(scheduled) + 1
      BY <1>4, <2>1, <2>2, <2>3, <2>4, <3>1
    <3>2. CASE i \in 1 .. Len(scheduled)
      BY <1>6, <2>1, <3>2
    <3> QED BY <1>4, <2>1, <3>1, <3>2
  <2> QED BY <1>5, <2>5 DEF ScheduledAreLines
<1> QED BY <1>7, <1>8

(* Start() schedules nothing but lines of the scenario, whatever malformed *)
(* TIME lines it contains: never the tokens of two lines.                  *)
THEOREM Scheduling == Spec => []ScheduledAreLines
<1> DEFINE SInv == LeftoverIsTime /\ ScheduledAreLines
<1>1. Init => SInv
  BY DEF Init, LeftoverIsTime, ScheduledAreLines
<1>2. ASSUME IInv, SInv, [Next]_vars PROVE SInv'
  <2>1. ASSUME NEW l \in Lines, ScriptLine(l) PROVE SInv'
    BY <1>2, <2>1, ScriptLineSchedules DEF IInv
  <2>2. SUFFICES ASSUME ~(\E l \in Lines : ScriptLine(l)) PROVE SInv'
    BY <2>1
  <2>3. UNCHANGED <<script, scheduled>> /\ (~started' => ~started /\ UNCHANGED m_tokens)
    BY <1>2, <2>2 DEF IInv, NotStarted, Next, StartThreads, GetLine, CommandHandler, CheckBusy,
       Tokenize, Tokenized, SetReady, ReadCommandTokens, ScanNothing, ScanReady, ProcessTokens,
       ClearTokens, ResetReady, Stop, vars, startVars, readerVars, simThreadVars, shared
  <2> QED BY <1>2, <2>3 DEF LeftoverIsTime, ScheduledAreLines, IsTime
<1>3. SInv => ScheduledAreLines
  OBVIOUS
<1> QED BY <1>1, <1>2, <1>3, Invariance, PTL DEF Spec
-----------------------------------------------------------------------------
(***************************************************************************)
(* When commands are scheduled.                                            *)
(***************************************************************************)
(* f adds up the TIME lines of the scenario s, as far as its k-th line.    *)
Adds(f, s, k) ==
  f = [j \in 0 .. k |->
         IF j = 0 THEN 0
         ELSE IF s[j] # <<>> /\ IsTime(s[j]) THEN f[j - 1] + Value[s[j][2]]
         ELSE f[j - 1]]

(* TimeAfter, for any scenario.                                            *)
TimeIn(s, k) == (CHOOSE f : Adds(f, s, k))[k]

LEMMA AddsExists ==
  ASSUME NEW s
  PROVE  \A k \in Nat : \E f : Adds(f, s, k)
<1> DEFINE T == {k \in Nat : \E f : Adds(f, s, k)}
<1>1. 0 \in T
  <2>1. Adds([j \in 0 .. 0 |-> 0], s, 0)
    BY DEF Adds
  <2> QED BY <2>1
<1>2. ASSUME NEW k \in Nat, k \in T PROVE k + 1 \in T
  <2>1. PICK f : Adds(f, s, k)
    BY <1>2
  <2> DEFINE last == IF s[k + 1] # <<>> /\ IsTime(s[k + 1])
                     THEN f[k] + Value[s[k + 1][2]] ELSE f[k]
             g == [j \in 0 .. k + 1 |-> IF j = k + 1 THEN last ELSE f[j]]
  <2>2. ASSUME NEW j \in 0 .. k + 1
        PROVE  g[j] = IF j = 0 THEN 0
                      ELSE IF s[j] # <<>> /\ IsTime(s[j]) THEN g[j - 1] + Value[s[j][2]]
                      ELSE g[j - 1]
    <3>1. CASE j = k + 1
      <4>1. j - 1 \in 0 .. k + 1 /\ j - 1 # k + 1 /\ j - 1 = k /\ j # 0
        BY <3>1
      <4>2. g[j] = last /\ g[j - 1] = f[k]
        BY <3>1, <4>1
      <4> HIDE DEF g
      <4> QED BY <3>1, <4>1, <4>2
    <3>2. CASE j # k + 1
      <4>1. j \in 0 .. k /\ g[j] = f[j]
        BY <3>2
      <4>2. j # 0 => g[j - 1] = f[j - 1]
        BY <3>2
      <4> HIDE DEF g
      <4> QED BY <2>1, <4>1, <4>2 DEF Adds
    <3> QED BY <3>1, <3>2
  <2>3. g = [j \in 0 .. k + 1 |-> g[j]]
    OBVIOUS
  <2> HIDE DEF g
  <2>4. Adds(g, s, k + 1)
    BY <2>2, <2>3 DEF Adds
  <2> QED BY <2>4
<1> HIDE DEF T
<1>3. \A k \in Nat : k \in T
  BY <1>1, <1>2, SetInduction
<1> QED BY <1>3 DEF T

(* The sums of two scenarios with the same beginning agree on it.          *)
LEMMA AddsAgree ==
  ASSUME NEW s, NEW t, NEW k \in Nat, NEW m \in Nat, k <= m,
         \A j \in 1 .. k : s[j] = t[j],
         NEW f, NEW g, Adds(f, s, k), Adds(g, t, m)
  PROVE  \A j \in 0 .. k : f[j] = g[j]
<1> DEFINE T == {j \in Nat : j \in 0 .. k => f[j] = g[j]}
<1>1. 0 \in T
  BY DEF Adds
<1>2. ASSUME NEW j \in Nat, j \in T PROVE j + 1 \in T
  <2> SUFFICES ASSUME j + 1 \in 0 .. k PROVE f[j + 1] = g[j + 1]
    OBVIOUS
  <2>1. /\ j \in 0 .. k /\ j + 1 \in 1 .. k /\ j + 1 \in 0 .. m
        /\ j + 1 # 0 /\ (j + 1) - 1 = j
    OBVIOUS
  <2>2. f[j] = g[j] /\ s[j + 1] = t[j + 1]
    BY <1>2, <2>1
  <2>3. f[j + 1] = IF s[j + 1] # <<>> /\ IsTime(s[j + 1])
                   THEN f[j] + Value[s[j + 1][2]] ELSE f[j]
    BY <2>1 DEF Adds
  <2>4. g[j + 1] = IF t[j + 1] # <<>> /\ IsTime(t[j + 1])
                   THEN g[j] + Value[t[j + 1][2]] ELSE g[j]
    BY <2>1 DEF Adds
  <2> QED BY <2>2, <2>3, <2>4
<1> HIDE DEF T
<1>3. \A j \in Nat : j \in T
  BY <1>1, <1>2, SetInduction
<1> QED BY <1>3 DEF T

(* The equations of TimeIn, and that it only looks at the lines it counts. *)
LEMMA TimeInEquations ==
  ASSUME NEW s, NEW k \in Nat
  PROVE  /\ TimeIn(s, 0) = 0
         /\ TimeIn(s, k + 1) = IF s[k + 1] # <<>> /\ IsTime(s[k + 1])
                               THEN TimeIn(s, k) + Value[s[k + 1][2]] ELSE TimeIn(s, k)
         /\ \A t : (\A j \in 1 .. k : s[j] = t[j]) => TimeIn(t, k) = TimeIn(s, k)
<1> DEFINE C(u, i) == CHOOSE f : Adds(f, u, i)
<1>1. \A u : \A i \in Nat : Adds(C(u, i), u, i)
  BY AddsExists
<1>2. \A u, i : TimeIn(u, i) = C(u, i)[i]
  BY DEF TimeIn
<1> HIDE DEF C
<1>3. TimeIn(s, 0) = 0
  <2>1. Adds(C(s, 0), s, 0)
    BY <1>1
  <2>2. C(s, 0)[0] = 0
    BY <2>1 DEF Adds
  <2> QED BY <1>2, <2>2
<1>4. TimeIn(s, k + 1) = IF s[k + 1] # <<>> /\ IsTime(s[k + 1])
                         THEN TimeIn(s, k) + Value[s[k + 1][2]] ELSE TimeIn(s, k)
  <2>1. Adds(C(s, k), s, k) /\ Adds(C(s, k + 1), s, k + 1)
    BY <1>1
  <2>2. C(s, k)[k] = C(s, k + 1)[k]
    <3> DEFINE m == k + 1
    <3>1. m \in Nat /\ k <= m /\ k \in 0 .. k /\ Adds(C(s, m), s, m)
      BY <2>1
    <3> HIDE DEF m
    <3>2. ASSUME NEW t, NEW f, NEW g, \A j \in 1 .. k : s[j] = t[j],
                 Adds(f, s, k), Adds(g, t, m)
          PROVE  \A j \in 0 .. k : f[j] = g[j]
      BY <3>1, <3>2, AddsAgree
    <3> QED BY <2>1, <3>1, <3>2 DEF m
  <2>3. k + 1 \in 0 .. k + 1 /\ k + 1 # 0 /\ (k + 1) - 1 = k
    OBVIOUS
  <2>4. C(s, k + 1)[k + 1] = IF s[k + 1] # <<>> /\ IsTime(s[k + 1])
                             THEN C(s, k + 1)[k] + Value[s[k + 1][2]] ELSE C(s, k + 1)[k]
    BY <2>1, <2>3 DEF Adds
  <2> QED BY <1>2, <2>2, <2>4
<1>5. ASSUME NEW t, \A j \in 1 .. k : s[j] = t[j] PROVE TimeIn(t, k) = TimeIn(s, k)
  <2>1. Adds(C(s, k), s, k) /\ Adds(C(t, k), t, k)
    BY <1>1
  <2>2. \A j \in 0 .. k : C(s, k)[j] = C(t, k)[j]
    BY <1>5, <2>1, AddsAgree
  <2> QED BY <1>2, <2>2
<1> QED BY <1>3, <1>4, <1>5

(* While no line was malformed, nothing is left over and the pointer into  *)
(* simulated time is the sum of the TIME lines.                            *)
Understood ==
  (~started /\ \A j \in 1 .. Len(script) : ~BadTime(script[j])) =>
    m_tokens = <<>> /\ time = TimeIn(script, Len(script))

(* ScriptScheduled, for any scenario s and any events q: the events of the *)
(* k-th line, whose first word left `number' in its variable, are right.   *)
Answers(s, q, k, number) ==
  /\ Schedules(s[k], number) <=> \E i \in 1 .. Len(q) : q[i].line = k
  /\ \A i \in 1 .. Len(q) : q[i].line = k => q[i] = Event(k, s[k], number, TimeIn(s, k))

LinesInOrder(q) == \A i, j \in 1 .. Len(q) : i < j => q[i].line < q[j].line

Timed(s, q) ==
  /\ LinesInOrder(q)
  /\ \A k \in 1 .. Len(s) :
       (s[k] # <<>> /\ \A j \in 1 .. k : ~BadTime(s[j])) =>
         \E number \in NumberOf(s[k][1]) : Answers(s, q, k, number)

LEMMA TimedIsScheduled ==
  /\ ScriptScheduled <=> Timed(script, scheduled)
  /\ ScriptScheduled' <=> Timed(script', scheduled')
<1>1. \A k : TimeAfter(k) = TimeIn(script, k)
  BY DEF TimeAfter, TimeIn, Adds
<1>2. \A k : TimeAfter(k)' = TimeIn(script', k)
  BY DEF TimeAfter, TimeIn, Adds
<1> HIDE DEF TimeAfter, TimeIn
<1>3. ScriptScheduled <=> Timed(script, scheduled)
  BY <1>1, Zenon DEF ScriptScheduled, Timed, Answers, LinesInOrder
<1>4. ScriptScheduled' <=> Timed(script', scheduled')
  BY <1>2, Zenon DEF ScriptScheduled, Timed, Answers, LinesInOrder
<1> QED BY <1>3, <1>4

(* One line of the scenario keeps every command scheduled at its time.     *)
LEMMA ScriptLineTimed ==
  ASSUME TypeOK, Understood, ScheduledAreLines, Timed(script, scheduled),
         NEW l \in Lines, ScriptLine(l)
  PROVE  Understood' /\ Timed(script', scheduled')
<1> DEFINE N == Len(script)
           M == Len(scheduled)
           good == (\A j \in 1 .. N : ~BadTime(script[j])) /\ ~BadTime(l)
<1>1. /\ l \in Seq(Tokens) /\ m_tokens \in Seq(Tokens) /\ time \in Nat
      /\ m_tokens \o l \in Seq(Tokens)
  BY TokensAssumption, ConcatProperties DEF TypeOK
<1>2. /\ ~started /\ ~started'
      /\ N \in Nat /\ Len(script') = N + 1 /\ script'[N + 1] = l
      /\ \A k \in 1 .. N : script'[k] = script[k]
      /\ M \in Nat
      /\ \/ UNCHANGED scheduled
         \/ \E number \in NumberOf((m_tokens \o l)[1]) :
              /\ ~IsTime(m_tokens \o l) /\ Schedules(m_tokens \o l, number)
              /\ Len(scheduled') = M + 1
              /\ scheduled'[M + 1] = Event(N + 1, m_tokens \o l, number, time)
              /\ \A i \in 1 .. M : scheduled'[i] = scheduled[i]
  BY ScriptLineStep
<1>3. \A n : /\ Event(N + 1, m_tokens \o l, n, time).line = N + 1
             /\ Event(N + 1, m_tokens \o l, n, time).cmd = m_tokens \o l
  <2> DEFINE tokens == m_tokens \o l
             m == N + 1
  <2>1. m \in Nat /\ tokens \in Seq(Tokens) /\ time \in Nat
    BY <1>1, <1>2
  <2> HIDE DEF tokens, m
  <2>2. \A n : Event(m, tokens, n, time).line = m /\ Event(m, tokens, n, time).cmd = tokens
    BY <2>1, EventProperties
  <2> QED BY <2>2 DEF tokens, m
<1>4. \A i \in 1 .. M : scheduled[i].line \in 1 .. N
  BY DEF ScheduledAreLines
<1>5. \/ UNCHANGED scheduled
      \/ /\ Len(scheduled') = M + 1 /\ scheduled'[M + 1].line = N + 1
         /\ \A i \in 1 .. M : scheduled'[i] = scheduled[i]
  BY <1>2, <1>3
<1>6. (\A j \in 1 .. Len(script') : ~BadTime(script'[j])) <=> good
  BY <1>2
<1>7. /\ \A k \in 0 .. N : TimeIn(script', k) = TimeIn(script, k)
      /\ TimeIn(script', N + 1) = IF l # <<>> /\ IsTime(l)
                                  THEN TimeIn(script, N) + Value[l[2]]
                                  ELSE TimeIn(script, N)
  <2>1. ASSUME NEW k \in 0 .. N PROVE TimeIn(script', k) = TimeIn(script, k)
    <3>1. k \in Nat /\ \A j \in 1 .. k : script[j] = script'[j]
      BY <1>2
    <3> QED BY <3>1, TimeInEquations
  <2>2. TimeIn(script', N + 1) = IF l # <<>> /\ IsTime(l)
                                 THEN TimeIn(script', N) + Value[l[2]]
                                 ELSE TimeIn(script', N)
    BY <1>2, TimeInEquations
  <2> QED BY <1>2, <2>1, <2>2
<1> HIDE DEF N, M
<1>8. LinesInOrder(scheduled')
  <2>1. LinesInOrder(scheduled)
    BY DEF Timed
  <2>2. CASE UNCHANGED scheduled
    BY <2>1, <2>2
  <2>3. CASE /\ Len(scheduled') = M + 1 /\ scheduled'[M + 1].line = N + 1
             /\ \A i \in 1 .. M : scheduled'[i] = scheduled[i]
    <3> SUFFICES ASSUME NEW i \in 1 .. M + 1, NEW j \in 1 .. M + 1, i < j
                 PROVE  scheduled'[i].line < scheduled'[j].line
      BY <2>3 DEF LinesInOrder
    <3>1. i \in 1 .. M
      BY <1>2
    <3>2. CASE j \in 1 .. M
      BY <2>1, <2>3, <3>1, <3>2 DEF LinesInOrder, M
    <3>3. CASE j = M + 1
      BY <1>2, <1>4, <2>3, <3>1, <3>3
    <3> QED BY <1>2, <3>2, <3>3
  <2> QED BY <1>5, <2>2, <2>3
(* what happens on a line that Start() understands *)
<1>9. ASSUME good
      PROVE  /\ m_tokens' = <<>> /\ time' = TimeIn(script', N + 1)
             /\ m_tokens \o l = l
             /\ l # <<>> /\ ~IsTime(l) => AddCommand(l) /\ time = TimeIn(script', N + 1)
             /\ l # <<>> /\ IsTime(l) => UNCHANGED scheduled
  <2>1. m_tokens = <<>> /\ time = TimeIn(script, N)
    BY <1>2, <1>9 DEF Understood, N
  <2>2. m_tokens \o l = l
    BY <1>1, <2>1, ConcatEmptySeq
  <2>3. SkipLine(l) \/ RejectTime(l) \/ AdvanceTime(l) \/ AddCommand(l)
    BY <2>2 DEF ScriptLine
  <2>4. CASE l = <<>>
    BY <1>7, <2>1, <2>2, <2>3, <2>4 DEF SkipLine, RejectTime, AdvanceTime, AddCommand
  <2>5. CASE l # <<>> /\ IsTime(l)
    <3>1. Len(l) = 2 /\ l[2] \in DOMAIN Value
      BY <1>9, <2>5 DEF BadTime, GoodTime
    <3>2. AdvanceTime(l)
      BY <2>3, <2>5, <3>1 DEF SkipLine, RejectTime, AddCommand
    <3>3. time' = time + Value[l[2]] /\ m_tokens' = <<>> /\ UNCHANGED scheduled
      BY <3>1, <3>2 DEF AdvanceTime, NumberOf
    <3> QED BY <1>7, <2>1, <2>2, <2>5, <3>3
  <2>6. CASE l # <<>> /\ ~IsTime(l)
    <3>1. AddCommand(l)
      BY <2>3, <2>6 DEF SkipLine, RejectTime, AdvanceTime
    <3> QED BY <1>7, <2>1, <2>2, <2>6, <3>1 DEF AddCommand
  <2> QED BY <2>4, <2>5, <2>6
<1>10. Understood'
  BY <1>2, <1>6, <1>9 DEF Understood
<1>11. ASSUME NEW k \in 1 .. N, script'[k] # <<>>, \A j \in 1 .. k : ~BadTime(script'[j])
       PROVE  \E number \in NumberOf(script'[k][1]) : Answers(script', scheduled', k, number)
  <2>1. script'[k] = script[k] /\ \A j \in 1 .. k : script'[j] = script[j]
    BY <1>2
  <2>2. PICK number \in NumberOf(script[k][1]) : Answers(script, scheduled, k, number)
    BY <1>11, <2>1 DEF Timed, N
  <2>3. TimeIn(script', k) = TimeIn(script, k) /\ k # N + 1
    BY <1>2, <1>7
  <2>4. Answers(script', scheduled', k, number)
    <3>1. CASE UNCHANGED scheduled
      BY <2>1, <2>2, <2>3, <3>1 DEF Answers
    <3>2. CASE /\ Len(scheduled') = M + 1 /\ scheduled'[M + 1].line = N + 1
               /\ \A i \in 1 .. M : scheduled'[i] = scheduled[i]
      <4>1. \A i \in 1 .. M + 1 : i \in 1 .. M \/ scheduled'[i].line # k
        BY <1>2, <2>3, <3>2
      <4>2. \A i \in 1 .. M : i \in 1 .. M + 1
        BY <1>2
      <4> QED BY <2>1, <2>2, <2>3, <3>2, <4>1, <4>2 DEF Answers, M
    <3> QED BY <1>5, <3>1, <3>2
  <2> QED BY <2>1, <2>4
<1>12. ASSUME good, l # <<>>
       PROVE  \E number \in NumberOf(l[1]) : Answers(script', scheduled', N + 1, number)
  <2>1. \A i \in 1 .. M : scheduled[i].line # N + 1
    BY <1>2, <1>4
  <2>2. CASE IsTime(l)
    <3>1. PICK number \in NumberOf(l[1]) : TRUE
      BY NumberOfProperties
    <3>2. ~Schedules(l, number) /\ UNCHANGED scheduled
      BY <1>9, <1>12, <2>2 DEF Schedules, IsTime
    <3>3. Answers(script', scheduled', N + 1, number)
      BY <1>2, <2>1, <3>2 DEF Answers, M
    <3> QED BY <3>3
  <2>3. CASE ~IsTime(l)
    <3>1. AddCommand(l) /\ time = TimeIn(script', N + 1)
      BY <1>9, <1>12, <2>3
    <3>2. PICK number \in NumberOf(l[1]) :
                 scheduled' = IF Schedules(l, number)
                              THEN Append(scheduled, Event(N + 1, l, number, time))
                              ELSE scheduled
      BY <3>1 DEF AddCommand, N
    <3>3. Answers(script', scheduled', N + 1, number)
      <4>1. CASE Schedules(l, number)
        <5>1. /\ Len(scheduled') = M + 1
              /\ scheduled'[M + 1] = Event(N + 1, l, number, time)
              /\ \A i \in 1 .. M : scheduled'[i] = scheduled[i]
          <6>1. Event(N + 1, l, number, time) \in Events /\ scheduled \in Seq(Events)
            BY <1>1, <1>2, EventProperties DEF TypeOK
          <6> QED BY <3>2, <4>1, <6>1, AppendProperties DEF M
        <5>2. scheduled'[M + 1].line = N + 1
          BY <1>3, <1>9, <1>12, <5>1
        <5>3. M + 1 \in 1 .. M + 1 /\ \A i \in 1 .. M + 1 : i \in 1 .. M \/ i = M + 1
          BY <1>2
        <5> QED BY <1>2, <2>1, <3>1, <4>1, <5>1, <5>2, <5>3 DEF Answers
      <4>2. CASE ~Schedules(l, number)
        BY <1>2, <2>1, <3>2, <4>2 DEF Answers, M
      <4> QED BY <4>1, <4>2
    <3> QED BY <3>3
  <2> QED BY <2>2, <2>3
<1>13. ASSUME NEW k \in 1 .. Len(script'), script'[k] # <<>>,
              \A j \in 1 .. k : ~BadTime(script'[j])
       PROVE  \E number \in NumberOf(script'[k][1]) : Answers(script', scheduled', k, number)
  <2>1. CASE k \in 1 .. N
    BY <1>11, <1>13, <2>1
  <2>2. CASE k = N + 1
    <3>1. good /\ l # <<>>
      BY <1>2, <1>6, <1>13, <2>2
    <3> QED BY <1>2, <1>12, <2>2, <3>1
  <2> QED BY <1>2, <2>1, <2>2
<1> QED BY <1>8, <1>10, <1>13 DEF Timed

(* Start() schedules the commands of the scenario in their order.  Up to   *)
(* the first malformed TIME line it schedules exactly the well formed      *)
(* ones, each once, for its own nodes and at the time that the TIME lines  *)
(* add up to.                                                              *)
THEOREM Timing == Spec => []ScriptScheduled
<1> DEFINE TInv == Understood /\ Timed(script, scheduled)
<1>1. Init => TInv
  <2> SUFFICES ASSUME Init PROVE TInv
    OBVIOUS
  <2>1. script = <<>> /\ scheduled = <<>> /\ m_tokens = <<>> /\ time = 0
    BY DEF Init
  <2>2. Len(script) = 0 /\ Len(scheduled) = 0
    BY <2>1
  <2>3. TimeIn(script, 0) = 0
    BY TimeInEquations
  <2> QED BY <2>1, <2>2, <2>3 DEF Understood, Timed, LinesInOrder
<1>2. ASSUME IInv, ScheduledAreLines, TInv, [Next]_vars PROVE TInv'
  <2>1. ASSUME NEW l \in Lines, ScriptLine(l) PROVE TInv'
    BY <1>2, <2>1, ScriptLineTimed DEF IInv
  <2>2. SUFFICES ASSUME ~(\E l \in Lines : ScriptLine(l)) PROVE TInv'
    BY <2>1
  <2>3. UNCHANGED <<script, scheduled, time>> /\ (~started' => ~started /\ UNCHANGED m_tokens)
    BY <1>2, <2>2 DEF IInv, NotStarted, Next, StartThreads, GetLine, CommandHandler, CheckBusy,
       Tokenize, Tokenized, SetReady, ReadCommandTokens, ScanNothing, ScanReady, ProcessTokens,
       ClearTokens, ResetReady, Stop, vars, startVars, readerVars, simThreadVars, shared
  <2> QED BY <1>2, <2>3 DEF Understood
<1>3. TInv => ScriptScheduled
  BY TimedIsScheduled
<1> QED BY <1>1, <1>2, <1>3, Invariance, Scheduling, PTL DEF Spec
=============================================================================
