---------------------------- MODULE LoggingProofs ----------------------------
(***************************************************************************)
(* The invariants of Logging, for every configuration, every state of the  *)
(* cache directory and any number of messages.                             *)
(***************************************************************************)
EXTENDS Logging, FiniteSetTheorems, SequenceTheorems, TLAPS

-----------------------------------------------------------------------------
(* The inductive invariant.                                                *)

\* Where logging_init and log_message hold the mutex.
Holding == {"initLoad", "initOwn", "initDefault", "initUnlock", "msgFile", "msgWrite"}

InInit == {"initLock", "initLoad", "initOwn", "initDefault", "initUnlock", "initDone"}

InMsg == {"msg", "msgLock", "msgFile", "msgWrite"}

\* Before the log is there.
Opening == {"initLock", "initLoad", "initOwn", "initDefault"}

\* A call below another one waits for it: logging_init for a line it logs,
\* main's next message or second logging_cleanup for the one before; or it is
\* log_message without a log, or logging_init with a bad file, and the call
\* above waits for the mutex they hold.
MayCall(lower, upper) ==
    \/ lower.at \in {"initDone", "msg"} /\ upper.at \in InMsg
    \/ lower.at = "cleanup" /\ upper.at = "cleanup"
    \/ lower.at = "msgWrite" /\ upper.at = "initLock" /\ log_file = "none"
    \/ /\ lower.at = "initDefault" /\ upper.at \in {"msg", "msgLock"}
       /\ config.status = "bad" /\ upper.level = ERROR

\* The shapes of the stack.
StackInv ==
    /\ Len(calls) <= 3
    /\ Len(calls) = 2 => MayCall(calls[1], calls[2])
    /\ Len(calls) = 3 => /\ calls[1].at \in {"initDone", "msg"}
                         /\ MayCall(calls[2], calls[3])
                         /\ calls[3].at = "initLock"
    /\ \A i \in 2 .. Len(calls) :
          calls[i].at \in InInit => calls[i - 1].at = "msgWrite"

\* The mutex is held exactly while one of the calls is where it has it.
MutexInv == held <=> \E i \in 1 .. Len(calls) : calls[i].at \in Holding

\* Which of the logs config.json may name can be opened.
NamedOpens ==
    /\ Configured
    /\ \/ config.file = "own" /\ ownOpens
       \/ config.file = "default" /\ cache # "denied"

\* A line is written to a log, which is there unless none can be opened.
LogInv ==
    /\ calls # <<>> /\ Top.at = "msgWrite" => log_file # "none"
    /\ calls # <<>> /\ calls[1].at = "initOwn" => Configured
    /\ calls # <<>> /\ calls[1].at = "initDefault" /\ log_file = "none" => ~NamedOpens
    /\ \/ main = "start"
       \/ calls # <<>> /\ calls[1].at \in Opening
       \/ main = "returned" /\ (calls = <<>> \/ calls[1].at = "cleanup")
       \/ log_file = "none" => config.status = "bad" \/ ~CanLog

\* What main has brought up where it is.
Brought(m) ==
    CASE m \in {"network", "networkDown"} -> {"encryption"}
      [] m \in {"db", "dbDown"} -> {"encryption", "network"}
      [] m \in {"parse", "command", "over", "exited"} -> {"encryption", "network", "db"}
      [] OTHER -> {}

\* Which calls may be going on where main is.
MainInv ==
    /\ main = "start" => calls = <<>> /\ log_file = "none"
    /\ \A i \in 1 .. Len(calls) :
          /\ i = 1 /\ calls[i].at \in InInit => main = "stat"
          /\ calls[i].at = "cleanup" => main = "returned"
    /\ up = Brought(main)
    /\ main = "wizard" => config.status = "absent"
    /\ main = "returned" /\ config.status # "absent" =>
          /\ calls # <<>> => calls[1].at = "cleanup"
          /\ calls = <<>> => log_file = "none"

\* Log_message has let the message through and not yet written it.
Filtered == {"msgLock", "msgFile", "msgWrite"}

Through(s, n, v) == {i \in 1 .. n : s[i] >= v}

\* The lines t are those of the first n messages of s that level v lets through.
Recorded(t, s, n, v) ==
    /\ Len(t) = Cardinality(Through(s, n, v))
    /\ \A i \in Through(s, n, v) :
          t[Cardinality({j \in Through(s, n, v) : j <= i})] = s[i]

\* The log lacks at most the message that is being written, and the level does
\* not change once a message was sent.
LineInv ==
    /\ main = "start" => sent = <<>>
    /\ Len(calls) = 1 /\ calls[1].at \in {"initLock", "initLoad"} => sent = <<>>
    /\ (\A i \in 1 .. Len(calls) : calls[i].at \notin Filtered) =>
          Recorded(lines, sent, Len(sent), current_log_level)
    /\ \A i \in 1 .. Len(calls) :
          calls[i].at \in Filtered =>
              /\ sent # <<>>
              /\ sent[Len(sent)] = calls[i].level
              /\ calls[i].level >= current_log_level
              /\ Recorded(lines, sent, Len(sent) - 1, current_log_level)

IInv == TypeOK /\ StackInv /\ MutexInv /\ LogInv /\ MainInv /\ LineInv

-----------------------------------------------------------------------------
(* What is recorded.                                                       *)

LEMMA NothingRecorded ==
    ASSUME NEW v PROVE Recorded(<<>>, <<>>, 0, v)
<1>1. Through(<<>>, 0, v) = {}
  BY DEF Through
<1>2. Cardinality({}) = 0
  BY FS_EmptySet
<1> QED  BY <1>1, <1>2 DEF Recorded

\* Before the first message, the level does not matter.
LEMMA RecordedNone ==
    ASSUME NEW t, NEW s, NEW v, NEW w, Recorded(t, s, 0, v)
    PROVE  Recorded(t, s, 0, w)
<1>1. Through(s, 0, w) = Through(s, 0, v)
  BY DEF Through
<1> QED  BY <1>1 DEF Recorded

\* Only the messages up to n count.
LEMMA RecordedSame ==
    ASSUME NEW t, NEW s, NEW u, NEW n \in Nat, NEW v,
           \A i \in 1 .. n : u[i] = s[i],
           Recorded(t, s, n, v)
    PROVE  Recorded(t, u, n, v)
<1>1. Through(u, n, v) = Through(s, n, v)
  BY DEF Through
<1>2. \A i \in Through(s, n, v) : u[i] = s[i]
  BY DEF Through
<1> QED  BY <1>1, <1>2 DEF Recorded

\* A message the level does not let through leaves no line.
LEMMA RecordedSkip ==
    ASSUME NEW t, NEW s, NEW n \in Nat, NEW v, ~(s[n + 1] >= v),
           Recorded(t, s, n, v)
    PROVE  Recorded(t, s, n + 1, v)
<1>1. Through(s, n + 1, v) = Through(s, n, v)
  BY DEF Through
<1> QED  BY <1>1 DEF Recorded

\* A message it lets through is the last line.
LEMMA RecordedLine ==
    ASSUME NEW S, NEW t \in Seq(S), NEW s, NEW n \in Nat, NEW v, NEW l \in S,
           s[n + 1] = l, l >= v,
           Recorded(t, s, n, v)
    PROVE  Recorded(Append(t, l), s, n + 1, v)
<1> DEFINE W == Through(s, n, v)
           X == Through(s, n + 1, v)
<1>1. X = W \union {n + 1} /\ n + 1 \notin W /\ W \in SUBSET (1 .. n)
  BY DEF Through
<1>2. IsFiniteSet(1 .. n)
  BY FS_Interval
<1>3. IsFiniteSet(W)
  BY <1>1, <1>2, FS_Subset
<1>4. Cardinality(X) = Cardinality(W) + 1 /\ Cardinality(W) \in Nat
  BY <1>1, <1>3, FS_AddElement, FS_CardinalityType
<1>5. Len(t) = Cardinality(W)
  BY DEF Recorded
<1>6. /\ Len(Append(t, l)) = Len(t) + 1
      /\ Append(t, l)[Len(t) + 1] = l
      /\ \A k \in 1 .. Len(t) : Append(t, l)[k] = t[k]
  BY AppendProperties
<1>7. ASSUME NEW i \in W
      PROVE  Append(t, l)[Cardinality({j \in X : j <= i})] = s[i]
  <2>1. {j \in X : j <= i} = {j \in W : j <= i}
    BY <1>1
  <2>2. {j \in W : j <= i} \in SUBSET W /\ i \in {j \in W : j <= i}
    BY <1>1
  <2>3. /\ IsFiniteSet({j \in W : j <= i})
        /\ Cardinality({j \in W : j <= i}) <= Cardinality(W)
    BY <1>3, <2>2, FS_Subset
  <2>4. /\ Cardinality({j \in W : j <= i}) \in Nat
        /\ Cardinality({j \in W : j <= i}) # 0
    BY <2>2, <2>3, FS_CardinalityType, FS_EmptySet
  <2>5. Cardinality({j \in W : j <= i}) \in 1 .. Len(t)
    BY <1>4, <1>5, <2>3, <2>4
  <2>6. t[Cardinality({j \in W : j <= i})] = s[i]
    BY DEF Recorded
  <2> QED  BY <1>6, <2>1, <2>5, <2>6
<1>8. {j \in X : j <= n + 1} = X
  BY <1>1
<1>9. Append(t, l)[Cardinality({j \in X : j <= n + 1})] = s[n + 1]
  BY <1>4, <1>5, <1>6, <1>8
<1>10. Len(Append(t, l)) = Cardinality(X)
  BY <1>4, <1>5, <1>6
<1> HIDE DEF W
<1>11. \A i \in X : Append(t, l)[Cardinality({j \in X : j <= i})] = s[i]
  BY <1>1, <1>7, <1>9
<1> QED  BY <1>10, <1>11 DEF Recorded

-----------------------------------------------------------------------------
(* The stack.                                                              *)

LEMMA HasCalls == \A s : Len(s) # 0 => s # <<>>
BY EmptySeq

\* The calls below the innermost one stay as they are.
SameBelow(n) == \A i \in 1 .. n - 1 : calls'[i] = calls[i]

LEMMA TopIsAFrame ==
    ASSUME calls \in Seq(Frame), calls # <<>>
    PROVE  /\ Len(calls) \in Nat \ {0}
           /\ Top \in Frame /\ Top.at \in Labels /\ Top.level \in Levels
           /\ \A i \in 1 .. Len(calls) : calls[i] \in Frame
<1>1. Len(calls) \in Nat \ {0}
  BY EmptySeq
<1>2. \A i \in 1 .. Len(calls) : calls[i] \in Frame
  BY ElementOfSeq
<1> QED  BY <1>1, <1>2 DEF Top, Frame

LEMMA BelowTop ==
    ASSUME calls \in Seq(Frame), calls # <<>>
    PROVE  /\ Below \in Seq(Frame)
           /\ Len(Below) = Len(calls) - 1
           /\ \A i \in 1 .. Len(calls) - 1 : Below[i] = calls[i]
<1>1. Len(calls) \in Nat \ {0} /\ \A i \in 1 .. Len(calls) : calls[i] \in Frame
  BY TopIsAFrame
<1>2. \A i \in 1 .. Len(calls) - 1 : calls[i] \in Frame
  BY <1>1
<1>3. 1 \in Int /\ Len(calls) - 1 \in Int
  BY <1>1
<1>4. /\ Below \in Seq(Frame)
      /\ Len(Below) = IF 1 <= Len(calls) - 1 THEN (Len(calls) - 1) - 1 + 1 ELSE 0
      /\ \A i \in 1 .. (Len(calls) - 1) - 1 + 1 : Below[i] = calls[1 + i - 1]
  BY <1>2, <1>3, SubSeqProperties DEF Below
<1> DEFINE b == Below
<1> HIDE DEF b
<1>5. \A i \in 1 .. Len(calls) - 1 :
          i \in 1 .. (Len(calls) - 1) - 1 + 1 /\ 1 + i - 1 = i
  BY <1>1
<1>6. b \in Seq(Frame) /\ \A i \in 1 .. Len(calls) - 1 : b[i] = calls[i]
  BY <1>4, <1>5 DEF b
<1>7. Len(b) = Len(calls) - 1
  <2> DEFINE n == Len(calls)
  <2>1. Len(b) = IF 1 <= n - 1 THEN (n - 1) - 1 + 1 ELSE 0
    BY <1>4 DEF b
  <2>2. n \in Nat \ {0}
    BY <1>1
  <2> HIDE DEF n
  <2>3. Len(b) = n - 1
    BY <2>1, <2>2
  <2> QED  BY <2>3 DEF n
<1> QED  BY <1>6, <1>7 DEF b

LEMMA GotoStack ==
    ASSUME calls \in Seq(Frame), calls # <<>>, NEW l \in Labels, Goto(l, <<>>)
    PROVE  /\ calls' \in Seq(Frame)
           /\ Len(calls') = Len(calls)
           /\ SameBelow(Len(calls))
           /\ calls'[Len(calls)] = Call(l, Top.level)
<1> DEFINE f == Call(l, Top.level)
<1>1. f \in Frame
  BY TopIsAFrame DEF Call, Frame
<1>2. Below \in Seq(Frame) /\ Len(Below) = Len(calls) - 1
  BY BelowTop
<1>3. Append(Below, f) \in Seq(Frame)
  BY <1>1, <1>2, AppendProperties
<1>4. calls' = Append(Below, f)
  BY <1>3, ConcatEmptySeq DEF Goto
<1> HIDE DEF f
<1>5. /\ Len(calls') = Len(calls) /\ calls'[Len(calls)] = f
      /\ \A i \in 1 .. Len(calls) - 1 : calls'[i] = Below[i]
  BY <1>1, <1>2, <1>4, TopIsAFrame, AppendProperties
<1> QED  BY <1>3, <1>4, <1>5, BelowTop DEF SameBelow, f

LEMMA GotoCallStack ==
    ASSUME calls \in Seq(Frame), calls # <<>>, NEW l \in Labels, NEW g \in Frame,
           Goto(l, <<g>>)
    PROVE  /\ calls' \in Seq(Frame)
           /\ Len(calls') = Len(calls) + 1
           /\ SameBelow(Len(calls))
           /\ calls'[Len(calls)] = Call(l, Top.level)
           /\ calls'[Len(calls) + 1] = g
<1> DEFINE f == Call(l, Top.level)
           t == Append(Below, f)
<1>1. f \in Frame
  BY TopIsAFrame DEF Call, Frame
<1>2. Below \in Seq(Frame) /\ Len(Below) = Len(calls) - 1
  BY BelowTop
<1> HIDE DEF f
<1>3. /\ t \in Seq(Frame) /\ Len(t) = Len(calls) /\ t[Len(calls)] = f
      /\ \A i \in 1 .. Len(calls) - 1 : t[i] = Below[i]
  BY <1>1, <1>2, TopIsAFrame, AppendProperties
<1>4. calls' = t \o <<g>>
  BY DEF Goto, f
<1> HIDE DEF t
<1>5. Append(t, g) = t \o <<g>>
  BY <1>3, AppendIsConcat
<1>6. /\ calls' \in Seq(Frame) /\ Len(calls') = Len(calls) + 1
      /\ calls'[Len(calls) + 1] = g
      /\ \A i \in 1 .. Len(calls) : calls'[i] = t[i]
  BY <1>3, <1>4, <1>5, AppendProperties
<1>7. Len(calls) \in Nat \ {0}
  BY TopIsAFrame
<1>8. \A i \in 1 .. Len(calls) - 1 : calls'[i] = calls[i]
  BY <1>3, <1>6, <1>7, BelowTop
<1>9. calls'[Len(calls)] = f
  BY <1>3, <1>6, <1>7
<1> QED  BY <1>6, <1>8, <1>9 DEF SameBelow, f

LEMMA ReturnStack ==
    ASSUME calls \in Seq(Frame), calls # <<>>, Return
    PROVE  /\ calls' \in Seq(Frame)
           /\ Len(calls') = Len(calls) - 1
           /\ SameBelow(Len(calls))
BY BelowTop DEF Return, SameBelow

\* The call that goes on is the last of at most three.
LEMMA Places ==
    ASSUME IInv, calls # <<>>
    PROVE  /\ calls \in Seq(Frame) /\ Len(calls) \in {1, 2, 3}
           /\ Top = calls[Len(calls)] /\ Top \in Frame
           /\ Top.at \in Labels /\ Top.level \in Levels
           /\ Top.at \in InInit /\ (Top.at = "initLock" => ~held) =>
                 Len(calls) = 1 /\ main = "stat"
           /\ Top.at \in InMsg =>
                 \/ Len(calls) = 1
                 \/ Len(calls) = 2 /\ MayCall(calls[1], calls[2])
           /\ Top.at = "cleanup" =>
                 /\ ~held /\ main = "returned"
                 /\ \/ Len(calls) = 1
                    \/ Len(calls) = 2 /\ calls[1].at = "cleanup"
<1>1. calls \in Seq(Frame) /\ StackInv /\ MutexInv /\ MainInv
  BY DEF IInv, TypeOK
<1>2. /\ Len(calls) \in Nat \ {0} /\ Top \in Frame /\ Top.at \in Labels
      /\ Top.level \in Levels
  BY <1>1, TopIsAFrame
<1>3. Len(calls) \in {1, 2, 3} /\ Top = calls[Len(calls)]
  <2>1. Len(calls) <= 3
    BY <1>1 DEF StackInv
  <2>2. \A n \in Nat \ {0} : n <= 3 => n \in {1, 2, 3}
    OBVIOUS
  <2>3. Len(calls) \in {1, 2, 3}
    BY <1>2, <2>1, <2>2
  <2> QED  BY <2>3 DEF Top
<1>4. ASSUME Top.at \in InInit, Top.at = "initLock" => ~held
      PROVE  Len(calls) = 1 /\ main = "stat"
  <2>1. Len(calls) # 3
    BY <1>1, <1>3, <1>4 DEF StackInv, MutexInv, Holding, MayCall
  <2>2. Len(calls) # 2
    BY <1>1, <1>3, <1>4 DEF StackInv, MutexInv, Holding, MayCall, InInit, InMsg
  <2> QED  BY <1>1, <1>3, <1>4, <2>1, <2>2 DEF MainInv
<1>5. ASSUME Top.at \in InMsg
      PROVE  \/ Len(calls) = 1
             \/ Len(calls) = 2 /\ MayCall(calls[1], calls[2])
  BY <1>1, <1>3, <1>5 DEF StackInv, InMsg
<1>6. ASSUME Top.at = "cleanup"
      PROVE  /\ ~held /\ main = "returned"
             /\ \/ Len(calls) = 1
                \/ Len(calls) = 2 /\ calls[1].at = "cleanup"
  <2>1. CASE Len(calls) = 1
    BY <1>1, <1>3, <1>6, <2>1 DEF MutexInv, Holding, MainInv
  <2>2. CASE Len(calls) = 2
    <3>1. calls[2].at = "cleanup" /\ calls[1].at = "cleanup"
      BY <1>1, <1>3, <1>6, <2>2 DEF StackInv, MayCall, InMsg
    <3> QED  BY <1>1, <1>3, <2>2, <3>1 DEF MutexInv, Holding, MainInv
  <2>3. Len(calls) # 3
    BY <1>1, <1>3, <1>6 DEF StackInv
  <2> QED  BY <1>1, <1>3, <2>1, <2>2, <2>3
<1> QED  BY <1>1, <1>2, <1>3, <1>4, <1>5, <1>6

-----------------------------------------------------------------------------
(* logging_init.                                                           *)

\* logging_init goes on, alone.
LEMMA InitGoes ==
    ASSUME IInv, Len(calls) = 1, Len(calls') = 1, calls' \in Seq(Frame),
           calls[1].at \in InInit, calls'[1].at \in InInit \ {"initDone"},
           main = "stat", main' = main, up' = up, sent' = sent, lines' = lines,
           config' = config, TypeOK',
           held' <=> calls'[1].at \in Holding,
           calls'[1].at = "initOwn" => Configured,
           calls'[1].at = "initDefault" /\ log_file' = "none" => ~NamedOpens',
           calls'[1].at \in Opening \/ (log_file = "none" => config.status = "bad" \/ ~CanLog)',
           calls'[1].at = "initLock" => calls[1].at = "initLock",
           calls'[1].at = "initLoad" => sent = <<>>,
           sent = <<>> \/ current_log_level' = current_log_level
    PROVE  IInv'
<1>1. StackInv'
  BY DEF StackInv
<1>2. MutexInv'
  BY DEF MutexInv
<1>3. LogInv'
  <2>1. calls' # <<>> /\ Top' = calls'[1]
    <3>1. Len(calls') # 0
      OBVIOUS
    <3>2. calls' # <<>>
      BY <3>1, HasCalls, Zenon
    <3>3. Top' = calls'[1]
      BY DEF Top
    <3> QED  BY <3>2, <3>3
  <2>2. calls'[1].at # "msgWrite"
    BY DEF InInit
  <2> QED  BY <2>1, <2>2 DEF LogInv, Configured
<1>4. MainInv'
  BY DEF IInv, MainInv, InInit
<1>5. LineInv'
  <2>1. /\ \A i \in 1 .. Len(calls) : calls[i].at \notin Filtered
        /\ \A i \in 1 .. Len(calls') : calls'[i].at \notin Filtered
    BY DEF InInit, Filtered
  <2>2. Recorded(lines, sent, Len(sent), current_log_level)
    BY <2>1 DEF IInv, LineInv
  <2>3. calls'[1].at \in {"initLock", "initLoad"} => sent' = <<>>
    BY DEF IInv, LineInv
  <2>4. Recorded(lines', sent', Len(sent'), current_log_level')
    <3>1. CASE sent = <<>>
      BY <2>2, <3>1, EmptySeq, RecordedNone
    <3>2. CASE current_log_level' = current_log_level
      BY <2>2, <3>2
    <3> QED  BY <3>1, <3>2
  <2> QED  BY <2>1, <2>3, <2>4 DEF LineInv
<1> QED  BY <1>1, <1>2, <1>3, <1>4, <1>5 DEF IInv

LEMMA InitLockKeeps ==
    ASSUME IInv, InitLock
    PROVE  IInv'
<1>1. /\ Len(calls) = 1 /\ calls[1].at = "initLock" /\ main = "stat"
      /\ calls # <<>> /\ calls \in Seq(Frame)
  BY Places DEF InitLock, At, InInit
<1>2. /\ Len(calls') = 1 /\ calls' \in Seq(Frame) /\ calls'[1].at = "initLoad"
  BY <1>1, GotoStack DEF InitLock, Labels, Call
<1>3. TypeOK'
  BY <1>2 DEF IInv, TypeOK, InitLock, world, place
<1>4. sent = <<>>
  BY <1>1 DEF IInv, LineInv
<1> QED  BY <1>1, <1>2, <1>3, <1>4, InitGoes
         DEF InitLock, InInit, Holding, Opening, world, place

LEMMA InitLoadKeeps ==
    ASSUME IInv, InitLoad
    PROVE  IInv'
<1>1. /\ Len(calls) = 1 /\ calls[1].at = "initLoad" /\ main = "stat"
      /\ calls # <<>> /\ calls \in Seq(Frame) /\ Top \in Frame
  BY Places DEF InitLoad, At, InInit
<1>2. sent = <<>> /\ held
  BY <1>1 DEF IInv, LineInv, MutexInv, Holding
<1>3. CASE config.status = "usable" /\ current_log_level' = config.level /\ Goto("initOwn", <<>>)
  <2>1. /\ Len(calls') = 1 /\ calls' \in Seq(Frame) /\ calls'[1].at = "initOwn"
    BY <1>1, <1>3, GotoStack DEF Labels, Call
  <2>2. TypeOK'
    BY <1>3, <2>1 DEF IInv, TypeOK, ConfigFile, InitLoad, world, place
  <2> QED  BY <1>1, <1>2, <1>3, <2>1, <2>2, InitGoes
           DEF InitLoad, InInit, Holding, Opening, Configured, world, place
<1>4. CASE config.status = "absent" /\ Goto("initDefault", <<>>) /\ UNCHANGED current_log_level
  <2>1. /\ Len(calls') = 1 /\ calls' \in Seq(Frame) /\ calls'[1].at = "initDefault"
    BY <1>1, <1>4, GotoStack DEF Labels, Call
  <2>2. TypeOK'
    BY <1>4, <2>1 DEF IInv, TypeOK, InitLoad, world, place
  <2>3. ~NamedOpens'
    BY <1>4 DEF NamedOpens, Configured, InitLoad, world, place
  <2> QED  BY <1>1, <1>2, <1>4, <2>1, <2>2, <2>3, InitGoes
           DEF InitLoad, InInit, Holding, Opening, world, place
<1>5. CASE /\ config.status = "bad" /\ Goto("initDefault", <<Call("msg", ERROR)>>)
           /\ UNCHANGED current_log_level
  <2>1. Call("msg", ERROR) \in Frame
    BY DEF Call, Frame, Labels, Levels, ERROR, DEBUG
  <2>2. /\ Len(calls') = 2 /\ calls' \in Seq(Frame)
        /\ calls'[1].at = "initDefault" /\ calls'[2] = Call("msg", ERROR)
    BY <1>1, <1>5, <2>1, GotoCallStack DEF Labels, Call
  <2>3. calls'[2].at = "msg" /\ calls'[2].level = ERROR
    BY <2>2 DEF Call
  <2>4. TypeOK'
    BY <1>5, <2>2 DEF IInv, TypeOK, InitLoad, world, place
  <2>5. /\ config' = config /\ held' = held /\ main' = main /\ up' = up
        /\ lines' = lines /\ sent' = sent
    BY DEF InitLoad, world, place
  <2>6. StackInv'
    BY <1>5, <2>2, <2>3, <2>5 DEF StackInv, MayCall, InInit
  <2>7. MutexInv'
    BY <1>2, <2>2, <2>5 DEF MutexInv, Holding
  <2>8. LogInv'
    <3>1. calls' # <<>> /\ Top' = calls'[2]
      BY <2>2, HasCalls DEF Top
    <3>2. ~Configured'
      BY <1>5, <2>5 DEF Configured
    <3> QED  BY <2>2, <2>3, <3>1, <3>2 DEF LogInv, NamedOpens, Opening
  <2>9. MainInv'
    BY <1>1, <2>2, <2>3, <2>5 DEF IInv, MainInv, InInit
  <2>10. LineInv'
    <3>1. \A i \in 1 .. Len(calls') : calls'[i].at \notin Filtered
      BY <2>2, <2>3 DEF Filtered
    <3>2. Recorded(lines, sent, Len(sent), current_log_level)
      BY <1>1 DEF IInv, LineInv, Filtered
    <3> QED  BY <1>1, <1>2, <1>5, <2>2, <2>5, <3>1, <3>2 DEF LineInv
  <2> QED  BY <2>4, <2>6, <2>7, <2>8, <2>9, <2>10 DEF IInv
<1> QED  BY <1>3, <1>4, <1>5 DEF InitLoad

LEMMA InitOwnKeeps ==
    ASSUME IInv, InitOwn
    PROVE  IInv'
<1>1. /\ Len(calls) = 1 /\ calls[1].at = "initOwn" /\ main = "stat"
      /\ calls # <<>> /\ calls \in Seq(Frame)
  BY Places DEF InitOwn, At, InInit
<1>2. held /\ Configured
  BY <1>1 DEF IInv, LogInv, MutexInv, Holding
<1>3. /\ Len(calls') = 1 /\ calls' \in Seq(Frame) /\ calls'[1].at = "initDefault"
  BY <1>1, GotoStack DEF InitOwn, Labels, Call
<1>4. TypeOK'
  BY <1>3 DEF IInv, TypeOK, InitOwn, place
<1>5. log_file' = "none" => ~NamedOpens'
  BY <1>2 DEF InitOwn, NamedOpens, Configured, place, IInv, TypeOK
<1> QED  BY <1>1, <1>2, <1>3, <1>4, <1>5, InitGoes
         DEF InitOwn, InInit, Holding, Opening, place

LEMMA InitDefaultKeeps ==
    ASSUME IInv, InitDefault
    PROVE  IInv'
<1>1. /\ Len(calls) = 1 /\ calls[1].at = "initDefault" /\ main = "stat"
      /\ calls # <<>> /\ calls \in Seq(Frame)
  BY Places DEF InitDefault, At, InInit
<1>2. held /\ (log_file = "none" => ~NamedOpens)
  BY <1>1 DEF IInv, LogInv, MutexInv, Holding
<1>3. /\ Len(calls') = 1 /\ calls' \in Seq(Frame) /\ calls'[1].at = "initUnlock"
  BY <1>1, GotoStack DEF InitDefault, Labels, Call
<1>4. TypeOK'
  BY <1>3 DEF IInv, TypeOK, InitDefault, place
<1>5. log_file' = "none" => config'.status = "bad" \/ ~CanLog'
  <2>1. log_file' = "none" => log_file = "none" /\ cache' = cache /\ cache \notin {"there", "makeable"}
    BY DEF InitDefault
  <2> QED  BY <1>2, <2>1 DEF InitDefault, CanLog, NamedOpens, Configured, place
<1> QED  BY <1>1, <1>2, <1>3, <1>4, <1>5, InitGoes
         DEF InitDefault, InInit, Holding, Opening, place

LEMMA InitUnlockKeeps ==
    ASSUME IInv, InitUnlock
    PROVE  IInv'
<1>1. /\ Len(calls) = 1 /\ calls[1].at = "initUnlock" /\ main = "stat"
      /\ calls # <<>> /\ calls \in Seq(Frame)
  BY Places DEF InitUnlock, At, InInit
<1>2. Call("msg", INFO) \in Frame
  BY DEF Call, Frame, Labels, Levels, ERROR, INFO, DEBUG
<1>3. /\ Len(calls') = 2 /\ calls' \in Seq(Frame)
      /\ calls'[1].at = "initDone" /\ calls'[2].at = "msg"
  BY <1>1, <1>2, GotoCallStack DEF InitUnlock, Labels, Call
<1>4. /\ config' = config /\ ~held' /\ main' = main /\ up' = up /\ log_file' = log_file
      /\ lines' = lines /\ sent' = sent /\ current_log_level' = current_log_level
      /\ cache' = cache /\ ownOpens' = ownOpens
  BY DEF InitUnlock, world, place
<1>5. TypeOK'
  BY <1>3 DEF IInv, TypeOK, InitUnlock, world, place
<1>6. StackInv'
  BY <1>3 DEF StackInv, MayCall, InInit, InMsg
<1>7. MutexInv'
  BY <1>3, <1>4 DEF MutexInv, Holding
<1>8. LogInv'
  <2>1. calls' # <<>> /\ Top' = calls'[2]
    BY <1>3, HasCalls DEF Top
  <2>2. log_file = "none" => config.status = "bad" \/ ~CanLog
    BY <1>1 DEF IInv, LogInv, Opening
  <2> QED  BY <1>3, <1>4, <2>1, <2>2 DEF LogInv, CanLog, Configured, Opening
<1>9. MainInv'
  BY <1>1, <1>3, <1>4 DEF IInv, MainInv, InInit
<1>10. LineInv'
  <2>1. \A i \in 1 .. Len(calls') : calls'[i].at \notin Filtered
    BY <1>3 DEF Filtered
  <2>2. Recorded(lines, sent, Len(sent), current_log_level)
    BY <1>1 DEF IInv, LineInv, Filtered
  <2> QED  BY <1>1, <1>3, <1>4, <2>1, <2>2 DEF LineInv
<1> QED  BY <1>5, <1>6, <1>7, <1>8, <1>9, <1>10 DEF IInv

LEMMA InitDoneKeeps ==
    ASSUME IInv, InitDone
    PROVE  IInv'
<1>1. /\ Len(calls) = 1 /\ calls[1].at = "initDone" /\ main = "stat"
      /\ calls # <<>> /\ calls \in Seq(Frame)
  BY Places DEF InitDone, At, InInit
<1>2. Len(calls') = 0 /\ calls' \in Seq(Frame) /\ calls' = <<>>
  BY <1>1, ReturnStack, EmptySeq DEF InitDone
<1>3. /\ config' = config /\ held' = held /\ main' = main /\ up' = up
      /\ log_file' = log_file /\ lines' = lines /\ sent' = sent
      /\ current_log_level' = current_log_level
      /\ cache' = cache /\ ownOpens' = ownOpens
  BY DEF InitDone, world, place
<1>4. TypeOK'
  BY <1>2 DEF IInv, TypeOK, InitDone, world, place
<1>5. StackInv'
  BY <1>2 DEF StackInv
<1>6. MutexInv'
  BY <1>1, <1>2, <1>3 DEF IInv, MutexInv, Holding
<1>7. LogInv'
  BY <1>1, <1>2, <1>3 DEF IInv, LogInv, CanLog, Configured, Opening
<1>8. MainInv'
  BY <1>1, <1>2, <1>3 DEF IInv, MainInv
<1>9. LineInv'
  <2>1. Recorded(lines, sent, Len(sent), current_log_level)
    BY <1>1 DEF IInv, LineInv, Filtered
  <2> QED  BY <1>1, <1>2, <1>3, <2>1 DEF LineInv
<1> QED  BY <1>4, <1>5, <1>6, <1>7, <1>8, <1>9 DEF IInv

-----------------------------------------------------------------------------
(* log_message.                                                            *)

\* What log_message and logging_cleanup leave alone.
Quiet == UNCHANGED <<world, log_file, current_log_level>>

\* The call below the message, if any, is not one of log_message's that is past
\* the filter.
LEMMA MsgPlaces ==
    ASSUME IInv, calls # <<>>, Top.at \in InMsg
    PROVE  /\ Len(calls) \in {1, 2} /\ calls[Len(calls)] = Top
           /\ Len(calls) = 2 =>
                 \/ calls[1].at \in {"initDone", "msg"}
                 \/ /\ calls[1].at = "initDefault" /\ Top.at \in {"msg", "msgLock"}
                    /\ Top.level = ERROR /\ config.status = "bad"
           /\ main = "returned" => config.status = "absent"
<1>1. /\ Len(calls) \in {1, 2, 3} /\ calls[Len(calls)] = Top
      /\ \/ Len(calls) = 1
         \/ Len(calls) = 2 /\ MayCall(calls[1], calls[2])
  BY Places
<1>2. Len(calls) = 2 =>
          \/ calls[1].at \in {"initDone", "msg"}
          \/ /\ calls[1].at = "initDefault" /\ Top.at \in {"msg", "msgLock"}
             /\ Top.level = ERROR /\ config.status = "bad"
  BY <1>1 DEF MayCall, InMsg
<1>3. calls[1].at # "cleanup"
  BY <1>1, <1>2 DEF InMsg
<1>4. main = "returned" => config.status = "absent"
  BY <1>3 DEF IInv, MainInv
<1> QED  BY <1>1, <1>2, <1>4

\* log_message goes on at l.
LEMMA MsgGoes ==
    ASSUME IInv, calls # <<>>, Top.at \in InMsg, NEW l \in Filtered, Goto(l, <<>>),
           Quiet, TypeOK', LineInv',
           l = "msgLock" => Top.at = "msg" /\ held' = held,
           l # "msgLock" => held',
           l # "msgLock" => Len(calls) = 1 \/ calls[1].at # "initDefault",
           l = "msgWrite" => log_file # "none"
    PROVE  IInv'
<1>1. /\ Len(calls) \in {1, 2} /\ calls[Len(calls)] = Top
      /\ Len(calls) = 2 =>
            \/ calls[1].at \in {"initDone", "msg"}
            \/ /\ calls[1].at = "initDefault" /\ Top.at \in {"msg", "msgLock"}
               /\ Top.level = ERROR /\ config.status = "bad"
      /\ main = "returned" => config.status = "absent"
  BY MsgPlaces
<1>2. calls \in Seq(Frame)
  BY Places
<1>3. /\ Len(calls') = Len(calls) /\ calls' \in Seq(Frame)
      /\ \A i \in 1 .. Len(calls) - 1 : calls'[i] = calls[i]
      /\ calls'[Len(calls)] = Call(l, Top.level)
  BY <1>2, GotoStack DEF Filtered, Labels, SameBelow
<1>4. /\ Len(calls) = 2 => calls'[1] = calls[1]
      /\ calls'[Len(calls)].at = l /\ calls'[Len(calls)].level = Top.level
  BY <1>1, <1>3 DEF Call
<1>5. /\ config' = config /\ main' = main /\ up' = up /\ cache' = cache
      /\ ownOpens' = ownOpens /\ log_file' = log_file
      /\ current_log_level' = current_log_level
  BY DEF Quiet, world, place
<1>6. l \in InMsg
  BY DEF Filtered, InMsg
<1>7. StackInv'
  <2>1. CASE Len(calls) = 1
    BY <1>3, <2>1 DEF StackInv
  <2>2. CASE Len(calls) = 2
    <3>1. Len(calls') = 2
      BY <1>3, <2>2
    <3>2. MayCall(calls[1], calls[2])'
      BY <1>1, <1>3, <1>4, <1>5, <1>6, <2>2 DEF MayCall, InMsg
    <3>3. calls'[2].at \notin InInit
      BY <1>4, <1>6, <2>2 DEF InInit, InMsg
    <3> QED  BY <3>1, <3>2, <3>3 DEF StackInv
  <2> QED  BY <1>1, <2>1, <2>2
<1>8. MutexInv'
  <2>1. held' \in BOOLEAN /\ held \in BOOLEAN
    BY DEF IInv, TypeOK
  <2>2. CASE l = "msgLock"
    <3>1. held <=> (Len(calls) = 2 /\ calls[1].at = "initDefault")
      BY <1>1, <2>2 DEF IInv, MutexInv, Holding
    <3> QED  BY <1>1, <1>3, <1>4, <2>1, <2>2, <3>1 DEF MutexInv, Holding
  <2>3. CASE l # "msgLock"
    BY <1>1, <1>3, <1>4, <2>3 DEF MutexInv, Holding, Filtered
  <2> QED  BY <2>2, <2>3
<1>9. LogInv'
  <2>1. calls' # <<>> /\ Top' = calls'[Len(calls)]
    BY <1>1, <1>3, HasCalls DEF Top
  <2>2. Len(calls) = 1 => calls[1].at \notin {"initOwn", "cleanup"} \union Opening
    BY <1>1 DEF InMsg, Opening
  <2>3. Len(calls) = 2 => calls[1].at \notin {"initOwn", "cleanup"}
    BY <1>1
  <2>4. Len(calls) = 1 => calls'[1].at \notin {"initOwn", "initDefault"}
    BY <1>3, <1>4, <1>6 DEF InMsg
  <2>5. \/ main = "start"
        \/ calls'[1].at \in Opening
        \/ log_file = "none" => config.status = "bad" \/ ~CanLog
    BY <1>1, <1>4, <2>2, <2>3 DEF IInv, LogInv
  <2>6. CanLog' = CanLog /\ NamedOpens' = NamedOpens
    BY <1>5 DEF CanLog, NamedOpens, Configured
  <2>7. calls'[1].at = "initDefault" /\ log_file = "none" => ~NamedOpens
    BY <1>1, <1>4, <2>4 DEF IInv, LogInv
  <2> QED  BY <1>1, <1>4, <1>5, <2>1, <2>3, <2>4, <2>5, <2>6, <2>7 DEF LogInv
<1>10. MainInv'
  BY <1>1, <1>3, <1>4, <1>5, <1>6, HasCalls DEF IInv, MainInv, InInit, InMsg
<1> QED  BY <1>7, <1>8, <1>9, <1>10 DEF IInv

\* log_message is over.
LEMMA MsgReturns ==
    ASSUME IInv, calls # <<>>, Top.at \in InMsg, Return, Quiet, TypeOK', LineInv',
           ~held', Len(calls) = 1 \/ calls[1].at # "initDefault"
    PROVE  IInv'
<1>1. /\ Len(calls) \in {1, 2} /\ calls[Len(calls)] = Top
      /\ Len(calls) = 2 => calls[1].at \in {"initDone", "msg"}
      /\ main = "returned" => config.status = "absent"
  BY MsgPlaces
<1>2. calls \in Seq(Frame)
  BY Places
<1>3. /\ Len(calls') = Len(calls) - 1 /\ calls' \in Seq(Frame)
      /\ Len(calls) = 2 => calls'[1] = calls[1]
  BY <1>1, <1>2, ReturnStack DEF SameBelow
<1>4. Len(calls) = 1 => calls' = <<>>
  BY <1>3, EmptySeq
<1>5. /\ config' = config /\ main' = main /\ up' = up /\ cache' = cache
      /\ ownOpens' = ownOpens /\ log_file' = log_file
      /\ current_log_level' = current_log_level
  BY DEF Quiet, world, place
<1>6. StackInv'
  <2>1. Len(calls') \in {0, 1}
    BY <1>1, <1>3
  <2> QED  BY <2>1 DEF StackInv
<1>7. MutexInv'
  BY <1>1, <1>3 DEF MutexInv, Holding
<1>8. LogInv'
  <2>1. Len(calls) = 2 => calls' # <<>> /\ Top' = calls[1]
    BY <1>3, HasCalls DEF Top
  <2>2. calls[1].at \notin {"initOwn", "cleanup"} \union Opening
    BY <1>1 DEF InMsg, Opening
  <2>3. main = "start" \/ (log_file = "none" => config.status = "bad" \/ ~CanLog)
    BY <2>2, <1>1 DEF IInv, LogInv
  <2>4. CanLog' = CanLog
    BY <1>5 DEF CanLog, Configured
  <2> QED  BY <1>1, <1>3, <1>4, <1>5, <2>1, <2>2, <2>3, <2>4 DEF LogInv
<1>9. MainInv'
  BY <1>1, <1>3, <1>4, <1>5, HasCalls DEF IInv, MainInv, InInit
<1> QED  BY <1>6, <1>7, <1>8, <1>9 DEF IInv

LEMMA FilterKeeps ==
    ASSUME IInv, Filter
    PROVE  IInv'
<1>1. /\ calls # <<>> /\ Top.at = "msg" /\ Top.at \in InMsg /\ Top.level \in Levels
      /\ calls \in Seq(Frame)
  BY Places DEF Filter, At, InMsg
<1>2. /\ Len(calls) \in {1, 2} /\ calls[Len(calls)] = Top
      /\ Len(calls) = 2 =>
            \/ calls[1].at \in {"initDone", "msg"}
            \/ calls[1].at = "initDefault" /\ Top.level = ERROR
  BY <1>1, MsgPlaces
<1>3. /\ sent' = Append(sent, Top.level) /\ sent \in Seq(Levels) /\ Quiet /\ held' = held
      /\ lines' = lines /\ main' = main /\ current_log_level' = current_log_level
      /\ current_log_level \in Levels
  BY DEF Filter, IInv, TypeOK, world, Quiet
<1>4. /\ sent' \in Seq(Levels) /\ sent' # <<>> /\ Len(sent') = Len(sent) + 1
      /\ sent'[Len(sent) + 1] = Top.level /\ Len(sent) \in Nat
      /\ \A i \in 1 .. Len(sent) : sent'[i] = sent[i]
  BY <1>1, <1>3, AppendProperties, LenProperties
<1>5. \A i \in 1 .. Len(calls) : calls[i].at \notin Filtered
  BY <1>1, <1>2 DEF Filtered
<1>6. Recorded(lines, sent', Len(sent), current_log_level)
  <2>1. Recorded(lines, sent, Len(sent), current_log_level)
    BY <1>5 DEF IInv, LineInv
  <2> QED  BY <1>4, <2>1, RecordedSame
<1>7. main # "start"
  BY <1>1 DEF IInv, MainInv
<1>8. CASE Top.level < current_log_level /\ Return
  <2>1. Len(calls) = 1 \/ calls[1].at # "initDefault"
    BY <1>2, <1>3, <1>8 DEF Levels, DEBUG, ERROR
  <2>2. ~held
    <3>1. \A i \in 1 .. Len(calls) : calls[i].at \notin Holding
      BY <1>1, <1>2, <2>1 DEF Holding
    <3> QED  BY <3>1 DEF IInv, MutexInv
  <2>3. /\ Len(calls') = Len(calls) - 1 /\ calls' \in Seq(Frame)
        /\ Len(calls) = 2 => calls'[1] = calls[1]
    BY <1>1, <1>2, <1>8, ReturnStack DEF SameBelow
  <2>4. TypeOK'
    BY <1>3, <1>4, <2>3 DEF IInv, TypeOK, Quiet, world, place
  <2>5. LineInv'
    <3>1. ~(Top.level >= current_log_level)
      BY <1>1, <1>3, <1>8 DEF Levels, DEBUG, ERROR
    <3>2. Recorded(lines, sent', Len(sent) + 1, current_log_level)
      BY <1>4, <1>6, <3>1, RecordedSkip
    <3>3. \A i \in 1 .. Len(calls') : i = 1 /\ Len(calls) = 2 /\ calls'[i] = calls[1]
      BY <1>2, <2>3
    <3>4. \A i \in 1 .. Len(calls') : calls'[i].at \notin Filtered
      BY <1>2, <1>5, <3>3
    <3>5. ~(Len(calls') = 1 /\ calls'[1].at \in {"initLock", "initLoad"})
      BY <1>2, <2>1, <2>3
    <3> QED  BY <1>3, <1>4, <1>7, <3>2, <3>4, <3>5 DEF LineInv
  <2> QED  BY <1>1, <1>3, <1>8, <2>1, <2>2, <2>4, <2>5, MsgReturns
<1>9. CASE ~(Top.level < current_log_level) /\ Goto("msgLock", <<>>)
  <2>1. /\ Len(calls') = Len(calls) /\ calls' \in Seq(Frame)
        /\ Len(calls) = 2 => calls'[1] = calls[1]
        /\ calls'[Len(calls)] = Call("msgLock", Top.level)
    BY <1>1, <1>2, <1>9, GotoStack DEF SameBelow, Labels
  <2>2. TypeOK'
    BY <1>3, <1>4, <2>1 DEF IInv, TypeOK, Quiet, world, place
  <2>3. LineInv'
    <3>1. Top.level >= current_log_level
      BY <1>1, <1>3, <1>9 DEF Levels, DEBUG, ERROR
    <3>2. calls'[Len(calls)].at \in Filtered /\ calls'[Len(calls)].level = Top.level
      BY <2>1 DEF Call, Filtered
    <3>3. \A i \in 1 .. Len(calls') : calls'[i].at \in Filtered => i = Len(calls)
      BY <1>2, <1>5, <2>1
    <3>4. Recorded(lines', sent', Len(sent') - 1, current_log_level')
      <4>1. Len(sent') - 1 = Len(sent)
        BY <1>4
      <4> QED  BY <1>3, <1>6, <4>1
    <3>5. ~(Len(calls') = 1 /\ calls'[1].at \in {"initLock", "initLoad"})
      BY <2>1, <3>2 DEF Filtered
    <3>6. Len(calls) \in 1 .. Len(calls')
      BY <1>2, <2>1
    <3>7. sent'[Len(sent')] = Top.level
      BY <1>4
    <3> QED  BY <1>3, <1>4, <1>7, <3>1, <3>2, <3>3, <3>4, <3>5, <3>6, <3>7 DEF LineInv
  <2> QED  BY <1>1, <1>3, <1>9, <2>2, <2>3, MsgGoes DEF Filtered
<1> QED  BY <1>8, <1>9 DEF Filter

\* The message on its way is the only one, and only it is missing in the log.
LEMMA OnItsWay ==
    ASSUME IInv, calls # <<>>, Top.at \in Filtered
    PROVE  /\ \A i \in 1 .. Len(calls) - 1 : calls[i].at \notin Filtered
           /\ sent # <<>> /\ sent[Len(sent)] = Top.level
           /\ Top.level >= current_log_level
           /\ Recorded(lines, sent, Len(sent) - 1, current_log_level)
           /\ main # "start"
<1>1. /\ Len(calls) \in {1, 2} /\ calls[Len(calls)] = Top
      /\ Len(calls) = 2 => calls[1].at \in {"initDone", "msg", "initDefault"}
  BY MsgPlaces DEF Filtered, InMsg
<1>2. \A i \in 1 .. Len(calls) - 1 : calls[i].at \notin Filtered
  BY <1>1 DEF Filtered
<1>3. Len(calls) \in 1 .. Len(calls)
  BY <1>1
<1> QED  BY <1>1, <1>2, <1>3 DEF IInv, LineInv, MainInv

\* A step that takes the message nearer to the log.
LEMMA NearerKeeps ==
    ASSUME IInv, calls # <<>>, Top.at \in Filtered, NEW l \in Filtered, Goto(l, <<>>),
           Quiet, UNCHANGED <<sent, lines>>
    PROVE  /\ held' \in BOOLEAN => TypeOK'
           /\ LineInv'
<1>1. Len(calls) \in {1, 2} /\ calls[Len(calls)] = Top /\ calls \in Seq(Frame)
  BY MsgPlaces, Places DEF Filtered, InMsg
<1>2. /\ \A i \in 1 .. Len(calls) - 1 : calls[i].at \notin Filtered
      /\ sent # <<>> /\ sent[Len(sent)] = Top.level
      /\ Top.level >= current_log_level
      /\ Recorded(lines, sent, Len(sent) - 1, current_log_level)
      /\ main # "start"
  BY OnItsWay
<1>3. /\ Len(calls') = Len(calls) /\ calls' \in Seq(Frame)
      /\ \A i \in 1 .. Len(calls) - 1 : calls'[i] = calls[i]
      /\ calls'[Len(calls)] = Call(l, Top.level)
  BY <1>1, GotoStack DEF SameBelow, Filtered, Labels
<1>4. calls'[Len(calls)].at = l /\ calls'[Len(calls)].level = Top.level
  BY <1>3 DEF Call
<1>5. held' \in BOOLEAN => TypeOK'
  BY <1>3 DEF IInv, TypeOK, Quiet, world, place
<1>6. \A i \in 1 .. Len(calls') : calls'[i].at \in Filtered => i = Len(calls)
  BY <1>1, <1>2, <1>3
<1>7. ~(Len(calls') = 1 /\ calls'[1].at \in {"initLock", "initLoad"})
  BY <1>3, <1>4 DEF Filtered
<1>8. Len(calls) \in 1 .. Len(calls')
  BY <1>1, <1>3
<1>9. main' = main /\ current_log_level' = current_log_level /\ sent' = sent /\ lines' = lines
  BY DEF Quiet, world
<1>10. LineInv'
  BY <1>2, <1>4, <1>6, <1>7, <1>8, <1>9 DEF LineInv
<1> QED  BY <1>5, <1>10

LEMMA MsgLockKeeps ==
    ASSUME IInv, MsgLock
    PROVE  IInv'
<1>1. calls # <<>> /\ Top.at = "msgLock" /\ Top.at \in InMsg /\ Top.at \in Filtered
  BY DEF MsgLock, At, InMsg, Filtered
<1>2. /\ Goto("msgFile", <<>>) /\ Quiet /\ held' = TRUE /\ ~held
      /\ UNCHANGED <<sent, lines>> /\ "msgFile" \in Filtered
  BY DEF MsgLock, Quiet, world, Filtered
<1>3. TypeOK' /\ LineInv'
  BY <1>1, <1>2, NearerKeeps
<1>4. Len(calls) \in {1, 2}
  BY <1>1, MsgPlaces
<1>5. calls[1].at # "initDefault"
  BY <1>2, <1>4 DEF IInv, MutexInv, Holding
<1> QED  BY <1>1, <1>2, <1>3, <1>5, MsgGoes

LEMMA MsgFileKeeps ==
    ASSUME IInv, MsgFile
    PROVE  IInv'
<1>1. /\ calls # <<>> /\ Top.at = "msgFile" /\ Top.at \in InMsg /\ Top.at \in Filtered
      /\ Top.level \in Levels /\ calls \in Seq(Frame)
  BY Places DEF MsgFile, At, InMsg, Filtered
<1>2. /\ Len(calls) \in {1, 2} /\ calls[Len(calls)] = Top
      /\ Len(calls) = 2 => calls[1].at \in {"initDone", "msg"}
  BY <1>1, MsgPlaces
<1>3. Quiet /\ held' = held /\ UNCHANGED <<sent, lines>> /\ "msgWrite" \in Filtered
  BY DEF MsgFile, Quiet, world, Filtered
<1>4. held /\ held \in BOOLEAN
  <2>1. Len(calls) \in 1 .. Len(calls) /\ calls[Len(calls)].at \in Holding
    BY <1>1, <1>2 DEF Holding
  <2> QED  BY <2>1 DEF IInv, MutexInv, TypeOK
<1>5. CASE log_file # "none"
  <2>1. Goto("msgWrite", <<>>)
    BY <1>5 DEF MsgFile
  <2>2. TypeOK' /\ LineInv'
    BY <1>1, <1>3, <1>4, <2>1, NearerKeeps
  <2>3. Len(calls) = 1 \/ calls[1].at # "initDefault"
    BY <1>2
  <2> QED  BY <1>1, <1>3, <1>4, <1>5, <2>1, <2>2, <2>3, MsgGoes
<1>6. CASE log_file = "none"
  <2> DEFINE g == Call("initLock", Top.level)
             n == Len(calls)
  <2>1. g \in Frame /\ g.at = "initLock"
    BY <1>1 DEF Call, Frame, Labels
  <2>2. Goto("msgWrite", <<g>>)
    BY <1>6 DEF MsgFile
  <2> HIDE DEF g
  <2>3. /\ Len(calls') = n + 1 /\ calls' \in Seq(Frame)
        /\ \A i \in 1 .. n - 1 : calls'[i] = calls[i]
        /\ calls'[n] = Call("msgWrite", Top.level) /\ calls'[n + 1] = g
    BY <1>1, <2>1, <2>2, GotoCallStack DEF SameBelow, Labels
  <2>4. /\ calls'[n].at = "msgWrite" /\ calls'[n].level = Top.level
        /\ calls'[n + 1].at = "initLock" /\ n \in {1, 2}
        /\ n = 2 => calls'[1] = calls[1]
    <3>1. n \in {1, 2}
      BY <1>2
    <3>2. n = 2 => calls'[1] = calls[1]
      BY <2>3
    <3>3. calls'[n].at = "msgWrite" /\ calls'[n].level = Top.level
      BY <2>3 DEF Call
    <3> HIDE DEF n
    <3> QED  BY <2>1, <2>3, <3>1, <3>2, <3>3
  <2>5. /\ config' = config /\ main' = main /\ up' = up /\ cache' = cache
        /\ ownOpens' = ownOpens /\ log_file' = log_file
        /\ current_log_level' = current_log_level
    BY <1>3 DEF Quiet, world, place
  <2>6. TypeOK'
    BY <1>3, <1>4, <2>3, <2>5 DEF IInv, TypeOK
  <2> HIDE DEF n
  <2>7. StackInv'
    <3>1. CASE n = 1
      <4>1. Len(calls') = 2 /\ calls'[1].at = "msgWrite" /\ calls'[2].at = "initLock"
        BY <2>3, <2>4, <3>1
      <4>2. MayCall(calls[1], calls[2])'
        BY <1>6, <2>5, <4>1 DEF MayCall
      <4>3. \A i \in 2 .. 2 : calls'[i - 1].at = "msgWrite"
        BY <4>1
      <4> QED  BY <4>1, <4>2, <4>3 DEF StackInv
    <3>2. CASE n = 2
      <4>1. /\ Len(calls') = 3 /\ calls'[1].at \in {"initDone", "msg"}
            /\ calls'[2].at = "msgWrite" /\ calls'[3].at = "initLock"
        BY <1>2, <2>3, <2>4, <3>2 DEF n
      <4>2. MayCall(calls[2], calls[3])'
        BY <1>6, <2>5, <4>1 DEF MayCall
      <4>3. \A i \in 2 .. 3 : calls'[i].at \in InInit => calls'[i - 1].at = "msgWrite"
        BY <4>1 DEF InInit
      <4> QED  BY <4>1, <4>2, <4>3 DEF StackInv
    <3> QED  BY <2>4, <3>1, <3>2
  <2>8. MutexInv'
    <3>1. n \in 1 .. Len(calls') /\ calls'[n].at \in Holding
      BY <2>3, <2>4 DEF Holding
    <3> QED  BY <1>3, <1>4, <3>1 DEF MutexInv
  <2>9. LogInv'
    <3>1. calls' # <<>> /\ Top' = calls'[n + 1]
      BY <2>3, <2>4, HasCalls DEF Top
    <3>2. calls[1].at \notin {"initOwn", "cleanup"} \union Opening
      BY <1>1, <1>2 DEF Opening
    <3>3. main = "start" \/ (main = "returned" /\ calls[1].at = "cleanup")
          \/ (log_file = "none" => config.status = "bad" \/ ~CanLog)
      BY <1>1, <3>2 DEF IInv, LogInv
    <3>4. calls'[1].at \notin {"initOwn", "initDefault"}
      BY <1>2, <2>4 DEF n
    <3>5. CanLog' = CanLog
      BY <2>5 DEF CanLog, Configured
    <3> QED  BY <2>4, <2>5, <3>1, <3>2, <3>3, <3>4, <3>5 DEF LogInv
  <2>10. MainInv'
    <3>1. main = "returned" => config.status = "absent"
      BY <1>1, MsgPlaces
    <3>2. main # "start"
      BY <1>1 DEF IInv, MainInv
    <3>3. \A i \in 1 .. Len(calls') :
              /\ i = 1 /\ calls'[i].at \in InInit => n = 2 /\ calls[1].at \in InInit
              /\ calls'[i].at # "cleanup"
      BY <1>2, <2>3, <2>4 DEF InInit, n
    <3>4. n = 2 /\ calls[1].at \in InInit => main = "stat"
      BY DEF n, IInv, MainInv
    <3> QED  BY <2>5, <3>1, <3>2, <3>3, <3>4 DEF IInv, MainInv
  <2>11. LineInv'
    <3>1. /\ \A i \in 1 .. n - 1 : calls[i].at \notin Filtered
          /\ sent # <<>> /\ sent[Len(sent)] = Top.level
          /\ Top.level >= current_log_level
          /\ Recorded(lines, sent, Len(sent) - 1, current_log_level)
          /\ main # "start"
      BY <1>1, OnItsWay DEF n
    <3>2. \A i \in 1 .. Len(calls') : calls'[i].at \in Filtered => i = n
      BY <2>3, <2>4, <3>1 DEF Filtered
    <3>3. n \in 1 .. Len(calls') /\ calls'[n].at \in Filtered /\ Len(calls') # 1
      BY <2>3, <2>4 DEF Filtered
    <3> QED  BY <1>3, <2>4, <2>5, <3>1, <3>2, <3>3 DEF LineInv
  <2> QED  BY <2>6, <2>7, <2>8, <2>9, <2>10, <2>11 DEF IInv
<1> QED  BY <1>5, <1>6

LEMMA MsgWriteKeeps ==
    ASSUME IInv, MsgWrite
    PROVE  IInv'
<1>1. /\ calls # <<>> /\ Top.at = "msgWrite" /\ Top.at \in InMsg /\ Top.at \in Filtered
      /\ Top.level \in Levels /\ calls \in Seq(Frame)
  BY Places DEF MsgWrite, At, InMsg, Filtered
<1>2. /\ Len(calls) \in {1, 2}
      /\ Len(calls) = 2 => calls[1].at \in {"initDone", "msg"}
  BY <1>1, MsgPlaces
<1>3. /\ \A i \in 1 .. Len(calls) - 1 : calls[i].at \notin Filtered
      /\ sent # <<>> /\ sent[Len(sent)] = Top.level
      /\ Top.level >= current_log_level
      /\ Recorded(lines, sent, Len(sent) - 1, current_log_level)
      /\ main # "start"
  BY <1>1, OnItsWay
<1>4. log_file # "none"
  BY <1>1 DEF IInv, LogInv
<1>5. /\ Quiet /\ Return /\ held' = FALSE /\ sent' = sent /\ main' = main
      /\ lines' = Append(lines, Top.level) /\ current_log_level' = current_log_level
  BY <1>4 DEF MsgWrite, Quiet, world
<1>6. sent \in Seq(Levels) /\ lines \in Seq(Levels) /\ Len(sent) \in Nat \ {0}
  BY <1>3, EmptySeq DEF IInv, TypeOK
<1>7. lines' \in Seq(Levels)
  BY <1>1, <1>5, <1>6, AppendProperties
<1>8. /\ Len(calls') = Len(calls) - 1 /\ calls' \in Seq(Frame)
      /\ Len(calls) = 2 => calls'[1] = calls[1]
  BY <1>1, <1>2, <1>5, ReturnStack DEF SameBelow
<1>9. TypeOK'
  BY <1>5, <1>7, <1>8 DEF IInv, TypeOK, Quiet, world, place
<1>10. LineInv'
  <2>1. Len(sent) - 1 \in Nat /\ (Len(sent) - 1) + 1 = Len(sent)
    BY <1>6
  <2>2. Recorded(lines', sent, (Len(sent) - 1) + 1, current_log_level)
    BY <1>1, <1>3, <1>5, <1>6, <2>1, RecordedLine
  <2>3. Recorded(lines', sent', Len(sent'), current_log_level')
    BY <1>5, <2>1, <2>2
  <2>4. \A i \in 1 .. Len(calls') : calls'[i].at \in {"initDone", "msg"}
    BY <1>2, <1>8
  <2>5. \A i \in 1 .. Len(calls') : calls'[i].at \notin Filtered
    BY <2>4 DEF Filtered
  <2>6. ~(Len(calls') = 1 /\ calls'[1].at \in {"initLock", "initLoad"})
    BY <2>4
  <2> QED  BY <1>3, <1>5, <2>3, <2>5, <2>6 DEF LineInv
<1> QED  BY <1>1, <1>2, <1>5, <1>9, <1>10, MsgReturns

-----------------------------------------------------------------------------
(* logging_cleanup.                                                        *)

LEMMA CleanupKeeps ==
    ASSUME IInv, Cleanup
    PROVE  IInv'
<1>1. /\ calls # <<>> /\ Top.at = "cleanup" /\ calls \in Seq(Frame)
      /\ main = "returned" /\ ~held
      /\ \/ Len(calls) = 1
         \/ Len(calls) = 2 /\ calls[1].at = "cleanup"
      /\ Top = calls[Len(calls)]
  BY Places DEF Cleanup, At
<1>2. /\ Return /\ log_file' = "none" /\ config' = config /\ main' = main /\ up' = up
      /\ held' = held /\ sent' = sent /\ lines' = lines
      /\ current_log_level' = current_log_level
  BY DEF Cleanup, world, place
<1>3. /\ Len(calls') \in {0, 1} /\ calls' \in Seq(Frame)
      /\ \A i \in 1 .. Len(calls') : calls'[i].at = "cleanup"
      /\ Len(calls') = 0 => calls' = <<>>
  <2>1. /\ Len(calls') = Len(calls) - 1 /\ calls' \in Seq(Frame)
        /\ \A i \in 1 .. Len(calls) - 1 : calls'[i] = calls[i]
    BY <1>1, <1>2, ReturnStack DEF SameBelow
  <2>2. Len(calls') = 0 => calls' = <<>>
    BY <2>1, EmptySeq
  <2>3. CASE Len(calls) = 1
    BY <2>1, <2>2, <2>3
  <2>4. CASE Len(calls) = 2 /\ calls[1].at = "cleanup"
    BY <2>1, <2>2, <2>4
  <2> QED  BY <1>1, <2>3, <2>4
<1>4. TypeOK'
  BY <1>2, <1>3 DEF IInv, TypeOK, Cleanup, world, place
<1>5. StackInv'
  BY <1>3 DEF StackInv
<1>6. MutexInv'
  BY <1>1, <1>2, <1>3 DEF MutexInv, Holding
<1>7. calls' # <<>> => Len(calls') = 1 /\ calls'[1].at = "cleanup" /\ Top' = calls'[1]
  <2>1. calls' # <<>> => Len(calls') = 1
    BY <1>3
  <2>2. Top' = calls'[Len(calls')]
    BY DEF Top
  <2>3. Len(calls') = 1 => calls'[1].at = "cleanup"
    BY <1>3
  <2>4. Len(calls') = 1 => Top' = calls'[1]
    BY <2>2
  <2> QED  BY <2>1, <2>3, <2>4
<1>8. LogInv'
  BY <1>1, <1>2, <1>7 DEF LogInv
<1>9. MainInv'
  BY <1>1, <1>2, <1>3, <1>7 DEF IInv, MainInv, InInit
<1>10. LineInv'
  <2>1. /\ \A i \in 1 .. Len(calls) : calls[i].at \notin Filtered
        /\ \A i \in 1 .. Len(calls') : calls'[i].at \notin Filtered
    BY <1>1, <1>3 DEF Filtered
  <2>2. Recorded(lines, sent, Len(sent), current_log_level)
    BY <2>1 DEF IInv, LineInv
  <2> QED  BY <1>1, <1>2, <1>3, <2>1, <2>2 DEF LineInv
<1> QED  BY <1>4, <1>5, <1>6, <1>8, <1>9, <1>10 DEF IInv

LEMMA InLoggingKeeps ==
    ASSUME IInv, InLogging
    PROVE  IInv'
BY InitLockKeeps, InitLoadKeeps, InitOwnKeeps, InitDefaultKeeps, InitUnlockKeeps,
   InitDoneKeeps, FilterKeeps, MsgLockKeeps, MsgFileKeeps, MsgWriteKeeps, CleanupKeeps
   DEF InLogging

-----------------------------------------------------------------------------
(* main.                                                                   *)

\* What main calls before it goes on: at most two messages, or the cleanup once
\* or twice.
Messages == {c \in Seq(Frame) : Len(c) <= 2 /\ \A i \in 1 .. Len(c) : c[i].at = "msg"}

Cleanups ==
    {c \in Seq(Frame) : Len(c) \in {1, 2} /\ \A i \in 1 .. Len(c) : c[i].at = "cleanup"}

\* main logs up to two messages and goes on.
LEMMA MainLogs ==
    ASSUME IInv, calls = <<>>, main \notin {"start", "returned"},
           NEW m \in {"wizard", "network", "networkDown", "db", "dbDown", "parse",
                      "command", "over", "returned", "exited"},
           NEW c \in Messages, MainTo(m, c), Still,
           m \in {"wizard", "returned"} => config.status = "absent",
           cache' = cache \/ (cache' = "there" /\ cache \in {"there", "makeable"}),
           up' = Brought(m)
    PROVE  IInv'
<1>1. /\ config' = config /\ ownOpens' = ownOpens /\ held' = held /\ log_file' = log_file
      /\ current_log_level' = current_log_level /\ sent' = sent /\ lines' = lines
      /\ main' = m /\ calls' = c
  BY DEF Still, place, MainTo
<1> c \in Seq(Frame) /\ Len(c) <= 2 /\ \A i \in 1 .. Len(c) : c[i].at = "msg"
  BY DEF Messages
<1>2. Len(c) \in {0, 1, 2}
  <2>1. Len(c) \in Nat
    BY LenProperties
  <2>2. \A n \in Nat : n <= 2 => n \in {0, 1, 2}
    OBVIOUS
  <2> QED  BY <2>1, <2>2
<1>3. TypeOK'
  <2>1. cache' \in {"there", "makeable", "orphan", "denied"}
    BY DEF IInv, TypeOK
  <2>2. up' \subseteq {"encryption", "network", "db"}
    BY DEF Brought
  <2> QED  BY <1>1, <2>1, <2>2 DEF IInv, TypeOK
<1>4. Len(calls) = 0
  BY EmptySeq
<1>5. ~held
  BY <1>4 DEF IInv, MutexInv
<1>6. StackInv'
  <2>1. Len(c) = 2 => MayCall(calls[1], calls[2])'
    BY <1>1 DEF MayCall, InMsg
  <2>2. \A i \in 1 .. Len(c) : c[i].at \notin InInit
    BY DEF InInit
  <2> QED  BY <1>1, <1>2, <2>1, <2>2 DEF StackInv
<1>7. MutexInv'
  BY <1>1, <1>5 DEF MutexInv, Holding
<1>8. LogInv'
  <2>1. log_file = "none" => config.status = "bad" \/ ~CanLog
    BY DEF IInv, LogInv
  <2>2. CanLog' = CanLog
    BY <1>1 DEF CanLog, Configured
  <2>3. c # <<>> => Top' = c[Len(c)] /\ c[1].at = "msg" /\ c[Len(c)].at = "msg"
    <3>1. c # <<>> => Len(c) # 0
      BY EmptySeq
    <3>2. c # <<>> => 1 \in 1 .. Len(c) /\ Len(c) \in 1 .. Len(c)
      BY <1>2, <3>1
    <3>3. Top' = c[Len(c)]
      BY <1>1 DEF Top
    <3> QED  BY <3>2, <3>3
  <2> QED  BY <1>1, <2>1, <2>2, <2>3 DEF LogInv
<1>9. MainInv'
  BY <1>1 DEF MainInv, InInit
<1>10. LineInv'
  <2>1. Recorded(lines, sent, Len(sent), current_log_level)
    BY <1>4 DEF IInv, LineInv
  <2>2. \A i \in 1 .. Len(c) : c[i].at \notin Filtered \union {"initLock", "initLoad"}
    BY DEF Filtered
  <2>3. ~(Len(c) = 1 /\ c[1].at \in {"initLock", "initLoad"})
    BY <2>2
  <2> QED  BY <1>1, <2>1, <2>2, <2>3 DEF LineInv
<1> QED  BY <1>3, <1>6, <1>7, <1>8, <1>9, <1>10 DEF IInv

\* main takes down what it has brought up, and the log once or twice.
LEMMA MainTakesDown ==
    ASSUME IInv, calls = <<>>, main \notin {"start", "returned"},
           NEW c \in Cleanups, MainTo("returned", c), Still, cache' = cache, up' = {}
    PROVE  IInv'
<1>1. /\ config' = config /\ ownOpens' = ownOpens /\ held' = held /\ log_file' = log_file
      /\ current_log_level' = current_log_level /\ sent' = sent /\ lines' = lines
      /\ main' = "returned" /\ calls' = c
  BY DEF Still, place, MainTo
<1> c \in Seq(Frame) /\ Len(c) \in {1, 2} /\ \A i \in 1 .. Len(c) : c[i].at = "cleanup"
  BY DEF Cleanups
<1>2. TypeOK'
  BY <1>1 DEF IInv, TypeOK
<1>3. Len(calls) = 0
  BY EmptySeq
<1>4. ~held
  BY <1>3 DEF IInv, MutexInv
<1>5. c # <<>> /\ c[1].at = "cleanup" /\ c[Len(c)].at = "cleanup"
  BY HasCalls
<1>6. StackInv'
  <2>1. Len(c) = 2 => MayCall(calls[1], calls[2])'
    BY <1>1 DEF MayCall, InMsg
  <2>2. \A i \in 1 .. Len(c) : c[i].at \notin InInit
    BY DEF InInit
  <2> QED  BY <1>1, <2>1, <2>2 DEF StackInv
<1>7. MutexInv'
  BY <1>1, <1>4 DEF MutexInv, Holding
<1>8. LogInv'
  <2>1. Top' = c[Len(c)]
    BY <1>1 DEF Top
  <2> QED  BY <1>1, <1>5, <2>1 DEF LogInv
<1>9. MainInv'
  <2>1. Brought("returned") = {}
    BY DEF Brought
  <2> QED  BY <1>1, <1>5, <2>1 DEF MainInv, InInit
<1>10. LineInv'
  <2>1. Recorded(lines, sent, Len(sent), current_log_level)
    BY <1>3 DEF IInv, LineInv
  <2>2. \A i \in 1 .. Len(c) : c[i].at \notin Filtered
    BY DEF Filtered
  <2> QED  BY <1>1, <1>5, <2>1, <2>2 DEF LineInv
<1> QED  BY <1>2, <1>6, <1>7, <1>8, <1>9, <1>10 DEF IInv

LEMMA StartKeeps ==
    ASSUME IInv, Start
    PROVE  IInv'
<1> DEFINE f == Call("initLock", INFO)
<1>1. f \in Frame /\ f.at = "initLock"
  BY DEF Call, Frame, Labels, Levels, ERROR, INFO, DEBUG
<1>2. /\ config' = config /\ ownOpens' = ownOpens /\ held' = held /\ log_file' = log_file
      /\ current_log_level' = current_log_level /\ sent' = sent /\ lines' = lines
      /\ cache' = cache /\ up' = up
      /\ main = "start" /\ main' = "stat" /\ calls = <<>> /\ calls' = <<f>>
  BY DEF Start, Still, place, MainAt, MainTo
<1> HIDE DEF f
<1>3. calls' \in Seq(Frame) /\ Len(calls') = 1 /\ calls'[1].at = "initLock"
  BY <1>1, <1>2
<1>4. calls' # <<>> /\ Top' = calls'[1]
  <2>1. Len(calls') # 0
    BY <1>3
  <2>2. Top' = calls'[Len(calls')]
    BY DEF Top
  <2> QED  BY <1>3, <2>1, <2>2, HasCalls
<1>5. TypeOK'
  BY <1>2, <1>3 DEF IInv, TypeOK
<1>6. Len(calls) = 0 /\ ~held
  BY <1>2, EmptySeq DEF IInv, MutexInv
<1>7. StackInv'
  BY <1>3 DEF StackInv
<1>8. MutexInv'
  BY <1>2, <1>3, <1>6 DEF MutexInv, Holding
<1>9. LogInv'
  BY <1>2, <1>3, <1>4 DEF LogInv, Opening
<1>10. MainInv'
  <2>1. up = {}
    BY <1>2 DEF IInv, MainInv, Brought
  <2>2. Brought("stat") = {}
    BY DEF Brought
  <2> QED  BY <1>2, <1>3, <2>1, <2>2 DEF MainInv
<1>11. LineInv'
  <2>1. Recorded(lines, sent, Len(sent), current_log_level) /\ sent = <<>>
    BY <1>2, <1>6 DEF IInv, LineInv
  <2>2. \A i \in 1 .. Len(calls') : calls'[i].at \notin Filtered
    BY <1>3 DEF Filtered
  <2> QED  BY <1>2, <2>1, <2>2 DEF LineInv
<1> QED  BY <1>5, <1>7, <1>8, <1>9, <1>10, <1>11 DEF IInv

LEMMA VersionKeeps ==
    ASSUME IInv, Version
    PROVE  IInv'
<1>1. /\ config' = config /\ ownOpens' = ownOpens /\ held' = held /\ log_file' = log_file
      /\ current_log_level' = current_log_level /\ sent' = sent /\ lines' = lines
      /\ cache' = cache /\ up' = up
      /\ main = "start" /\ main' = "returned" /\ calls = <<>> /\ calls' = <<>>
  BY DEF Version, Still, place, MainAt, MainTo
<1>2. Len(calls) = 0 /\ log_file = "none" /\ up = {}
  BY <1>1, EmptySeq DEF IInv, MainInv, Brought
<1>3. TypeOK' /\ StackInv' /\ MutexInv'
  BY <1>1 DEF IInv, TypeOK, StackInv, MutexInv, MayCall
<1>4. LogInv'
  BY <1>1 DEF LogInv
<1>5. MainInv'
  <2>1. Brought("returned") = {}
    BY DEF Brought
  <2> QED  BY <1>1, <1>2, <2>1 DEF MainInv
<1>6. LineInv'
  BY <1>1, <1>2 DEF IInv, LineInv
<1> QED  BY <1>3, <1>4, <1>5, <1>6 DEF IInv

LEMMA MessageFrames ==
    /\ <<>> \in Messages
    /\ \A l, k \in Levels :
          <<Call("msg", l)>> \in Messages /\ <<Call("msg", l), Call("msg", k)>> \in Messages
<1>1. <<>> \in Seq(Frame) /\ Len(<<>>) = 0
  BY EmptySeq
<1>2. <<>> \in Messages
  BY <1>1 DEF Messages
<1>3. ASSUME NEW l \in Levels, NEW k \in Levels
      PROVE  <<Call("msg", l)>> \in Messages /\ <<Call("msg", l), Call("msg", k)>> \in Messages
  <2> DEFINE f == Call("msg", l)
             g == Call("msg", k)
  <2>1. f \in Frame /\ g \in Frame /\ f.at = "msg" /\ g.at = "msg"
    BY DEF Call, Frame, Labels
  <2> HIDE DEF f, g
  <2>2. <<f>> \in Seq(Frame) /\ Len(<<f>>) = 1
    BY <2>1
  <2>3. <<f, g>> \in Seq(Frame) /\ Len(<<f, g>>) = 2
    BY <2>1
  <2>4. \A i \in 1 .. Len(<<f>>) : (<<f>>[i]).at = "msg"
    BY <2>1
  <2>5. \A i \in 1 .. Len(<<f, g>>) : (<<f, g>>[i]).at = "msg"
    BY <2>1
  <2>6. <<f>> \in Messages
    BY <2>2, <2>4 DEF Messages
  <2>7. <<f, g>> \in Messages
    BY <2>3, <2>5 DEF Messages
  <2> QED  BY <2>6, <2>7 DEF f, g
<1> QED  BY <1>2, <1>3

LEMMA CleanupFrames ==
    /\ <<Call("cleanup", INFO)>> \in Cleanups
    /\ <<Call("cleanup", INFO), Call("cleanup", INFO)>> \in Cleanups
<1> DEFINE f == Call("cleanup", INFO)
<1>1. f \in Frame /\ f.at = "cleanup"
  BY DEF Call, Frame, Labels, Levels, ERROR, INFO, DEBUG
<1> HIDE DEF f
<1>2. <<f>> \in Seq(Frame) /\ <<f, f>> \in Seq(Frame) /\ Len(<<f>>) = 1 /\ Len(<<f, f>>) = 2
  BY <1>1
<1>3. \A i \in 1 .. Len(<<f>>) : (<<f>>[i]).at = "cleanup"
  BY <1>1
<1>4. \A i \in 1 .. Len(<<f, f>>) : (<<f, f>>[i]).at = "cleanup"
  BY <1>1
<1>5. <<f>> \in Cleanups
  BY <1>2, <1>3 DEF Cleanups
<1>6. <<f, f>> \in Cleanups
  BY <1>2, <1>4 DEF Cleanups
<1> QED  BY <1>5, <1>6 DEF f

LEMMA BroughtWhere ==
    /\ Brought("stat") = {} /\ Brought("wizard") = {} /\ Brought("returned") = {}
    /\ Brought("network") = {"encryption"} /\ Brought("networkDown") = {"encryption"}
    /\ Brought("db") = {"encryption", "network"}
    /\ Brought("dbDown") = {"encryption", "network"}
    /\ \A m \in {"parse", "command", "over", "exited"} :
          Brought(m) = {"encryption", "network", "db"}
BY DEF Brought

LEMMA InMainKeeps ==
    ASSUME IInv, InMain
    PROVE  IInv'
<1>1. /\ INFO \in Levels /\ WARN \in Levels /\ ERROR \in Levels
  BY DEF Levels, DEBUG, INFO, WARN, ERROR
<1>2. up = Brought(main) /\ (main = "wizard" => config.status = "absent")
  BY DEF IInv, MainInv
<1> DEFINE f(l) == <<Call("msg", l)>>
           two(l, k) == <<Call("msg", l), Call("msg", k)>>
           down == <<Call("cleanup", INFO)>>
           downTwice == <<Call("cleanup", INFO), Call("cleanup", INFO)>>
<1>3. /\ \A l \in Levels : f(l) \in Messages
      /\ \A l, k \in Levels : two(l, k) \in Messages
      /\ <<>> \in Messages /\ down \in Cleanups /\ downTwice \in Cleanups
  BY <1>1, MessageFrames, CleanupFrames
<1>4. CASE Stat
  <2>1. main = "stat" /\ calls = <<>> /\ Still /\ cache' = cache
    BY <1>4 DEF Stat, MainAt
  <2>2. \/ config.status = "absent" /\ MainTo("wizard", f(INFO)) /\ up' = up
        \/ up' = up \union {"encryption"} /\ MainTo("network", <<>>)
    BY <1>4 DEF Stat
  <2> HIDE DEF f
  <2>3. CASE config.status = "absent" /\ MainTo("wizard", f(INFO)) /\ up' = up
    <3>1. up' = Brought("wizard")
      BY <1>2, <2>1, <2>3, BroughtWhere
    <3> QED  BY <1>1, <1>3, <2>1, <2>3, <3>1, MainLogs
  <2>4. CASE up' = up \union {"encryption"} /\ MainTo("network", <<>>)
    <3>1. up' = Brought("network")
      BY <1>2, <2>1, <2>4, BroughtWhere
    <3> QED  BY <1>3, <2>1, <2>4, <3>1, MainLogs
  <2> QED  BY <2>2, <2>3, <2>4
<1>5. CASE Wizard
  <2>1. /\ main = "wizard" /\ calls = <<>> /\ Still /\ up' = up
        /\ cache' = cache \/ (cache' = "there" /\ cache \in {"there", "makeable"})
    BY <1>5 DEF Wizard, MainAt
  <2>2. PICK c \in {<<>>, f(ERROR)} : MainTo("returned", c)
    BY <1>5 DEF Wizard
  <2> HIDE DEF f
  <2>3. c \in Messages
    BY <1>1, <1>3
  <2>4. up' = Brought("returned")
    BY <1>2, <2>1, BroughtWhere
  <2> QED  BY <1>2, <2>1, <2>2, <2>3, <2>4, MainLogs
<1>6. CASE Network
  <2>1. main = "network" /\ calls = <<>> /\ Still /\ cache' = cache
    BY <1>6 DEF Network, MainAt
  <2>2. PICK l \in {INFO, WARN} :
            \/ up' = up \union {"network"} /\ MainTo("db", f(l))
            \/ MainTo("networkDown", two(ERROR, l)) /\ up' = up
    BY <1>6 DEF Network
  <2> HIDE DEF f, two
  <2>3. f(l) \in Messages /\ two(ERROR, l) \in Messages
    BY <1>1, <1>3
  <2>4. CASE up' = up \union {"network"} /\ MainTo("db", f(l))
    <3>1. up' = Brought("db")
      BY <1>2, <2>1, <2>4, BroughtWhere
    <3> QED  BY <2>1, <2>3, <2>4, <3>1, MainLogs
  <2>5. CASE MainTo("networkDown", two(ERROR, l)) /\ up' = up
    <3>1. up' = Brought("networkDown")
      BY <1>2, <2>1, <2>5, BroughtWhere
    <3> QED  BY <2>1, <2>3, <2>5, <3>1, MainLogs
  <2> QED  BY <2>2, <2>4, <2>5
<1>7. CASE DbUp
  <2>1. /\ main = "db" /\ calls = <<>> /\ Still /\ up' = up \union {"db"}
        /\ cache' = "there" /\ cache \in {"there", "makeable"}
    BY <1>7 DEF DbUp, MainAt
  <2>2. PICK c \in {<<>>, f(ERROR)} \union {two(l, INFO) : l \in {INFO, WARN}} :
            MainTo("parse", c)
    BY <1>7 DEF DbUp, Migrated
  <2> HIDE DEF f, two
  <2>3. c \in Messages
    BY <1>1, <1>3
  <2>4. up' = Brought("parse")
    BY <1>2, <2>1, BroughtWhere
  <2> QED  BY <2>1, <2>2, <2>3, <2>4, MainLogs
<1>8. CASE DbFails
  <2>1. /\ main = "db" /\ calls = <<>> /\ Still /\ up' = up /\ cache' = cache
        /\ MainTo("dbDown", two(ERROR, ERROR))
    BY <1>8 DEF DbFails, MainAt
  <2> HIDE DEF two
  <2>2. up' = Brought("dbDown")
    BY <1>2, <2>1, BroughtWhere
  <2> QED  BY <1>1, <1>3, <2>1, <2>2, MainLogs
<1>9. CASE Message
  <2>1. main = "command" /\ calls = <<>> /\ Still /\ up' = up /\ cache' = cache
    BY <1>9 DEF Message, MainAt
  <2>2. PICK l \in Levels : MainTo("command", f(l))
    BY <1>9 DEF Message
  <2> HIDE DEF f
  <2>3. up' = Brought("command")
    BY <1>2, <2>1
  <2> QED  BY <1>3, <2>1, <2>2, <2>3, MainLogs
<1>10. CASE NetworkDown
  <2>1. /\ main = "networkDown" /\ calls = <<>> /\ Still /\ cache' = cache
        /\ up' = up \ {"encryption"} /\ MainTo("returned", down)
    BY <1>10 DEF NetworkDown, MainAt
  <2> HIDE DEF down
  <2>2. up' = {}
    BY <1>2, <2>1, BroughtWhere
  <2> QED  BY <1>3, <2>1, <2>2, MainTakesDown
<1>11. CASE DbDown
  <2>1. /\ main = "dbDown" /\ calls = <<>> /\ Still /\ cache' = cache
        /\ up' = up \ {"network", "encryption"} /\ MainTo("returned", downTwice)
    BY <1>11 DEF DbDown, MainAt
  <2> HIDE DEF downTwice
  <2>2. up' = {}
    BY <1>2, <2>1, BroughtWhere
  <2> QED  BY <1>3, <2>1, <2>2, MainTakesDown
<1>12. CASE TakeDown
  <2>1. /\ main = "over" /\ calls = <<>> /\ Still /\ cache' = cache
        /\ up' = up \ {"encryption", "network", "db"} /\ MainTo("returned", down)
    BY <1>12 DEF TakeDown, MainAt
  <2> HIDE DEF down
  <2>2. up' = {}
    BY <1>2, <2>1, BroughtWhere
  <2> QED  BY <1>3, <2>1, <2>2, MainTakesDown
<1>13. CASE ParseArgs \/ ParseExits \/ CommandEnds
  <2>1. /\ main \in {"parse", "command"} /\ calls = <<>> /\ Still /\ up' = up
        /\ cache' = cache
    BY <1>13 DEF ParseArgs, ParseExits, CommandEnds, MainAt
  <2>2. PICK m \in {"command", "exited", "over"} : MainTo(m, <<>>)
    BY <1>13 DEF ParseArgs, ParseExits, CommandEnds
  <2>3. up' = Brought(m)
    BY <1>2, <2>1, BroughtWhere
  <2> QED  BY <1>3, <2>1, <2>2, <2>3, MainLogs
<1> QED
  BY <1>4, <1>5, <1>6, <1>7, <1>8, <1>9, <1>10, <1>11, <1>12, <1>13, StartKeeps,
     VersionKeeps DEF InMain, OnItsOwn

-----------------------------------------------------------------------------
(* The inductive invariant is one.                                         *)

LEMMA InitEstablishes == Init => IInv
<1> SUFFICES ASSUME Init PROVE IInv
  OBVIOUS
<1>1. /\ calls = <<>> /\ held = FALSE /\ log_file = "none" /\ main = "start" /\ up = {}
      /\ current_log_level = INFO /\ sent = <<>> /\ lines = <<>>
  BY DEF Init
<1>2. Len(<<>>) = 0
  OBVIOUS
<1>3. Recorded(<<>>, <<>>, 0, INFO)
  BY NothingRecorded
<1>4. TypeOK
  <2>1. <<>> \in Seq(Frame) /\ <<>> \in Seq(Levels)
    OBVIOUS
  <2>2. INFO \in Levels
    BY DEF Levels, INFO, DEBUG, ERROR
  <2> QED  BY <2>1, <2>2 DEF Init, TypeOK
<1>5. StackInv
  BY <1>1, <1>2 DEF StackInv
<1>6. MutexInv
  BY <1>1, <1>2 DEF MutexInv
<1>7. LogInv
  BY <1>1 DEF LogInv
<1>8. MainInv
  <2>1. Brought("start") = {}
    BY DEF Brought
  <2> QED  BY <1>1, <1>2, <2>1 DEF MainInv
<1>9. LineInv
  BY <1>1, <1>2, <1>3 DEF LineInv
<1> QED  BY <1>4, <1>5, <1>6, <1>7, <1>8, <1>9 DEF IInv

LEMMA StutterKeeps ==
    ASSUME IInv, UNCHANGED vars
    PROVE  IInv'
<1>1. /\ config' = config /\ cache' = cache /\ ownOpens' = ownOpens /\ main' = main
      /\ up' = up /\ calls' = calls /\ held' = held /\ log_file' = log_file
      /\ current_log_level' = current_log_level /\ sent' = sent /\ lines' = lines
  BY DEF vars
<1>2. TypeOK' /\ StackInv' /\ MutexInv'
  BY <1>1 DEF IInv, TypeOK, StackInv, MutexInv, MayCall
<1>3. LogInv'
  BY <1>1 DEF IInv, LogInv, Top, NamedOpens, CanLog, Configured
<1>4. MainInv' /\ LineInv'
  BY <1>1 DEF IInv, MainInv, LineInv
<1> QED  BY <1>2, <1>3, <1>4 DEF IInv

LEMMA Invariance == Spec => []IInv
<1>1. IInv /\ [Next]_vars => IInv'
  BY InLoggingKeeps, InMainKeeps, StutterKeeps DEF Next
<1> QED  BY <1>1, InitEstablishes, PTL DEF Spec

-----------------------------------------------------------------------------
(* The theorems.                                                           *)

\* Every variable of logging.c, and of what main brings up, keeps its type: the
\* stack of calls holds calls of log_message, logging_init and logging_cleanup
\* only, and every level that is sent, kept or written is one of the four.
THEOREM TypeCorrect == Spec => []TypeOK
<1>1. IInv => TypeOK
  BY DEF IInv
<1> QED  BY <1>1, Invariance, PTL

\* The mutex is free whenever no call of logging.c is going on: every way out of
\* log_message, logging_init and logging_cleanup gives it back
\* (logging.c:109-180, 200-257), however they call one another.
THEOREM MutexGivenBack == Spec => []MutexIsFree
<1>1. IInv => MutexIsFree
  <2> SUFFICES ASSUME IInv, calls = <<>> PROVE ~held
    BY DEF MutexIsFree
  <2>1. Len(calls) = 0
    BY EmptySeq
  <2> QED  BY <2>1 DEF IInv, MutexInv
<1> QED  BY <1>1, Invariance, PTL

\* The program waits for the mutex it holds itself (logging.c:117, 202) only if
\* config.json is there and cannot be used, or no log can be opened: a call that
\* waits has below it log_message without a log, or logging_init with a file it
\* could not read.
THEOREM WaitsOnlyWithoutLog == Spec => []StuckOnlyWithoutLog
<1>1. IInv => StuckOnlyWithoutLog
  <2> SUFFICES ASSUME IInv, Stuck PROVE config.status = "bad" \/ ~CanLog
    BY DEF StuckOnlyWithoutLog
  <2>1. /\ calls # <<>> /\ Top.at \in {"initLock", "msgLock", "cleanup"} /\ held
        /\ calls \in Seq(Frame)
    BY DEF Stuck, At, IInv, TypeOK
  <2>2. Top.at \notin Holding
    BY <2>1 DEF Holding
  <2>3. PICK i \in 1 .. Len(calls) : calls[i].at \in Holding
    BY <2>1 DEF IInv, MutexInv
  <2> DEFINE n == Len(calls)
  <2>4. Top = calls[n]
    BY DEF Top
  <2>5. n \in Nat /\ n <= 3 /\ i \in 1 .. n /\ i # n
    BY <2>1, <2>2, <2>3, <2>4, LenProperties DEF IInv, StackInv
  <2>6. /\ n = 2 => MayCall(calls[1], calls[2])
        /\ n = 3 => calls[1].at \in {"initDone", "msg"} /\ MayCall(calls[2], calls[3])
    BY DEF IInv, StackInv
  <2>7. \/ main = "start"
        \/ calls[1].at \in Opening
        \/ main = "returned" /\ calls[1].at = "cleanup"
        \/ log_file = "none" => config.status = "bad" \/ ~CanLog
    BY <2>1 DEF IInv, LogInv
  <2>8. main # "start"
    BY <2>1 DEF IInv, MainInv
  <2> HIDE DEF n
  <2>9. (n = 2 /\ i = 1) \/ (n = 3 /\ i = 1) \/ (n = 3 /\ i = 2)
    BY <2>5
  <2>10. CASE n = 2 /\ i = 1
    BY <2>1, <2>3, <2>4, <2>6, <2>7, <2>8, <2>10 DEF MayCall, Holding, Opening
  <2>11. CASE n = 3 /\ i = 1
    BY <2>3, <2>6, <2>11 DEF Holding
  <2>12. CASE n = 3 /\ i = 2
    BY <2>1, <2>3, <2>4, <2>6, <2>7, <2>8, <2>12 DEF MayCall, Holding, Opening
  <2> QED  BY <2>9, <2>10, <2>11, <2>12
<1> QED  BY <1>1, Invariance, PTL

\* Between two messages, the log holds every message sent so far whose level is
\* at least the configured one, in order, and no other (logging.c:195, 240-251),
\* for any number of messages: none is dropped for want of a log.  Nothing is said
\* of a log_file that is "", for which the manual promises that there is no log.
THEOREM LogIsComplete == Spec => []LinesAreComplete
<1>1. IInv => LinesAreComplete
  <2> SUFFICES ASSUME IInv, calls = <<>>, config.file # "empty"
               PROVE  /\ Len(lines) = Cardinality(Wanted)
                      /\ \A i \in Wanted :
                            lines[Cardinality({j \in Wanted : j <= i})] = sent[i]
    BY DEF LinesAreComplete
  <2>1. Len(calls) = 0
    BY EmptySeq
  <2>2. Recorded(lines, sent, Len(sent), current_log_level)
    BY <2>1 DEF IInv, LineInv
  <2>3. DOMAIN sent = 1 .. Len(sent)
    BY LenProperties DEF IInv, TypeOK
  <2>4. Wanted = Through(sent, Len(sent), current_log_level)
    BY <2>3 DEF Wanted, Through
  <2> QED  BY <2>2, <2>4 DEF Recorded
<1> QED  BY <1>1, Invariance, PTL

\* Wherever main returns, it has taken down all it had brought up, and closed the
\* log but for the first run's (main.c:21-77).  The one other way out is exit in
\* parse_args, where all three parts are up (cli.c:542, 570, 613, 736, 990).
THEOREM MainTakesAllDown == Spec => []TakenDown
<1>1. IInv => TakenDown
  <2>1. ASSUME IInv, calls = <<>>, main = "returned"
        PROVE  up = {} /\ (config.status # "absent" => log_file = "none")
    BY <2>1, BroughtWhere DEF IInv, MainInv
  <2>2. ASSUME IInv, calls = <<>>, main = "exited"
        PROVE  up = {"encryption", "network", "db"}
    BY <2>2, BroughtWhere DEF IInv, MainInv
  <2> QED  BY <2>1, <2>2 DEF TakenDown
<1> QED  BY <1>1, Invariance, PTL
=============================================================================
