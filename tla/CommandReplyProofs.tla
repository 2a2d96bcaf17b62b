------------------------- MODULE CommandReplyProofs -------------------------
(***************************************************************************)
(* Proofs about CommandReply: its variables keep their types, a reply      *)
(* never carries the code of another request, the file is never behind a   *)
(* reply that left, and the configuration-changed bit is right for each    *)
(* master whose bit no publication of command 38 disturbed.                *)
(***************************************************************************)
EXTENDS CommandReply, TLAPS

\* A request that will change the configuration was let in below the bound.
RoomInv == cpc = "extract" /\ req.kind \in Changing
             => configChangeCnt < MaxChanges

\* Without a burst of command 38 in between, the request at hand is the last
\* that wrote fromPrimary of command 38.
FromInv ==
  cpc \in {"extract", "acknowledge"} /\ req.kind = "38" /\ ~between
    => (fromPrimary38 <=> req.master = "Primary")

\* Only command 38 looks at fromPrimary a second time.
KindInv == cpc = "acknowledge" => req.kind \in {"38", "38v5"}

\* The bits and what they stand for.
BitInv == \A h \in Masters \ mixed : configChangedBit[h] = owed[h]

\* The file is behind the configuration only while writeNeeded says so, and no
\* reply is on its way then.
FileInv ==
  /\ told <= savedCnt /\ savedCnt <= configChangeCnt
  /\ ~writeNeeded => savedCnt = configChangeCnt
  /\ cpc \in {"status", "send"} => ~writeNeeded

\* Only a request that was not refused has data in its reply.
DataInv ==
  /\ cpc \in {"idle", "extract", "acknowledge", "insert"} => ~hasData
  /\ cpc \in {"extract", "acknowledge", "insert"} => req.kind # "unknown"
  /\ hasData => req.kind # "unknown" /\ ~isError(rtn)

\* The shared response code is the request's own or was cleared by a burst.
CodeInv ==
  /\ cpc \in {"save", "status"} => responseCode \in {OwnCode, RC_SUCCESS}
  /\ cpc = "send" => reply.code \in {OwnCode, RC_SUCCESS}
-----------------------------------------------------------------------------
(* The types. *)

TypeInv == TypeOK /\ RoomInv

\* The values a thread goes back to when it is done, and the codes, are of
\* their types.
LEMMA RestValues ==
  /\ NoRequest \in [master : Masters, kind : Kinds, cnt : 0 .. MaxChanges]
  /\ NoAnswer \in [code : Codes \ {RC_DONOTSEND}, ccb : BOOLEAN]
  /\ RC_SUCCESS \in Codes \ {RC_DONOTSEND}
  /\ RC_NOT_IMPLEM \in Codes \ {RC_DONOTSEND}
  /\ [h \in Masters |-> TRUE] \in [Masters -> BOOLEAN]
  /\ [h \in Masters |-> FALSE] \in [Masters -> BOOLEAN]
BY SMT, CommandConstants
   DEF NoRequest, NoAnswer, Masters, Kinds, Codes, RC_SUCCESS, RC_INVALID,
       RC_TOO_FEW, RC_WARN_8, RC_CFGMISMATCH, RC_MULTIPLE_11, RC_NOT_IMPLEM,
       RC_DONOTSEND

\* An acknowledgement keeps the types of the bits.
LEMMA ClearTypes ==
  ASSUME TypeInv, NEW h \in Masters, Clear(h)
  PROVE  /\ configChangedBit' \in [Masters -> BOOLEAN]
         /\ owed' \in [Masters -> BOOLEAN]
         /\ mixed' \in SUBSET Masters
<1> USE DEF TypeInv, TypeOK
<1> DEFINE named == req.kind = "38v5" \/ (fromPrimary38 <=> h = "Primary")
           asked == req.kind = "38v5" \/ req.master = h
<1>1. CASE Stale
  BY <1>1, Zenon DEF Clear
<1>2. CASE ~Stale
  <2>1. /\ configChangedBit' = [configChangedBit EXCEPT ![h] = @ /\ ~named]
        /\ owed' = [owed EXCEPT ![h] = @ /\ ~asked]
        /\ mixed' = IF req.kind = "38" /\ between THEN mixed \union {h}
                    ELSE IF asked THEN mixed \ {h} ELSE mixed
    BY <1>2, Zenon DEF Clear
  <2> HIDE DEF named, asked
  <2>2. configChangedBit' \in [Masters -> BOOLEAN] /\ owed' \in [Masters -> BOOLEAN]
    BY <2>1, Zenon
  <2>3. mixed' \in SUBSET Masters
    BY <2>1, Zenon
  <2> QED
    BY <2>2, <2>3
<1> QED
  BY <1>1, <1>2

\* A step of extractData() counts at most one change and keeps both bits.
LEMMA ExtractTypes ==
  ASSUME TypeInv, Extract
  PROVE  /\ rtn' \in Codes
         /\ configChangeCnt' \in 1 .. MaxChanges
         /\ configChangedBit' \in [Masters -> BOOLEAN]
         /\ owed' \in [Masters -> BOOLEAN]
         /\ mixed' \in SUBSET Masters
         /\ writeNeeded' \in BOOLEAN
         /\ cpc' \in {"acknowledge", "insert"}
<1> USE DEF TypeInv, TypeOK
<1>1. rtn' \in Codes
  <2>1. Extracted \in Codes
    BY SMT DEF Extracted, Codes
  <2> QED
    BY <2>1 DEF Extract
<1>2. CASE req.kind \in Changing
  <2>a. req.kind \notin {"38", "38v5"}
    BY <1>2, SMT DEF Changing
  <2>1. Change /\ cpc' = "insert"
    BY <1>2, <2>a, Zenon DEF Extract
  <2>2. configChangeCnt < MaxChanges
    BY <1>2, Zenon DEF Extract, RoomInv
  <2>3. configChangeCnt' \in 1 .. MaxChanges
    BY SMT, CommandConstants, <2>1, <2>2 DEF Change
  <2> QED
    BY <1>1, <2>1, <2>3, RestValues, Zenon DEF Change
<1>3. CASE req.kind \notin Changing /\ req.kind \in {"38", "38v5"}
  <2>1. /\ Clear("Primary") /\ cpc' = "acknowledge"
        /\ UNCHANGED <<configChangeCnt, writeNeeded>>
    BY <1>3, Zenon DEF Extract
  <2>2. "Primary" \in Masters
    BY DEF Masters
  <2> QED
    BY <1>1, <2>1, <2>2, ClearTypes, Zenon
<1>4. CASE req.kind \notin Changing /\ req.kind \notin {"38", "38v5"}
  BY <1>1, <1>4, Zenon DEF Extract
<1> QED
  BY <1>2, <1>3, <1>4

\* The only step that counts a change was let in below the bound, so no step
\* takes a variable out of its type.
LEMMA TypeStep == TypeInv /\ [Next]_vars => TypeInv'
<1> SUFFICES ASSUME TypeInv, [Next]_vars
             PROVE  TypeInv'
  OBVIOUS
<1> USE RestValues DEF TypeInv, TypeOK, RoomInv
<1>1. ASSUME NEW h \in Masters, NEW k \in HostKinds,
             NEW cnt \in IF k = "38" THEN 1 .. MaxChanges ELSE {0},
             Receive(h, k, cnt)
      PROVE  TypeInv'
  <2>1. cnt \in 0 .. MaxChanges
    BY SMT, CommandConstants
  <2>2. req' \in [master : Masters, kind : Kinds, cnt : 0 .. MaxChanges]
    BY SMT, <1>1, <2>1, CommandConstants DEF Receive
  <2>3. fromPrimary38' \in BOOLEAN
    BY <1>1, Zenon DEF Receive
  <2>4. responseCode' \in Codes \ {RC_DONOTSEND}
    BY <1>1, Zenon DEF Receive
  <2>5. RoomInv'
    BY SMT, <1>1 DEF Receive, config
  <2>6. cpc' \in {"extract", "code"}
    BY <1>1, Zenon DEF Receive
  <2>7. /\ between' = FALSE
        /\ UNCHANGED <<configChangeCnt, configChangedBit, writeNeeded, savedCnt,
                       rtn, hasData, reply, bpc, burstMaster, owed, told, mixed>>
    BY <1>1, Zenon DEF Receive, config, burstThread
  <2>8. cpc' \in {"idle", "extract", "acknowledge", "insert", "code",
                        "save", "status", "send"}
    BY SMT, <2>6
  <2>9. between' \in BOOLEAN
    BY <2>7, Zenon
  <2> HIDE DEF RoomInv
  <2>10. TypeOK'
    BY <2>2, <2>3, <2>4, <2>7, <2>8, <2>9, Zenon
  <2> QED
    BY <2>5, <2>10
<1>2. CASE Extract
  BY SMT, <1>2, ExtractTypes DEF Extract, burstThread
<1>13. CASE Acknowledge
  <2>1. "Secondary" \in Masters
    BY DEF Masters
  <2>2. /\ configChangedBit' \in [Masters -> BOOLEAN]
        /\ owed' \in [Masters -> BOOLEAN]
        /\ mixed' \in SUBSET Masters
    BY <1>13, <2>1, ClearTypes DEF Acknowledge
  <2>3. /\ cpc' = "insert" /\ between' = FALSE
        /\ UNCHANGED <<responseCode, fromPrimary38, configChangeCnt, writeNeeded,
                       savedCnt, req, rtn, hasData, reply, bpc, burstMaster,
                       told>>
    BY <1>13, Zenon DEF Acknowledge, burstThread
  <2>4. cpc' \in {"idle", "extract", "acknowledge", "insert", "code",
                        "save", "status", "send"}
    BY SMT, <2>3
  <2>5. between' \in BOOLEAN
    BY <2>3, Zenon
  <2>6. RoomInv'
    BY SMT, <2>3
  <2> HIDE DEF RoomInv
  <2>7. TypeOK'
    BY <2>2, <2>3, <2>4, <2>5, Zenon
  <2> QED
    BY <2>6, <2>7
<1>3. CASE Insert
  BY SMT, <1>3 DEF Insert, isError, config, burstThread, history
<1>4. CASE SetCode
  <2>1. /\ responseCode' \in Codes \ {RC_DONOTSEND}
        /\ cpc' \in {"idle", "save"}
        /\ req' \in [master : Masters, kind : Kinds, cnt : 0 .. MaxChanges]
        /\ rtn' \in Codes /\ hasData' \in BOOLEAN
    BY <1>4, Zenon DEF SetCode
  <2> QED
    BY SMT, <1>4, <2>1 DEF SetCode, config, burstThread, history
<1>5. CASE Save
  <2>1. savedCnt' \in 1 .. MaxChanges /\ writeNeeded' \in BOOLEAN
    BY <1>5, Zenon DEF Save
  <2> QED
    BY SMT, <1>5, <2>1 DEF Save, burstThread, history
<1>6. CASE SetRCStatus
  BY SMT, <1>6 DEF SetRCStatus, config, burstThread, history
<1>7. CASE Send
  <2>1. told' \in 1 .. MaxChanges
    BY <1>7, Zenon DEF Send
  <2>2. /\ req' \in [master : Masters, kind : Kinds, cnt : 0 .. MaxChanges]
        /\ reply' \in [code : Codes \ {RC_DONOTSEND}, ccb : BOOLEAN]
        /\ rtn' \in Codes /\ hasData' \in BOOLEAN
    BY <1>7, Zenon DEF Send
  <2> QED
    BY SMT, <1>7, <2>1, <2>2 DEF Send, config, burstThread
<1>8. ASSUME NEW cmd \in BurstCmds, BurstBegin(cmd)
      PROVE  TypeInv'
  <2>1. fromPrimary38' \in BOOLEAN
    BY <1>8, Zenon DEF BurstBegin
  <2>2. between' \in BOOLEAN
    BY <1>8, Zenon DEF BurstBegin
  <2> QED
    BY SMT, <1>8, <2>1, <2>2 DEF BurstBegin, config, cmdThread
<1>9. CASE BurstInsert
  BY SMT, <1>9 DEF BurstInsert, config, cmdThread, history
<1>10. CASE BurstSend
  <2>1. burstMaster' \in Masters
    BY <1>10, SMT DEF BurstSend, Masters
  <2> QED
    BY SMT, <1>10, <2>1 DEF BurstSend, config, cmdThread, history
<1>11. CASE Restart
  <2>1. savedCnt' \in 1 .. MaxChanges /\ configChangeCnt' \in 1 .. MaxChanges
    BY <1>11, Zenon DEF Restart
  <2>2. burstMaster' \in Masters
    BY <1>11, Zenon DEF Restart, Masters
  <2>3. /\ responseCode' \in Codes \ {RC_DONOTSEND}
        /\ req' \in [master : Masters, kind : Kinds, cnt : 0 .. MaxChanges]
        /\ reply' \in [code : Codes \ {RC_DONOTSEND}, ccb : BOOLEAN]
        /\ rtn' \in Codes
        /\ configChangedBit' \in [Masters -> BOOLEAN]
        /\ owed' \in [Masters -> BOOLEAN]
        /\ fromPrimary38' \in BOOLEAN /\ writeNeeded' \in BOOLEAN
        /\ hasData' \in BOOLEAN
        /\ told' \in 1 .. MaxChanges
        /\ mixed' \in SUBSET Masters /\ between' \in BOOLEAN
        /\ cpc' = "idle" /\ bpc' = "idle"
    BY <1>11, Zenon DEF Restart
  <2> QED
    BY SMT, <2>1, <2>2, <2>3
<1>12. CASE UNCHANGED vars
  BY SMT, <1>12 DEF vars, config, cmdThread, burstThread, history
<1> QED
  BY <1>1, <1>2, <1>3, <1>4, <1>5, <1>6, <1>7, <1>8, <1>9, <1>10, <1>11, <1>12,
     <1>13
     DEF Next, CommandThread, BurstThread, HostRequest

LEMMA TypeInit == Init => TypeInv
<1> SUFFICES ASSUME Init PROVE TypeInv
  OBVIOUS
<1>1. 1 \in 1 .. MaxChanges
  BY SMT, CommandConstants
<1>2. "Secondary" \in Masters
  BY DEF Masters
<1>3. /\ responseCode \in Codes \ {RC_DONOTSEND}
      /\ req \in [master : Masters, kind : Kinds, cnt : 0 .. MaxChanges]
      /\ reply \in [code : Codes \ {RC_DONOTSEND}, ccb : BOOLEAN]
      /\ rtn \in Codes
      /\ configChangedBit \in [Masters -> BOOLEAN]
      /\ owed \in [Masters -> BOOLEAN]
      /\ fromPrimary38 \in BOOLEAN /\ writeNeeded \in BOOLEAN
      /\ hasData \in BOOLEAN
      /\ cpc = "idle" /\ bpc = "idle" /\ burstMaster \in Masters
      /\ configChangeCnt \in 1 .. MaxChanges /\ savedCnt \in 1 .. MaxChanges
      /\ told \in 1 .. MaxChanges
      /\ mixed \in SUBSET Masters /\ between \in BOOLEAN
  BY <1>1, <1>2, RestValues, Zenon DEF Init
<1> QED
  BY SMT, <1>3 DEF TypeInv, TypeOK, RoomInv

\* Codes, counters, bits and the places of both threads keep their types for
\* every kind of request, every published command and every number of changes.
THEOREM TypeCorrect == Spec => []TypeOK
<1>1. TypeInv => TypeOK
  BY DEF TypeInv
<1> QED
  BY <1>1, TypeInit, TypeStep, PTL DEF Spec
-----------------------------------------------------------------------------
(* What reached the file. *)

\* No step lets the file fall behind a reply that left: a change raises
\* writeNeeded, and every reply passes the save first.
LEMMA FileStep == TypeInv /\ FileInv /\ [Next]_vars => FileInv'
<1> SUFFICES ASSUME TypeInv, FileInv, [Next]_vars
             PROVE  FileInv'
  OBVIOUS
<1>a. /\ configChangeCnt \in Int /\ savedCnt \in Int /\ told \in Int
      /\ writeNeeded \in BOOLEAN
  BY SMT, CommandConstants DEF TypeInv, TypeOK
<1> USE <1>a DEF FileInv
<1>1. ASSUME NEW h, NEW k, NEW cnt, Receive(h, k, cnt)
      PROVE  FileInv'
  BY SMT, <1>1 DEF Receive, config, history
<1>2. CASE Extract
  <2>1. \/ Change
        \/ UNCHANGED <<configChangeCnt, writeNeeded>>
    BY <1>2, Zenon DEF Extract
  <2>2. UNCHANGED <<savedCnt, told>> /\ cpc' \in {"acknowledge", "insert"}
    BY <1>2, Zenon DEF Extract
  <2>3. CASE UNCHANGED <<configChangeCnt, writeNeeded>>
    BY SMT, <2>2, <2>3
  <2>4. CASE Change
    <3>1. configChangeCnt' = configChangeCnt + 1 /\ writeNeeded'
      BY <2>4, Zenon DEF Change
    <3> QED
      BY SMT, <2>2, <3>1
  <2> QED
    BY <2>1, <2>3, <2>4
<1>3. CASE Insert
  BY SMT, <1>3 DEF Insert, config, history
<1>4. CASE SetCode
  BY SMT, <1>4 DEF SetCode, config, history
<1>5. CASE Save
  BY SMT, <1>5 DEF Save, history
<1>6. CASE SetRCStatus
  BY SMT, <1>6 DEF SetRCStatus, config, history
<1>7. CASE Send
  BY SMT, <1>7 DEF Send, config
<1>11. CASE Acknowledge
  <2>1. /\ UNCHANGED <<configChangeCnt, writeNeeded, savedCnt, told>>
        /\ cpc' = "insert"
    BY <1>11, Zenon DEF Acknowledge
  <2> QED
    BY SMT, <2>1
<1>8. CASE (\E cmd \in BurstCmds : BurstBegin(cmd)) \/ BurstInsert \/ BurstSend
  <2>1. UNCHANGED <<configChangeCnt, writeNeeded, savedCnt, told, cpc>>
    BY <1>8, Zenon DEF BurstBegin, BurstInsert, BurstSend, config, cmdThread,
                       history
  <2> QED
    BY SMT, <2>1
<1>9. CASE Restart
  <2>1. /\ savedCnt' \in {savedCnt, configChangeCnt}
        /\ configChangeCnt' = savedCnt' /\ told' = told /\ cpc' = "idle"
    BY <1>9, Zenon DEF Restart
  <2> QED
    BY SMT, <2>1
<1>10. CASE UNCHANGED vars
  BY SMT, <1>10 DEF vars, config, cmdThread, history
<1> QED
  BY <1>1, <1>2, <1>3, <1>4, <1>5, <1>6, <1>7, <1>8, <1>9, <1>10, <1>11
     DEF Next, CommandThread, BurstThread, HostRequest

\* However many changes are made, whatever code a reply carries and whenever
\* the device stops, a restart never takes back a counter a reply vouched for.
THEOREM RepliesAreKept == Spec => []ToldIsKept
<1>1. Init => FileInv
  BY SMT DEF Init, FileInv
<1>2. TypeInv /\ FileInv => ToldIsKept
  BY SMT, CommandConstants DEF TypeInv, TypeOK, FileInv, ToldIsKept
<1> QED
  BY <1>1, <1>2, TypeInit, TypeStep, FileStep, PTL DEF Spec
-----------------------------------------------------------------------------
(* Whose code a reply carries. *)

ReplyInv == DataInv /\ CodeInv

\* The burst thread clears the shared response code at any moment and nothing
\* else but the request at hand writes it.
LEMMA ReplyStep == TypeInv /\ ReplyInv /\ [Next]_vars => ReplyInv'
<1> SUFFICES ASSUME TypeInv, ReplyInv, [Next]_vars
             PROVE  ReplyInv'
  OBVIOUS
<1> USE DEF ReplyInv, DataInv, CodeInv, OwnCode
<1>1. ASSUME NEW h, NEW k, NEW cnt, Receive(h, k, cnt)
      PROVE  ReplyInv'
  BY SMT, <1>1 DEF Receive
<1>2. CASE Extract
  <2>1. /\ cpc = "extract" /\ cpc' \in {"acknowledge", "insert"}
        /\ UNCHANGED <<responseCode, req, hasData, reply>>
    BY <1>2, Zenon DEF Extract
  <2> QED
    BY SMT, <2>1
<1>12. CASE Acknowledge
  BY SMT, <1>12 DEF Acknowledge
<1>3. CASE Insert
  <2>1. /\ cpc = "insert" /\ cpc' = "code" /\ req.kind # "unknown"
        /\ hasData' => ~isError(rtn)
        /\ UNCHANGED <<responseCode, req, rtn, reply>>
    BY <1>3, Zenon DEF Insert
  <2> QED
    BY SMT, <2>1 DEF isError
<1>4. CASE SetCode
  BY SMT, <1>4 DEF SetCode, NoRequest
<1>5. CASE Save
  BY SMT, <1>5 DEF Save
<1>6. CASE SetRCStatus
  BY SMT, <1>6 DEF SetRCStatus
<1>7. CASE Send
  BY SMT, <1>7 DEF Send, NoRequest
<1>8. CASE \E cmd \in BurstCmds : BurstBegin(cmd)
  <2>1. responseCode' = RC_SUCCESS /\ UNCHANGED cmdThread
    BY <1>8, Zenon DEF BurstBegin
  <2> QED
    BY SMT, <2>1 DEF cmdThread
<1>9. CASE BurstInsert \/ BurstSend
  BY SMT, <1>9 DEF BurstInsert, BurstSend, cmdThread
<1>10. CASE Restart
  <2>1. cpc' = "idle" /\ hasData' = FALSE
    BY <1>10, Zenon DEF Restart
  <2> QED
    BY SMT, <2>1
<1>11. CASE UNCHANGED vars
  BY SMT, <1>11 DEF vars, cmdThread
<1> QED
  BY <1>1, <1>2, <1>3, <1>4, <1>5, <1>6, <1>7, <1>8, <1>9, <1>10, <1>11, <1>12
     DEF Next, CommandThread, BurstThread, HostRequest

\* In every interleaving with the burst thread the code of a reply is that of
\* its own request or success, and a reply with an error has no data.
THEOREM CodesAreOwn == Spec => []NoForeignCode
<1>1. Init => ReplyInv
  BY SMT DEF Init, ReplyInv, DataInv, CodeInv
<1>2. TypeInv /\ ReplyInv => NoForeignCode
  BY SMT DEF ReplyInv, DataInv, CodeInv, NoForeignCode, OwnCode, isError
<1> QED
  BY <1>1, <1>2, TypeInit, TypeStep, ReplyStep, PTL DEF Spec
-----------------------------------------------------------------------------
(* The configuration-changed bits. *)

AckInv == FromInv /\ KindInv /\ BitInv

\* A look of command 38 at fromPrimary clears the bit and what it stands for
\* together, or marks the master as disturbed.
LEMMA ClearKeeps ==
  ASSUME TypeInv, AckInv, cpc \in {"extract", "acknowledge"},
         req.kind \in {"38", "38v5"}, NEW g \in Masters, Clear(g)
  PROVE  BitInv'
<1> DEFINE named == req.kind = "38v5" \/ (fromPrimary38 <=> g = "Primary")
           asked == req.kind = "38v5" \/ req.master = g
<1>a. /\ configChangedBit \in [Masters -> BOOLEAN]
      /\ owed \in [Masters -> BOOLEAN] /\ req.master \in Masters
  BY SMT DEF TypeInv, TypeOK
<1>1. CASE Stale
  BY <1>1, Zenon DEF Clear, AckInv, BitInv
<1>2. CASE ~Stale
  <2>1. /\ configChangedBit' = [configChangedBit EXCEPT ![g] = @ /\ ~named]
        /\ owed' = [owed EXCEPT ![g] = @ /\ ~asked]
        /\ mixed' = IF req.kind = "38" /\ between THEN mixed \union {g}
                    ELSE IF asked THEN mixed \ {g} ELSE mixed
    BY <1>2, Zenon DEF Clear
  <2>2. ~(req.kind = "38" /\ between) => (named <=> asked)
    <3>1. CASE req.kind = "38v5"
      BY <3>1
    <3>2. CASE req.kind = "38" /\ ~between
      <4>1. fromPrimary38 <=> req.master = "Primary"
        BY <3>2, Zenon DEF AckInv, FromInv
      <4> QED
        BY <1>a, <3>2, <4>1, SMT DEF Masters
    <3> QED
      BY <3>1, <3>2
  <2> SUFFICES ASSUME NEW h \in Masters, h \notin mixed'
               PROVE  configChangedBit'[h] = owed'[h]
    BY DEF BitInv
  <2>3. CASE h # g
    <3>1. h \notin mixed
      BY <2>1, <2>3, Zenon
    <3>2. configChangedBit[h] = owed[h]
      BY <3>1, SMT DEF AckInv, BitInv
    <3> HIDE DEF named, asked
    <3> QED
      BY <1>a, <2>1, <2>3, <3>2, Zenon
  <2>4. CASE h = g /\ asked
    <3>1. named
      BY <2>1, <2>2, <2>4, Zenon
    <3>2. configChangedBit'[h] = FALSE /\ owed'[h] = FALSE
      <4> HIDE DEF named, asked
      <4> QED
        BY <1>a, <2>1, <2>4, <3>1, Zenon
    <3> QED
      BY <3>2
  <2>5. CASE h = g /\ ~asked
    <3>1. ~named /\ h \notin mixed
      BY <2>1, <2>2, <2>5, Zenon
    <3>2. configChangedBit[h] = owed[h]
      BY <3>1, SMT DEF AckInv, BitInv
    <3> HIDE DEF named, asked
    <3>3. configChangedBit'[h] = (configChangedBit[h] /\ ~named)
      BY <1>a, <2>1, <2>5, Zenon
    <3>4. owed'[h] = (owed[h] /\ ~asked)
      BY <1>a, <2>1, <2>5, Zenon
    <3> QED
      BY <2>5, <3>1, <3>2, <3>3, <3>4, Zenon
  <2> QED
    BY <2>3, <2>4, <2>5
<1> QED
  BY <1>1, <1>2

\* Until command 38 is published only the request at hand names the master
\* command 38 acts for, so a bit and what it stands for move together.
LEMMA AckStep == TypeInv /\ AckInv /\ [Next]_vars => AckInv'
<1> SUFFICES ASSUME TypeInv, AckInv, [Next]_vars
             PROVE  AckInv'
  OBVIOUS
<1> USE DEF AckInv, FromInv, KindInv, BitInv
<1>1. ASSUME NEW h \in Masters, NEW k, NEW cnt, Receive(h, k, cnt)
      PROVE  AckInv'
  <2>1. UNCHANGED <<configChangedBit, owed, mixed>>
    BY <1>1, Zenon DEF Receive, config
  <2>2. /\ req'.kind = k /\ req'.master = h /\ cpc' # "acknowledge"
    BY SMT, <1>1 DEF Receive
  <2>3. k = "38" /\ cpc' = "extract" => (fromPrimary38' <=> h = "Primary")
    <3>1. ASSUME k = "38", k # "unknown"
          PROVE  fromPrimary38' <=> h = "Primary"
      BY <1>1, <3>1, Zenon DEF Receive
    <3>2. "38" # "unknown"
      OBVIOUS
    <3> QED
      BY <3>1, <3>2
  <2> QED
    BY <2>1, <2>2, <2>3, Zenon
<1>2. CASE Extract
  <2>1. CASE req.kind \in Changing
    <3>1. req.kind \notin {"38", "38v5"}
      BY <2>1, SMT DEF Changing
    <3>2. Change /\ cpc' = "insert"
      BY <1>2, <2>1, <3>1, Zenon DEF Extract
    <3>3. configChangedBit' = owed' /\ cpc' = "insert"
      BY <3>2, Zenon DEF Change
    <3> QED
      BY SMT, <3>3
  <2>2. CASE req.kind \in {"38", "38v5"} /\ req.kind \notin Changing
    <3>1. /\ Clear("Primary") /\ cpc' = "acknowledge" /\ cpc = "extract"
          /\ UNCHANGED <<fromPrimary38, req, between>>
      BY <1>2, <2>2, Zenon DEF Extract
    <3>2. "Primary" \in Masters
      BY DEF Masters
    <3>3. BitInv'
      BY <2>2, <3>1, <3>2, ClearKeeps
    <3> QED
      BY <2>2, <3>1, <3>3, Zenon
  <2>3. CASE req.kind \notin Changing /\ req.kind \notin {"38", "38v5"}
    <3>1. UNCHANGED <<configChangedBit, owed, mixed>> /\ cpc' = "insert"
      BY <1>2, <2>3, Zenon DEF Extract
    <3> QED
      BY SMT, <3>1
  <2> QED
    BY <2>1, <2>2, <2>3
<1>8. CASE Acknowledge
  <2>1. Clear("Secondary") /\ cpc' = "insert" /\ cpc = "acknowledge"
    BY <1>8, Zenon DEF Acknowledge
  <2>2. "Secondary" \in Masters /\ req.kind \in {"38", "38v5"}
    BY <2>1 DEF Masters
  <2>3. BitInv'
    BY <2>1, <2>2, ClearKeeps
  <2> QED
    BY SMT, <2>1, <2>3
<1>3. CASE Insert \/ Save \/ SetRCStatus
  <2>1. /\ UNCHANGED <<configChangedBit, owed, mixed>>
        /\ cpc' \notin {"extract", "acknowledge"}
    BY SMT, <1>3 DEF Insert, Save, SetRCStatus, config, history
  <2> QED
    BY <2>1, SMT
<1>4. CASE SetCode \/ Send
  <2>1. /\ UNCHANGED <<configChangedBit, owed, mixed>>
        /\ cpc' \notin {"extract", "acknowledge"}
    BY SMT, <1>4 DEF SetCode, Send, config, history
  <2> QED
    BY <2>1, SMT
<1>5. ASSUME NEW cmd \in BurstCmds, BurstBegin(cmd)
      PROVE  AckInv'
  <2>1. UNCHANGED <<configChangedBit, owed, mixed, cpc, req>>
    BY <1>5, Zenon DEF BurstBegin, config, cmdThread
  <2>2. /\ cmd # 38 => fromPrimary38' = fromPrimary38
        /\ between' = (\/ between
                       \/ cmd = 38 /\ cpc \in {"extract", "acknowledge"})
    BY <1>5, Zenon DEF BurstBegin
  <2>3. FromInv'
    BY <2>1, <2>2, Zenon
  <2> QED
    BY <2>1, <2>3, Zenon
<1>9. CASE BurstInsert \/ BurstSend
  <2>1. UNCHANGED <<configChangedBit, owed, mixed, between, cpc, req,
                    fromPrimary38>>
    BY <1>9, Zenon DEF BurstInsert, BurstSend, config, cmdThread, history
  <2> QED
    BY <2>1, Zenon
<1>6. CASE Restart
  <2>1. configChangedBit' = owed' /\ cpc' = "idle"
    BY <1>6, Zenon DEF Restart
  <2> QED
    BY <2>1, SMT
<1>7. CASE UNCHANGED vars
  BY <1>7, Zenon DEF vars, config, cmdThread, history
<1> QED
  BY <1>1, <1>2, <1>3, <1>4, <1>5, <1>6, <1>7, <1>8, <1>9
     DEF Next, CommandThread, BurstThread, HostRequest

\* Whatever is published, each master is told of a change until it acknowledges
\* it, for any number of changes and any interleaving with the burst thread, as
\* long as no publication of command 38 itself came between an acknowledgement
\* and the look at its master.
THEOREM BitsArePerMaster == Spec => []ChangedBitIsPerMaster
<1>1. Init => AckInv
  <2> SUFFICES ASSUME Init PROVE AckInv
    OBVIOUS
  <2>1. cpc = "idle" /\ configChangedBit = owed
    BY Zenon DEF Init
  <2> QED
    BY SMT, <2>1 DEF AckInv, FromInv, KindInv, BitInv
<1>2. AckInv => ChangedBitIsPerMaster
  BY Zenon DEF AckInv, BitInv, ChangedBitIsPerMaster
<1> QED
  BY <1>1, <1>2, TypeInit, TypeStep, AckStep, PTL DEF Spec
=============================================================================
