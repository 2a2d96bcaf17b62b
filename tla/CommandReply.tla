---------------------------- MODULE CommandReply ----------------------------
(***************************************************************************)
(* The way of a request through Hip_Native/nativeapp.cpp and               *)
(* Commands/command.cpp, beside the burst thread.                          *)
(*                                                                         *)
(* The command thread takes one request at a time: the command object      *)
(* extracts its data, inserts the reply, and handle_device_message() adds  *)
(* the response code, saves a changed configuration and sets the           *)
(* configuration-changed bit of the master that asked.  The burst thread   *)
(* publishes through the same command objects and the same global          *)
(* responseCode (burstIt, burstThisCmd), and nothing keeps the two apart.  *)
(*                                                                         *)
(* A request is one of the kinds the code tells apart; its data is left    *)
(* out except for the configuration change counter of command 38.          *)
(***************************************************************************)
EXTENDS Integers

CONSTANTS
  BurstCmds,    \* the commands the burst thread publishes
  HostKinds,    \* the kinds of request the masters send
  MaxChanges    \* bound: the configuration change counter stops here

Masters == {"Primary", "Secondary"}

\* read and write succeed, and write changes the configuration; warned succeeds
\* with a warning and changes the configuration too; bad and short are refused
\* by extractData(); late is a command 104 refused after it bumped the counter;
\* otherTag is command 11 or 21 for another device; unknown is no command of
\* this device; 38 carries a counter, 38v5 does not.
Kinds == {"read", "write", "warned", "late", "bad", "short", "otherTag",
          "unknown", "38", "38v5"}
Changing == {"write", "warned", "late"}

ASSUME CommandConstants ==
  /\ BurstCmds \subseteq {1, 2, 3, 9, 38, 48}
  /\ HostKinds \subseteq Kinds
  /\ MaxChanges \in Nat \ {0}

RC_SUCCESS     == 0
RC_INVALID     == 2
RC_TOO_FEW     == 5
RC_WARN_8      == 8
RC_CFGMISMATCH == 9
RC_MULTIPLE_11 == 11
RC_NOT_IMPLEM  == 64
RC_DONOTSEND   == 128

isError(rc) == rc \notin {RC_SUCCESS, RC_WARN_8}

VARIABLES
  responseCode,     \* volatileData.responseCode, shared by both threads
  fromPrimary38,    \* fromPrimary of the one cmd_38 object
  configChangeCnt,  \* NONvolatileData.configChangeCnt
  configChangedBit, \* configChangedBit_Pri, configChangedBit_Sec
  writeNeeded,
  savedCnt,         \* the counter in the configuration file
  \* the command thread: where it is, the request, what the command object
  \* returned, whether the reply has data, the reply
  cpc, req, rtn, hasData, reply,
  \* the burst thread: where it is, and the master its next message names
  bpc, burstMaster,
  \* Bookkeeping for the properties: the changes a master has not acknowledged
  \* itself, and the highest counter a reply vouched for; the masters whose bit
  \* an acknowledgement touched while command 38 was being published, and
  \* whether it was since the request at hand was received.
  owed, told, mixed, between

config     == <<configChangeCnt, configChangedBit, writeNeeded, savedCnt>>
cmdThread  == <<cpc, req, rtn, hasData, reply>>
burstThread == <<bpc, burstMaster>>
history    == <<owed, told, mixed, between>>
vars == <<responseCode, fromPrimary38, config, cmdThread, burstThread, history>>

NoRequest == [master |-> "Primary", kind |-> "read", cnt |-> 0]
NoAnswer  == [code |-> 0, ccb |-> FALSE]
Codes == {RC_SUCCESS, RC_INVALID, RC_TOO_FEW, RC_WARN_8, RC_CFGMISMATCH,
          RC_MULTIPLE_11, RC_NOT_IMPLEM, RC_DONOTSEND}

TypeOK ==
  /\ responseCode \in Codes \ {RC_DONOTSEND}
  /\ fromPrimary38 \in BOOLEAN
  /\ configChangeCnt \in 1 .. MaxChanges /\ savedCnt \in 1 .. MaxChanges
  /\ configChangedBit \in [Masters -> BOOLEAN]
  /\ writeNeeded \in BOOLEAN
  /\ cpc \in {"idle", "extract", "acknowledge", "insert", "code", "save",
              "status", "send"}
  /\ req \in [master : Masters, kind : Kinds, cnt : 0 .. MaxChanges]
  /\ rtn \in Codes
  /\ hasData \in BOOLEAN
  /\ reply \in [code : Codes \ {RC_DONOTSEND}, ccb : BOOLEAN]
  /\ bpc \in {"idle", "insert", "status"}
  /\ burstMaster \in Masters
  /\ owed \in [Masters -> BOOLEAN]
  /\ told \in 1 .. MaxChanges
  /\ mixed \in SUBSET Masters /\ between \in BOOLEAN

Init ==
  /\ responseCode = RC_SUCCESS
  /\ fromPrimary38 = TRUE
  /\ configChangeCnt = 1 /\ savedCnt = 1
  /\ configChangedBit = [h \in Masters |-> FALSE]
  /\ writeNeeded = FALSE
  /\ cpc = "idle" /\ req = NoRequest /\ rtn = RC_SUCCESS
  /\ hasData = FALSE /\ reply = NoAnswer
  /\ bpc = "idle" /\ burstMaster = "Secondary"
  /\ owed = [h \in Masters |-> FALSE]
  /\ told = 1
  /\ mixed = {} /\ between = FALSE
-----------------------------------------------------------------------------
(* The command thread. *)

\* cmdSet::handleCmd() finds the command; cmd_base::handleCmd() clears the
\* response code and notes the master before it extracts.
Receive(h, k, cnt) ==
  /\ cpc = "idle"
  /\ k \in Changing => configChangeCnt < MaxChanges
  /\ req' = [master |-> h, kind |-> k, cnt |-> cnt]
  /\ IF k = "unknown"
     THEN /\ cpc' = "code"
          /\ UNCHANGED <<responseCode, fromPrimary38>>
     ELSE /\ cpc' = "extract"
          /\ responseCode' = RC_SUCCESS
          /\ fromPrimary38' = IF k \in {"38", "38v5"} THEN h = "Primary"
                              ELSE fromPrimary38
  /\ between' = FALSE
  /\ UNCHANGED <<config, rtn, hasData, reply, burstThread, owed, told, mixed>>

\* A configuration command, which ends in bumpConfigCnt().
Change ==
  /\ configChangeCnt' = configChangeCnt + 1
  /\ configChangedBit' = [h \in Masters |-> TRUE]
  /\ writeNeeded' = TRUE
  /\ owed' = [h \in Masters |-> TRUE] /\ mixed' = {}

Stale == req.kind = "38" /\ req.cnt # configChangeCnt

\* Clear() that acknowledges whatever counter the host sends.
Clear_AnyCount(h) ==
  LET named == req.kind = "38v5" \/ (fromPrimary38 <=> h = "Primary")
      asked == req.kind = "38v5" \/ req.master = h
  IN  /\ configChangedBit' = [configChangedBit EXCEPT ![h] = @ /\ ~named]
      /\ IF Stale
         THEN UNCHANGED <<owed, mixed>>
         ELSE /\ owed' = [owed EXCEPT ![h] = @ /\ ~asked]
              /\ mixed' = IF req.kind = "38" /\ between THEN mixed \union {h}
                          ELSE IF asked THEN mixed \ {h} ELSE mixed

\* Command 38 clears the bit of the master fromPrimary names, of both for a
\* version 5 host, if the counter the host sends is the present one.  It looks
\* at fromPrimary for one master after the other.
Clear(h) ==
  LET named == req.kind = "38v5" \/ (fromPrimary38 <=> h = "Primary")
      asked == req.kind = "38v5" \/ req.master = h
  IN  IF Stale
      THEN UNCHANGED <<configChangedBit, owed, mixed>>
      ELSE /\ configChangedBit' = [configChangedBit EXCEPT ![h] = @ /\ ~named]
           /\ owed' = [owed EXCEPT ![h] = @ /\ ~asked]
           /\ mixed' = IF req.kind = "38" /\ between THEN mixed \union {h}
                       ELSE IF asked THEN mixed \ {h} ELSE mixed

\* The response code of extractData().
Extracted == CASE req.kind = "warned"   -> RC_WARN_8
               [] req.kind = "late"     -> RC_MULTIPLE_11
               [] req.kind = "bad"      -> RC_INVALID
               [] req.kind = "short"    -> RC_TOO_FEW
               [] req.kind = "otherTag" -> RC_DONOTSEND
               [] Stale -> RC_CFGMISMATCH
               [] OTHER -> RC_SUCCESS

Extract ==
  /\ cpc = "extract"
  /\ rtn' = Extracted
  /\ CASE req.kind \in Changing ->
            Change /\ cpc' = "insert"
       [] req.kind \in {"38", "38v5"} ->
            /\ Clear("Primary") /\ cpc' = "acknowledge"
            /\ UNCHANGED <<configChangeCnt, writeNeeded>>
       [] OTHER ->
            /\ UNCHANGED <<configChangeCnt, configChangedBit, writeNeeded, owed,
                           mixed>>
            /\ cpc' = "insert"
  /\ UNCHANGED <<responseCode, fromPrimary38, savedCnt, req, hasData, reply,
                 burstThread, told, between>>

\* The second look of command 38 at fromPrimary.
Acknowledge ==
  /\ cpc = "acknowledge"
  /\ Clear("Secondary")
  /\ cpc' = "insert"
  /\ between' = FALSE
  /\ UNCHANGED <<responseCode, fromPrimary38, configChangeCnt, writeNeeded,
                 savedCnt, req, rtn, hasData, reply, burstThread, told>>

\* insert_Data(), unless the request was refused or is to be ignored.
Insert ==
  /\ cpc = "insert"
  /\ hasData' = ~isError(rtn)
  /\ cpc' = "code"
  /\ UNCHANGED <<responseCode, fromPrimary38, config, req, rtn, reply,
                 burstThread, history>>

\* SetCode() that answers requests for other devices.
SetCode_AnswersAll ==
  /\ cpc = "code"
  /\ responseCode' = IF req.kind = "unknown" THEN RC_NOT_IMPLEM ELSE rtn
  /\ cpc' = "save"
  /\ UNCHANGED <<req, rtn, hasData>>
  /\ UNCHANGED <<fromPrimary38, config, reply, burstThread, history>>

\* SetCode() that sets no code for a command the device does not have.
SetCode_Forgets ==
  /\ cpc = "code"
  /\ IF req.kind # "unknown" /\ rtn = RC_DONOTSEND
     THEN /\ cpc' = "idle" /\ req' = NoRequest /\ rtn' = RC_SUCCESS
          /\ hasData' = FALSE
          /\ UNCHANGED responseCode
     ELSE /\ responseCode' = IF req.kind = "unknown" THEN responseCode ELSE rtn
          /\ cpc' = "save"
          /\ UNCHANGED <<req, rtn, hasData>>
  /\ UNCHANGED <<fromPrimary38, config, reply, burstThread, history>>

\* handle_device_message(): the code the command returned goes into the global
\* responseCode; a request for another device gets no answer.
SetCode ==
  /\ cpc = "code"
  /\ IF req.kind # "unknown" /\ rtn = RC_DONOTSEND
     THEN /\ cpc' = "idle" /\ req' = NoRequest /\ rtn' = RC_SUCCESS
          /\ hasData' = FALSE
          /\ UNCHANGED responseCode
     ELSE /\ responseCode' = IF req.kind = "unknown" THEN RC_NOT_IMPLEM ELSE rtn
          /\ cpc' = "save"
          /\ UNCHANGED <<req, rtn, hasData>>
  /\ UNCHANGED <<fromPrimary38, config, reply, burstThread, history>>

\* Save that only runs after a clean success.
Save_OnSuccess ==
  /\ cpc = "save"
  /\ IF writeNeeded /\ responseCode = RC_SUCCESS
     THEN savedCnt' = configChangeCnt /\ writeNeeded' = FALSE
     ELSE UNCHANGED <<savedCnt, writeNeeded>>
  /\ cpc' = "status"
  /\ UNCHANGED <<responseCode, fromPrimary38, configChangeCnt, configChangedBit,
                 req, rtn, hasData, reply, burstThread, history>>

\* putData() writes NONvolatileData to the file, if a command asked for it.
Save ==
  /\ cpc = "save"
  /\ IF writeNeeded
     THEN savedCnt' = configChangeCnt /\ writeNeeded' = FALSE
     ELSE UNCHANGED <<savedCnt, writeNeeded>>
  /\ cpc' = "status"
  /\ UNCHANGED <<responseCode, fromPrimary38, configChangeCnt, configChangedBit,
                 req, rtn, hasData, reply, burstThread, history>>

\* SetRCStatus(*pRC, DS): the global code as it is now, and the bit of the
\* master that asked.
SetRCStatus ==
  /\ cpc = "status"
  /\ reply' = [code |-> responseCode, ccb |-> configChangedBit[req.master]]
  /\ cpc' = "send"
  /\ UNCHANGED <<responseCode, fromPrimary38, config, req, rtn, hasData,
                 burstThread, history>>

\* The reply leaves; one with data vouches for the configuration it was made of.
Send ==
  /\ cpc = "send"
  /\ told' = IF hasData /\ configChangeCnt > told THEN configChangeCnt ELSE told
  /\ cpc' = "idle" /\ req' = NoRequest /\ rtn' = RC_SUCCESS
  /\ hasData' = FALSE /\ reply' = NoAnswer
  /\ UNCHANGED <<responseCode, fromPrimary38, config, burstThread, owed, mixed,
                 between>>
-----------------------------------------------------------------------------
(* The burst thread: burstIt() for a message that is due. *)

\* burstThisCmd() clears the response code and notes the master of the message,
\* which alternates, in the object of its command.
BurstBegin(cmd) ==
  /\ bpc = "idle"
  /\ responseCode' = RC_SUCCESS
  /\ fromPrimary38' = IF cmd = 38 THEN burstMaster = "Primary"
                      ELSE fromPrimary38
  /\ between' = (\/ between
                 \/ cmd = 38 /\ cpc \in {"extract", "acknowledge"})
  /\ bpc' = "insert"
  /\ UNCHANGED <<config, cmdThread, burstMaster, owed, told, mixed>>

BurstInsert ==
  /\ bpc = "insert"
  /\ bpc' = "status"
  /\ UNCHANGED <<responseCode, fromPrimary38, config, cmdThread, burstMaster,
                 history>>

\* SetRCStatus(*pRC, DS) again, and out.
BurstSend ==
  /\ bpc = "status"
  /\ bpc' = "idle"
  /\ burstMaster' = CHOOSE h \in Masters : h # burstMaster
  /\ UNCHANGED <<responseCode, fromPrimary38, config, cmdThread, history>>

\* The device stops and starts again: the bits are volatile, the rest comes from
\* the file.  Without power nothing is saved; the SIGINT handler saves.
Restart ==
  /\ savedCnt' \in {savedCnt, configChangeCnt}
  /\ responseCode' = RC_SUCCESS
  /\ fromPrimary38' = TRUE
  /\ configChangeCnt' = savedCnt'
  /\ configChangedBit' = [h \in Masters |-> FALSE]
  /\ owed' = [h \in Masters |-> FALSE] /\ mixed' = {} /\ between' = FALSE
  /\ writeNeeded' = FALSE
  /\ cpc' = "idle" /\ req' = NoRequest /\ rtn' = RC_SUCCESS
  /\ hasData' = FALSE /\ reply' = NoAnswer
  /\ bpc' = "idle" /\ burstMaster' = "Secondary"
  /\ UNCHANGED told
-----------------------------------------------------------------------------
HostRequest ==
  \E h \in Masters : \E k \in HostKinds :
    \E cnt \in IF k = "38" THEN 1 .. MaxChanges ELSE {0} : Receive(h, k, cnt)

CommandThread == \/ HostRequest \/ Extract \/ Acknowledge \/ Insert \/ SetCode
                 \/ Save \/ SetRCStatus \/ Send

BurstThread == (\E cmd \in BurstCmds : BurstBegin(cmd))
                 \/ BurstInsert \/ BurstSend

Next == CommandThread \/ BurstThread \/ Restart

Spec == Init /\ [][Next]_vars
-----------------------------------------------------------------------------
\* The code the request at hand deserves.
OwnCode == IF req.kind = "unknown" THEN RC_NOT_IMPLEM ELSE rtn

\* No reply carries the code of another request or of a burst: it is the code
\* of its own request or success, and with an error code there is no data.
NoForeignCode ==
  cpc = "send" => /\ reply.code \in {OwnCode, RC_SUCCESS}
                  /\ isError(reply.code) => ~hasData

\* The configuration-changed bit of a master is set from a change, by whoever
\* and even if the command is then refused, until that master itself sends
\* command 38 with the counter of the last change, or a version 5 host
\* acknowledges for both.  Any command may be published meanwhile; only when 38
\* itself is, between the receipt of an acknowledgement and a look at
\* fromPrimary, nothing is said of the bit looked at (until the next change or
\* undisturbed acknowledgement).
ChangedBitIsPerMaster ==
  \A h \in Masters \ mixed : configChangedBit[h] <=> owed[h]

\* A configuration a reply vouched for is not taken back by a restart: the file
\* is written before the reply leaves, whatever code the reply carries.
ToldIsKept == told <= configChangeCnt

\* A reply carries the response code of its own request (nativeapp.cpp:157 "It
\* is up to the msgFunc to handle errors and form the correct error response
\* packet").
OwnResponseCode == cpc = "send" => reply.code = OwnCode
=============================================================================
