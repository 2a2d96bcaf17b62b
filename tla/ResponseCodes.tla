---------------------------- MODULE ResponseCodes ----------------------------
(***************************************************************************)
(* The response codes the device answers with, and the two classes         *)
(* Commands/command.h sorts them into: a warning comes with the data of    *)
(* the reply, an error without.                                            *)
(***************************************************************************)
EXTENDS Integers

RC_SUCCESS          == 0
RC_INVALID          == 2
RC_TOO_FEW          == 5
RC_WARN_8           == 8
RC_CFGMISMATCH      == 9
RC_MULTIPLE_10      == 10
RC_MULTIPLE_11      == 11
RC_MULTIPLE_12      == 12
RC_BAD_INDEX        == 17
RC_INDEX_DISALLOWED == 19
RC_TRUNCATED        == 30
RC_NOT_IMPLEM       == 64
RC_DONOTSEND        == 128
RC_NO_TYPE          == 255   \* -1 in the uint8_t of insertSelf() and extractSelf()

isWarning(c) == c > 95 \/ c \in {8, 14, 30, 31} \cup 24 .. 27
isError(c) == c # 0 /\ ~isWarning(c)
=============================================================================
