-------------------------------- MODULE Retry --------------------------------
(***************************************************************************)
(* One call of retry.Retrier.Do (internal/retry/retry.go) with the errors  *)
(* in detail: what an adapter makes of a failure (AsTransient), what Do    *)
(* makes of that (Classify), and what processEntry (service.go) reads out  *)
(* of the error it gets back.                                              *)
(*                                                                         *)
(* Extraction has the same loop with the verdict of Classify as a choice.  *)
(*                                                                         *)
(* An error is its chain of wrapped errors, outermost first.  A layer is   *)
(* <<kind, of>>:                                                           *)
(*   bomb, path, unsupported   the errors of the domain                    *)
(*   permanent                 PermanentError                              *)
(*   transient, class          TransientError                              *)
(*   api, code                 smithy.APIError, by the group of its code   *)
(*   http, status              a response with a status, by its group      *)
(*   url, temporary / lasting  url.Error, by its Temporary()               *)
(*   net                       net.OpError                                 *)
(*   dial                      a text with "no such host" or "dial tcp"    *)
(*   deadline, canceled        the errors of a context                     *)
(*   plain                     any other                                   *)
(***************************************************************************)
EXTENDS Integers, Sequences

CONSTANTS
  MaxAttempts,     (* RetryConfig.MaxAttempts                               *)
  Failures         (* the errors a call of the SDK may return               *)

(* MaxAttempts: config.Validate; a failure is a chain of layers. *)
ASSUME RetryAssumption ==
  /\ MaxAttempts \in Nat \ {0}
  /\ Failures \subseteq Seq(STRING \X STRING)

VARIABLES
  ctx,             (* "live", or why the context is done                    *)
  at,              (* where Do is                                           *)
  seen,            (* the errors of the calls made so far                   *)
  result           (* what Do returned; << >> is nil                        *)

vars == <<ctx, at, seen, result>>

Nil     == << >>
Domain  == {"bomb", "path", "unsupported"}
Classes == {"throttling", "5xx", "timeout", "network"}
CtxError(why) == << <<why, "context">> >>

(* errors.As and the helpers IsBombDefence ... IsPermanent: the first layer *)
(* of a kind.                                                               *)
Has(error, kind) == \E k \in DOMAIN error : error[k][1] = kind
As(error, kind)  ==
  IF Has(error, kind)
  THEN LET first == CHOOSE k \in DOMAIN error :
                      /\ error[k][1] = kind
                      /\ \A j \in 1..(k - 1) : error[j][1] # kind
       IN error[first][2]
  ELSE "absent"

-----------------------------------------------------------------------------
(* Classify: four groups of rules, the first that is not silent decides.   *)

(* Mutant of ByType: a class is believed before PermanentError is looked for. *)
ByTypeTransientFirst(error) ==
  IF Has(error, "transient") THEN As(error, "transient")
  ELSE IF \E kind \in Domain \cup {"permanent"} : Has(error, kind) THEN "none"
  ELSE "silent"

ByType(error) ==
  IF \E kind \in Domain \cup {"permanent"} : Has(error, kind) THEN "none"
  ELSE IF Has(error, "transient") THEN As(error, "transient")
  ELSE "silent"

ByCode(error) ==
  IF As(error, "api") \in {"throttling", "timeout"} THEN As(error, "api")
  ELSE "silent"

ByStatus(error) ==
  IF As(error, "http") = "5xx" THEN "5xx"
  ELSE IF As(error, "http") = "4xx" THEN "none"
  ELSE "silent"

ByCause(error) ==
  IF Has(error, "deadline") THEN "timeout"
  ELSE IF \/ Has(error, "net")
          \/ As(error, "url") = "temporary"
          \/ Has(error, "dial")
       THEN "network"
  ELSE "silent"

FirstOf(a, b) == IF a # "silent" THEN a ELSE b

Decide(a, b, c, d) == FirstOf(FirstOf(FirstOf(FirstOf(a, b), c), d), "none")

(* Mutant of Classify: the status is looked at before the code. *)
ClassifyStatusFirst(error) ==
  Decide(ByType(error), ByStatus(error), ByCode(error), ByCause(error))

(* Mutant of Classify: what the network says comes before the domain. *)
ClassifyCauseFirst(error) ==
  Decide(ByCause(error), ByType(error), ByCode(error), ByStatus(error))

(* The class of an error, or "none" if it is not retried. *)
Classify(error) ==
  Decide(ByType(error), ByCode(error), ByStatus(error), ByCause(error))

IsRetryable(error) == Classify(error) # "none"

(* The adapters return the errors of the SDK through this. *)
AsTransient(error) ==
  IF IsRetryable(error) THEN << <<"transient", Classify(error)>> >> \o error
  ELSE error

Permanent(error) == << <<"permanent", "exhausted">> >> \o error

(* classifyEntryFailure: the failureReason of the entry's row. *)
EntryReason(error) ==
  IF Has(error, "permanent") THEN <<"retries exhausted", "permanent">>
  ELSE IF Has(error, "transient")
       THEN <<"retries exhausted", As(error, "transient")>>
  ELSE <<"error", "text">>

(* processEntry: a bomb stops the archive, any other error the entry.      *)
Verdict(error) ==
  IF error = Nil THEN <<"uploaded", "">>
  ELSE IF Has(error, "bomb") THEN <<"archive aborted", "bomb">>
  ELSE EntryReason(error)

-----------------------------------------------------------------------------
(* Do *)

Init ==
  /\ ctx = "live"
  /\ at = "head"
  /\ seen = << >>
  /\ result = Nil

Return(error) == at' = "returned" /\ result' = error

(* Rule 10 or a drain, at any time. *)
ContextEnds ==
  /\ ctx = "live"
  /\ ctx' \in {"deadline", "canceled"}
  /\ UNCHANGED <<at, seen, result>>

BeginAttempt ==
  /\ at = "head"
  /\ \/ ctx = "live" /\ at' = "calling" /\ UNCHANGED result
     \/ ctx # "live" /\ Return(CtxError(ctx))
  /\ UNCHANGED <<ctx, seen>>

CallSucceeds ==
  /\ at = "calling"
  /\ Return(Nil)
  /\ UNCHANGED <<ctx, seen>>

(* Mutant of AfterFailure: the last attempt is followed by another. *)
AfterFailureOneMore(error) ==
  \/ ~IsRetryable(error) /\ Return(error)
  \/ IsRetryable(error) /\ Len(seen) = MaxAttempts /\ Return(Permanent(error))
  \/ IsRetryable(error) /\ Len(seen) < MaxAttempts
     /\ at' = "waiting" /\ UNCHANGED result

AfterFailure(error) ==
  \/ ~IsRetryable(error) /\ Return(error)
  \/ IsRetryable(error) /\ Len(seen) + 1 = MaxAttempts
     /\ Return(Permanent(error))
  \/ IsRetryable(error) /\ Len(seen) + 1 < MaxAttempts
     /\ at' = "waiting" /\ UNCHANGED result

CallFails ==
  /\ at = "calling"
  /\ \E failure \in Failures :
       /\ seen' = Append(seen, AsTransient(failure))
       /\ AfterFailure(AsTransient(failure))
  /\ UNCHANGED ctx

(* The select: when both are ready, either may be taken. *)
BackoffOver ==
  /\ at = "waiting"
  /\ at' = "head"
  /\ UNCHANGED <<ctx, seen, result>>

BackoffCut ==
  /\ at = "waiting"
  /\ ctx # "live"
  /\ Return(CtxError(ctx))
  /\ UNCHANGED <<ctx, seen>>

Next ==
  \/ ContextEnds
  \/ BeginAttempt
  \/ CallSucceeds
  \/ CallFails
  \/ BackoffOver
  \/ BackoffCut

Spec == Init /\ [][Next]_vars

-----------------------------------------------------------------------------
(* At most MaxAttempts calls are made, and the result is one of Do's.      *)
TypeOK ==
  /\ ctx \in {"live", "deadline", "canceled"}
  /\ at \in {"head", "calling", "waiting", "returned"}
  /\ seen \in Seq({AsTransient(failure) : failure \in Failures})
  /\ Len(seen) <= MaxAttempts
  /\ \/ result \in {Nil, CtxError("deadline"), CtxError("canceled")}
     \/ \E k \in DOMAIN seen : result \in {seen[k], Permanent(seen[k])}

(* A bomb found while the body of an upload is read ends the call at once  *)
(* and the archive with it, however the SDK wraps it: no adapter, rule of  *)
(* Classify or attempt turns it into something that is tried again.        *)
BombAbortsArchive ==
  \A k \in DOMAIN seen : Has(seen[k], "bomb") =>
    /\ at = "returned"
    /\ k = Len(seen)
    /\ Verdict(result) = <<"archive aborted", "bomb">>

(* While the context lives, an error that Do gives up with is not retried  *)
(* by anybody who classifies it again, although the chain still holds the  *)
(* TransientError of the last attempt.                                     *)
GivenUpIsFinal ==
  at = "returned" /\ result # Nil /\ ctx = "live" => ~IsRetryable(result)

(* DynamoDB answers throttling with status 400: it must still be given     *)
(* every attempt, unless the context ends before.                          *)
ThrottlingUsesAllAttempts ==
  \A k \in DOMAIN seen :
    As(seen[k], "api") = "throttling" /\ at = "returned" /\ k = Len(seen)
      => \/ Len(seen) = MaxAttempts
         \/ result = Nil
         \/ ctx # "live"

(* The failureReason of an entry whose retries are exhausted names the     *)
(* class of the failure (business-rules.md:352, integration test 54 of     *)
(* integration-test-instructions.md).  It does not: Do returns exhaustion  *)
(* in a PermanentError, which classifyEntryFailure looks for first.        *)
ExhaustedNamesClass ==
  at = "returned" /\ Has(result, "permanent")
    => EntryReason(result) = <<"retries exhausted", Classify(seen[Len(seen)])>>
=============================================================================
