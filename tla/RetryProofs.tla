----------------------------- MODULE RetryProofs -----------------------------
(***************************************************************************)
(* Proofs about Retry.  They rest on two facts about the chains of errors, *)
(* whatever the SDK may return: a PermanentError is final whatever it      *)
(* wraps, and a chain with an error of the domain is final whatever wraps  *)
(* it.  The loop only goes on after errors that are not final.             *)
(***************************************************************************)
EXTENDS Retry, TLAPS

Layers   == (STRING \X STRING)
              \cup {<<"transient", Classify(failure)>> : failure \in Failures}
Returned == {AsTransient(failure) : failure \in Failures}

(* While Do has not returned, another attempt is left and every error so   *)
(* far was worth it.                                                       *)
LoopInv ==
  at # "returned" =>
    /\ Len(seen) < MaxAttempts
    /\ \A k \in DOMAIN seen : IsRetryable(seen[k])

Inv == TypeOK /\ LoopInv /\ BombAbortsArchive /\ GivenUpIsFinal

-----------------------------------------------------------------------------
(* A chain with one of the errors Classify looks for first is final.       *)
LEMMA FinalKind ==
  ASSUME NEW error, NEW kind \in Domain \cup {"permanent"}, Has(error, kind)
  PROVE  ~IsRetryable(error)
<1>1. ByType(error) = "none"
  BY DEF ByType
<1>2. Classify(error) = "none"
  BY <1>1 DEF Classify, Decide, FirstOf
<1> QED
  BY <1>2 DEF IsRetryable

(* A layer put around a chain is found in it.                              *)
LEMMA OuterLayer ==
  ASSUME NEW S, NEW error \in Seq(S), NEW kind, NEW of
  PROVE  Has(<< <<kind, of>> >> \o error, kind)
<1> DEFINE chain == << <<kind, of>> >> \o error
<1>1. 1 \in DOMAIN chain /\ chain[1] = <<kind, of>>
  OBVIOUS
<1> QED
  BY <1>1 DEF Has

(* What the adapters return is a chain of layers again.                    *)
LEMMA ReturnedIsChain ==
  ASSUME NEW failure \in Failures
  PROVE  AsTransient(failure) \in Seq(Layers)
<1>1. failure \in Seq(STRING \X STRING)
  BY RetryAssumption
<1>2. failure \in Seq(Layers)
  BY <1>1 DEF Layers
<1>3. <<"transient", Classify(failure)>> \in Layers
  BY DEF Layers
<1>4. << <<"transient", Classify(failure)>> >> \o failure \in Seq(Layers)
  BY <1>2, <1>3
<1> QED
  BY <1>2, <1>4 DEF AsTransient

(* Exhaustion is final.                                                    *)
LEMMA PermanentIsFinal ==
  ASSUME NEW error \in Seq(Layers)
  PROVE  ~IsRetryable(Permanent(error)) /\ Permanent(error) # Nil
<1>1. Has(Permanent(error), "permanent")
  BY OuterLayer DEF Permanent
<1>2. ~IsRetryable(Permanent(error))
  BY <1>1, FinalKind
<1>3. Len(Permanent(error)) = 1 + Len(error)
  BY DEF Permanent
<1> QED
  BY <1>2, <1>3 DEF Nil

(* A chain with a bomb is not retried, and processEntry aborts on it.      *)
LEMMA BombIsFinal ==
  ASSUME NEW error, Has(error, "bomb")
  PROVE  ~IsRetryable(error) /\ Verdict(error) = <<"archive aborted", "bomb">>
<1>1. ~IsRetryable(error)
  BY FinalKind DEF Domain
<1>2. error # Nil
  BY DEF Has, Nil
<1> QED
  BY <1>1, <1>2 DEF Verdict

-----------------------------------------------------------------------------
(* The invariant holds before the first attempt.                           *)
LEMMA InvInit == Init => Inv
<1> SUFFICES ASSUME Init PROVE Inv
  OBVIOUS
<1>1. seen \in Seq(Returned) /\ Len(seen) = 0 /\ DOMAIN seen = {}
  BY DEF Init
<1>2. TypeOK
  BY <1>1, RetryAssumption DEF Init, TypeOK, Returned, Nil
<1>3. LoopInv /\ BombAbortsArchive /\ GivenUpIsFinal
  BY <1>1, RetryAssumption DEF Init, LoopInv, BombAbortsArchive, GivenUpIsFinal
<1> QED
  BY <1>2, <1>3 DEF Inv

(* A failed call, the only step that adds to the errors seen.              *)
LEMMA InvCallFails == Inv /\ CallFails => Inv'
<1> SUFFICES ASSUME Inv, CallFails PROVE Inv'
  OBVIOUS
<1>1. PICK failure \in Failures :
        /\ seen' = Append(seen, AsTransient(failure))
        /\ AfterFailure(AsTransient(failure))
  BY DEF CallFails
<1> DEFINE error == AsTransient(failure)
           n     == Len(seen)
<1>2. error \in Seq(Layers) /\ error \in Returned
  BY ReturnedIsChain DEF Returned
<1>3. /\ seen \in Seq(Returned) /\ n < MaxAttempts /\ at = "calling"
      /\ \A k \in DOMAIN seen : IsRetryable(seen[k])
      /\ result = Nil \/ result # Nil
      /\ ctx \in {"live", "deadline", "canceled"} /\ ctx' = ctx
      /\ n \in Nat /\ MaxAttempts \in Nat
  BY RetryAssumption DEF Inv, TypeOK, LoopInv, CallFails, Returned
<1> HIDE DEF error
<1>4. /\ seen' \in Seq(Returned) /\ Len(seen') = n + 1 /\ DOMAIN seen' = 1..(n + 1)
      /\ seen'[n + 1] = error
      /\ \A k \in 1..n : seen'[k] = seen[k]
  BY <1>1, <1>2, <1>3 DEF error
<1>5. AfterFailure(error)
  BY <1>1 DEF error
<1>6. \A k \in 1..n : IsRetryable(seen'[k])
  BY <1>3, <1>4
<1>7. \A k \in DOMAIN seen' : Has(seen'[k], "bomb") => k = n + 1
  <2>1. SUFFICES ASSUME NEW k \in 1..n PROVE ~Has(seen'[k], "bomb")
    BY <1>3, <1>4
  <2>2. IsRetryable(seen'[k])
    BY <1>6
  <2> QED
    BY <2>2, BombIsFinal
<1>8. CASE ~IsRetryable(error) /\ Return(error)
  <2>1. at' = "returned" /\ result' = error
    BY <1>8 DEF Return
  <2>2. TypeOK'
    BY <1>3, <1>4, <2>1 DEF TypeOK, Returned
  <2>3. BombAbortsArchive'
    BY <1>4, <1>7, <2>1, BombIsFinal DEF BombAbortsArchive, Verdict
  <2>4. LoopInv' /\ GivenUpIsFinal'
    BY <1>8, <2>1 DEF LoopInv, GivenUpIsFinal, IsRetryable
  <2> QED
    BY <2>2, <2>3, <2>4 DEF Inv
<1>9. CASE IsRetryable(error)
  <2>1. \A k \in DOMAIN seen' : ~Has(seen'[k], "bomb")
    BY <1>4, <1>7, <1>9, BombIsFinal
  <2>2. BombAbortsArchive'
    BY <2>1 DEF BombAbortsArchive, Has
  <2>3. CASE n + 1 = MaxAttempts /\ Return(Permanent(error))
    <3>1. at' = "returned" /\ result' = Permanent(error)
      BY <2>3 DEF Return
    <3>2. n + 1 \in DOMAIN seen' /\ result' = Permanent(seen'[n + 1])
      BY <1>3, <1>4, <3>1
    <3>3. TypeOK'
      BY <1>3, <1>4, <3>1, <3>2, <2>3 DEF TypeOK, Returned
    <3>4. LoopInv' /\ GivenUpIsFinal'
      BY <1>2, <3>1, PermanentIsFinal DEF LoopInv, GivenUpIsFinal, IsRetryable
    <3> QED
      BY <2>2, <3>3, <3>4 DEF Inv
  <2>4. CASE n + 1 < MaxAttempts /\ at' = "waiting" /\ UNCHANGED result
    <3>1. result \in {Nil, CtxError("deadline"), CtxError("canceled")}
            \/ \E k \in DOMAIN seen : result \in {seen[k], Permanent(seen[k])}
      BY DEF Inv, TypeOK
    <3>2. ASSUME NEW k \in DOMAIN seen, result \in {seen[k], Permanent(seen[k])}
          PROVE  \E j \in DOMAIN seen' : result' \in {seen'[j], Permanent(seen'[j])}
      <4>1. k \in DOMAIN seen' /\ seen'[k] = seen[k]
        BY <1>3, <1>4
      <4>2. result' \in {seen'[k], Permanent(seen'[k])}
        BY <2>4, <3>2, <4>1
      <4> QED
        BY <4>1, <4>2
    <3>3. TypeOK'
      BY <1>3, <1>4, <2>4, <3>1, <3>2 DEF TypeOK, Returned
    <3>4. LoopInv' /\ GivenUpIsFinal'
      BY <1>4, <1>6, <1>9, <2>4 DEF LoopInv, GivenUpIsFinal, IsRetryable
    <3> QED
      BY <2>2, <3>3, <3>4 DEF Inv
  <2> QED
    BY <1>5, <1>9, <2>3, <2>4 DEF AfterFailure
<1> QED
  BY <1>5, <1>8, <1>9 DEF AfterFailure

(* Every step keeps the invariant.                                         *)
LEMMA InvNext == Inv /\ [Next]_vars => Inv'
<1> SUFFICES ASSUME Inv, [Next]_vars PROVE Inv'
  OBVIOUS
<1> USE DEF Inv, TypeOK, LoopInv, BombAbortsArchive, GivenUpIsFinal, IsRetryable
<1>1. CASE ContextEnds
  BY <1>1 DEF ContextEnds
<1>2. CASE BeginAttempt
  BY <1>2, FinalKind DEF BeginAttempt, Return
<1>3. CASE CallSucceeds
  BY <1>3, BombIsFinal DEF CallSucceeds, Return
<1>4. CASE CallFails
  BY <1>4, InvCallFails
<1>5. CASE BackoffOver
  BY <1>5 DEF BackoffOver
<1>6. CASE BackoffCut
  BY <1>6, BombIsFinal DEF BackoffCut, Return
<1>7. CASE UNCHANGED vars
  BY <1>7 DEF vars
<1> QED
  BY <1>1, <1>2, <1>3, <1>4, <1>5, <1>6, <1>7 DEF Next

LEMMA InvHolds == Spec => []Inv
  BY InvInit, InvNext, PTL DEF Spec

-----------------------------------------------------------------------------
(* Do makes at most MaxAttempts calls and returns nil, the context's error,*)
(* one of the errors it saw, or one of them as permanent.                  *)
THEOREM TypeCorrect == Spec => []TypeOK
<1>1. Inv => TypeOK
  BY DEF Inv
<1> QED
  BY <1>1, InvHolds, PTL

(* A bomb in the stream of an upload ends the call and aborts the archive, *)
(* for every way the SDK may wrap it.                                      *)
THEOREM BombAborts == Spec => []BombAbortsArchive
<1>1. Inv => BombAbortsArchive
  BY DEF Inv
<1> QED
  BY <1>1, InvHolds, PTL

(* What Do gives up with under a living context is never retried again.    *)
THEOREM GivenUp == Spec => []GivenUpIsFinal
<1>1. Inv => GivenUpIsFinal
  BY DEF Inv
<1> QED
  BY <1>1, InvHolds, PTL

-----------------------------------------------------------------------------
(* Throttling                                                               *)

(* What the adapters mark as transient stays worth another attempt.        *)
LEMMA MarkedIsRetryable ==
  ASSUME NEW failure \in Failures, IsRetryable(failure)
  PROVE  IsRetryable(AsTransient(failure))
<1> DEFINE class == Classify(failure)
           chain == << <<"transient", class>> >> \o failure
<1>1. AsTransient(failure) = chain /\ class # "none"
  BY DEF AsTransient, IsRetryable
<1>2. class # "silent"
  BY DEF Classify, Decide, FirstOf
<1>3. failure \in Seq(STRING \X STRING)
  BY RetryAssumption
<1>4. /\ DOMAIN chain = 1..(Len(failure) + 1)
      /\ chain[1] = <<"transient", class>>
      /\ \A k \in 2..(Len(failure) + 1) :
           chain[k] = failure[k - 1] /\ k - 1 \in DOMAIN failure
      /\ Len(failure) \in Nat
  BY <1>3
<1> HIDE DEF class, chain
<1>5. \A kind \in Domain \cup {"permanent"} : ~Has(failure, kind)
  BY FinalKind
<1>6. \A kind \in Domain \cup {"permanent"} : ~Has(chain, kind)
  <2> SUFFICES ASSUME NEW kind \in Domain \cup {"permanent"},
                      NEW k \in DOMAIN chain, chain[k][1] = kind
               PROVE  FALSE
    BY DEF Has
  <2>1. k = 1 \/ k \in 2..(Len(failure) + 1)
    BY <1>4
  <2>2. kind # "transient"
    BY DEF Domain
  <2>3. k \in 2..(Len(failure) + 1)
    BY <1>4, <2>1, <2>2
  <2> QED
    BY <1>4, <1>5, <2>3 DEF Has
<1>7. Has(chain, "transient") /\ As(chain, "transient") = class
  <2>1. /\ 1 \in DOMAIN chain /\ chain[1][1] = "transient"
        /\ chain[1][2] = class
    BY <1>4
  <2> DEFINE First(k) == /\ chain[k][1] = "transient"
                         /\ \A j \in 1..(k - 1) : chain[j][1] # "transient"
  <2>2. First(1)
    BY <2>1
  <2>3. \A k \in DOMAIN chain : First(k) => k = 1
    BY <1>4, <2>1
  <2>4. (CHOOSE k \in DOMAIN chain : First(k)) = 1
    BY <2>1, <2>2, <2>3
  <2> QED
    BY <2>1, <2>4 DEF As, Has
<1>8. ByType(chain) = class
  BY <1>6, <1>7 DEF ByType
<1>9. Classify(chain) = class
  BY <1>2, <1>8 DEF Classify, Decide, FirstOf
<1> QED
  BY <1>1, <1>9 DEF IsRetryable

(* An answer of a service is neither an error of the domain nor one that    *)
(* Do has wrapped.                                                          *)
Unwrapped(failure) ==
  As(failure, "api") = "throttling" =>
    \A kind \in Domain \cup {"permanent", "transient"} : ~Has(failure, kind)

LEMMA ThrottlingIsRetryable ==
  ASSUME NEW failure \in Failures, Unwrapped(failure),
         As(AsTransient(failure), "api") = "throttling"
  PROVE  IsRetryable(AsTransient(failure))
<1>1. CASE IsRetryable(failure)
  BY <1>1, MarkedIsRetryable
<1>2. CASE ~IsRetryable(failure)
  <2>1. AsTransient(failure) = failure
    BY <1>2 DEF AsTransient
  <2>2. ByType(failure) = "silent" /\ ByCode(failure) = "throttling"
    BY <2>1 DEF Unwrapped, ByType, ByCode
  <2>3. Classify(failure) = "throttling"
    BY <2>2 DEF Classify, Decide, FirstOf
  <2> QED
    BY <1>2, <2>3 DEF IsRetryable
<1> QED
  BY <1>1, <1>2

(* Throttling, which DynamoDB answers with status 400, gets every attempt   *)
(* while the context lives, for any number of attempts and any chains.      *)
THEOREM ThrottlingRetried ==
  ASSUME \A failure \in Failures : Unwrapped(failure)
  PROVE  Spec => []ThrottlingUsesAllAttempts
<1>1. Init => ThrottlingUsesAllAttempts
  BY DEF Init, ThrottlingUsesAllAttempts
<1>2. Inv /\ ThrottlingUsesAllAttempts /\ [Next]_vars
        => ThrottlingUsesAllAttempts'
  <2> SUFFICES ASSUME Inv, ThrottlingUsesAllAttempts, [Next]_vars
               PROVE  ThrottlingUsesAllAttempts'
    OBVIOUS
  <2> USE DEF ThrottlingUsesAllAttempts
  <2>1. CASE ContextEnds
    BY <2>1 DEF ContextEnds
  <2>2. CASE BeginAttempt
    BY <2>2 DEF BeginAttempt, Return
  <2>3. CASE CallSucceeds
    BY <2>3 DEF CallSucceeds, Return
  <2>4. CASE CallFails
    <3>1. PICK failure \in Failures :
            /\ seen' = Append(seen, AsTransient(failure))
            /\ AfterFailure(AsTransient(failure))
      BY <2>4 DEF CallFails
    <3> DEFINE error == AsTransient(failure)
    <3>2. seen \in Seq(Returned) /\ error \in Returned
      BY DEF Inv, TypeOK, Returned
    <3>3. As(error, "api") = "throttling" => IsRetryable(error)
      BY ThrottlingIsRetryable
    <3>4. AfterFailure(error) /\ seen' = Append(seen, error)
      BY <3>1
    <3> HIDE DEF error
    <3>5. Len(seen') = Len(seen) + 1 /\ seen'[Len(seen')] = error
      BY <3>2, <3>4
    <3>6. CASE ~IsRetryable(error)
      BY <3>3, <3>5, <3>6
    <3>7. CASE Len(seen) + 1 = MaxAttempts
      BY <3>5, <3>7
    <3>8. CASE at' = "waiting"
      BY <3>8
    <3> QED
      BY <3>4, <3>6, <3>7, <3>8 DEF AfterFailure
  <2>5. CASE BackoffOver
    BY <2>5 DEF BackoffOver
  <2>6. CASE BackoffCut
    BY <2>6 DEF BackoffCut, Return
  <2>7. CASE UNCHANGED vars
    BY <2>7 DEF vars
  <2> QED
    BY <2>1, <2>2, <2>3, <2>4, <2>5, <2>6, <2>7 DEF Next
<1> QED
  BY <1>1, <1>2, InvHolds, PTL DEF Spec
=============================================================================
