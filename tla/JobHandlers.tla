----------------------------- MODULE JobHandlers -----------------------------
(***************************************************************************)
(* JobHandlerRegistry and the handlers it routes to.  A job's class, type  *)
(* and payload never change, and no request checks them, so a job is of    *)
(* one kind for good:                                                      *)
(*                                                                         *)
(*   delay      test-delay with failureProb 0                              *)
(*   flaky      test-delay with a failureProb between 0 and 1              *)
(*   inference  gpu-inference with a modelId and a blobKey                 *)
(*   invalid    gpu-inference without them                                 *)
(*   unknown    any other class and type                                   *)
(***************************************************************************)
EXTENDS Environment

CONSTANT Kind           \* the kind of each job

Kinds == {"delay", "flaky", "inference", "invalid", "unknown"}

ASSUME KindAssumption == Kind \in [JobIds -> Kinds]

\* SUPPORTED_HANDLERS, by kind of job.
HasHandler(kind) == kind # "unknown"

\* Math.random() < failureProb in the delay handler.
DelayOutcomes(kind) == IF kind = "flaky" THEN {"resolves", "rejects"} ELSE {"resolves"}

\* runInference: nothing but the validation of the payload rejects.
InferenceOutcomes(kind) == IF kind = "invalid" THEN {"rejects"} ELSE {"resolves"}

\* Mutant: without a handler the registry falls back to one that does nothing.
Outcomes_Default(kind) ==
    IF kind \in {"inference", "invalid"} THEN InferenceOutcomes(kind) ELSE DelayOutcomes(kind)

\* How execute may settle for a job of a kind, each time it is called.
Outcomes(kind) ==
    CASE ~HasHandler(kind) -> {"rejects"}
      [] kind \in {"inference", "invalid"} -> InferenceOutcomes(kind)
      [] OTHER -> DelayOutcomes(kind)
=============================================================================
