-------------------------- MODULE ReliableProvider --------------------------
(***************************************************************************)
(* Calls of a language model through src/src/providers/reliable.rs: every  *)
(* model of a fallback chain is tried on every provider, each pair several *)
(* times.  Concurrent calls share the circuit breakers of the providers    *)
(* and the cooldowns of the models.                                        *)
(*                                                                         *)
(* chat_with_system and chat_with_history look at the breakers, chat and   *)
(* chat_with_tools do not.  Time is the order of actions: a breaker or a   *)
(* cooldown runs out at any moment.  Backoff, key rotation (which selects  *)
(* a key that cannot be applied) and the health registry are left out.     *)
(***************************************************************************)
EXTENDS Naturals, Sequences, FiniteSets

CONSTANTS
  Calls,        \* the calls
  Guarded,      \* those that look at the circuit breakers
  Providers,    \* the providers, in the order of preference
  Timed,        \* those whose attempts end: HTTP clients with a timeout, not a codex process
  ModelChain,   \* the model each call asks for and its fallbacks
  MaxRetries,   \* max_retries
  Threshold     \* provider_circuit_breaker_threshold, 0 to disable the breakers

ASSUME ProviderAssumption ==
  /\ Guarded \subseteq Calls
  /\ MaxRetries \in Nat
  /\ Threshold \in Nat
  /\ Len(Providers) \in Nat \ {0}
  /\ Timed \subseteq {Providers[i] : i \in DOMAIN Providers}

VARIABLES
  failures,    \* consecutive failed rounds of each provider, counted up to Threshold
  tripped,     \* providers whose cooldown_until is in the future
  cooled,      \* models in model_cooldowns
  at,          \* where each call is
  chain,       \* its models in the order it tries them
  round,       \* the number of its round: one for each model and provider
  attempt,     \* the attempt of the round, from 1
  limited,     \* rate_limit_failures of the round
  missing      \* history: attempts the finished rounds had left

shared == <<failures, tripped, cooled>>
callVars == <<shared, at, chain, round, attempt, limited, missing>>

-----------------------------------------------------------------------------
Provider == {Providers[i] : i \in DOMAIN Providers}
Rounds(c) == Len(ModelChain[c]) * Len(Providers)
ModelOf(c) == chain[c][((round[c] - 1) \div Len(Providers)) + 1]
ProviderOf(c) == Providers[((round[c] - 1) % Len(Providers)) + 1]

\* model_chain: models that are cooling down go to the end, the order is kept otherwise.
Reordered(models) ==
  SelectSeq(models, LAMBDA m : m \notin cooled) \o SelectSeq(models, LAMBDA m : m \in cooled)

Set(f, c, value) == [f EXCEPT ![c] = value]

CallInit ==
  /\ failures = [p \in Provider |-> 0]
  /\ tripped = {}
  /\ cooled = {}
  /\ at = [c \in Calls |-> "new"]
  /\ chain = [c \in Calls |-> << >>]
  /\ round = [c \in Calls |-> 1]
  /\ attempt = [c \in Calls |-> 1]
  /\ limited = [c \in Calls |-> 0]
  /\ missing = [c \in Calls |-> 0]

Begin(c) ==
  /\ at[c] = "new"
  /\ chain' = Set(chain, c, Reordered(ModelChain[c]))
  /\ at' = Set(at, c, "look")
  /\ UNCHANGED <<shared, round, attempt, limited, missing>>

\* Mutant: the call starts over when it is out of models and providers.
NextRound_StartsOver(c) ==
  /\ at' = Set(at, c, "look")
  /\ round' = Set(round, c, (round[c] % Rounds(c)) + 1)
  /\ attempt' = Set(attempt, c, 1)
  /\ limited' = Set(limited, c, 0)

\* On to the next provider, or the next model, or out of both.
NextRound(c) ==
  IF round[c] = Rounds(c)
  THEN at' = Set(at, c, "failed") /\ UNCHANGED <<round, attempt, limited>>
  ELSE /\ at' = Set(at, c, "look")
       /\ round' = Set(round, c, round[c] + 1)
       /\ attempt' = Set(attempt, c, 1)
       /\ limited' = Set(limited, c, 0)

\* is_provider_circuit_open
Open(p) == Threshold > 0 /\ failures[p] >= Threshold /\ p \in tripped

Skip(c) ==
  /\ at[c] = "look"
  /\ c \in Guarded
  /\ Open(ProviderOf(c))
  /\ NextRound(c)
  /\ UNCHANGED <<shared, chain, missing>>

Try(c) ==
  /\ at[c] = "look"
  /\ c \in Guarded => ~Open(ProviderOf(c))
  /\ at' = Set(at, c, "try")
  /\ UNCHANGED <<shared, chain, round, attempt, limited, missing>>

\* record_provider_success forgets the failures of the provider.
Answer(c) ==
  /\ at[c] = "try"
  /\ at' = Set(at, c, "answered")
  /\ IF c \in Guarded
     THEN /\ failures' = Set(failures, ProviderOf(c), 0)
          /\ tripped' = tripped \ {ProviderOf(c)}
     ELSE UNCHANGED <<failures, tripped>>
  /\ UNCHANGED <<cooled, chain, round, attempt, limited, missing>>

\* The round is over without an answer: note_rate_limit_cooldown and
\* record_provider_failure.
EndRound(c, limits) ==
  LET p == ProviderOf(c) IN
  /\ cooled' = IF limits >= 2 THEN cooled \cup {ModelOf(c)} ELSE cooled
  /\ IF c \in Guarded /\ Threshold > 0
     THEN /\ failures' = Set(failures, p, IF failures[p] < Threshold THEN failures[p] + 1
                                                                     ELSE Threshold)
          /\ tripped' = IF failures'[p] = Threshold THEN tripped \cup {p} ELSE tripped
     ELSE UNCHANGED <<failures, tripped>>
  /\ NextRound(c)

\* Mutant: the last attempt is never made.
Fail_OneLess(c, limits) ==
  /\ at[c] = "try"
  /\ IF attempt[c] >= MaxRetries
     THEN /\ missing' = Set(missing, c, missing[c] + MaxRetries + 1 - attempt[c])
          /\ EndRound(c, limited[c] + limits)
     ELSE /\ attempt' = Set(attempt, c, attempt[c] + 1)
          /\ limited' = Set(limited, c, limited[c] + limits)
          /\ UNCHANGED <<shared, at, round, missing>>
  /\ UNCHANGED chain

\* An error worth a retry; limits is 1 if it says that the rate is limited.
Fail(c, limits) ==
  /\ at[c] = "try"
  /\ IF attempt[c] > MaxRetries
     THEN /\ missing' = Set(missing, c, missing[c] + MaxRetries + 1 - attempt[c])
          /\ EndRound(c, limited[c] + limits)
     ELSE /\ attempt' = Set(attempt, c, attempt[c] + 1)
          /\ limited' = Set(limited, c, limited[c] + limits)
          /\ UNCHANGED <<shared, at, round, missing>>
  /\ UNCHANGED chain

\* An error that no retry can help (is_non_retryable).
Reject(c) ==
  /\ at[c] = "try"
  /\ EndRound(c, limited[c])
  /\ UNCHANGED <<chain, missing>>

\* The context window is exceeded: no other model or provider is tried.
Overflow(c) ==
  /\ at[c] = "try"
  /\ at' = Set(at, c, "overflow")
  /\ UNCHANGED <<shared, chain, round, attempt, limited, missing>>

\* The caller drops the call, in an attempt or in the pause before the next.
Cancel(c) ==
  /\ at[c] = "try"
  /\ at' = Set(at, c, "cancelled")
  /\ UNCHANGED <<shared, chain, round, attempt, limited, missing>>

BreakerExpires(p) ==
  /\ p \in tripped
  /\ tripped' = tripped \ {p}
  /\ UNCHANGED <<failures, cooled, at, chain, round, attempt, limited, missing>>

CooldownExpires(m) ==
  /\ m \in cooled
  /\ cooled' = cooled \ {m}
  /\ UNCHANGED <<failures, tripped, at, chain, round, attempt, limited, missing>>

EndAttempt(c) ==
  \/ Answer(c) \/ Reject(c) \/ Overflow(c)
  \/ \E limits \in 0 .. 1 : Fail(c, limits)

Step(c) == Begin(c) \/ Skip(c) \/ Try(c) \/ EndAttempt(c) \/ Cancel(c)

CallNext ==
  \/ \E c \in Calls : Step(c)
  \/ \E p \in tripped : BreakerExpires(p)
  \/ \E m \in cooled : CooldownExpires(m)

CallSpec == CallInit /\ [][CallNext]_callVars

\* A call waits for an attempt that nothing limits.
Unlimited(c) == at[c] = "try" /\ ProviderOf(c) \notin Timed

(* A call is a task that is polled, and an attempt on a provider whose client has a
   timeout ends. *)
FairSpec ==
  /\ CallSpec
  /\ \A c \in Calls : WF_callVars(Begin(c) \/ Skip(c) \/ Try(c) \/ (~Unlimited(c) /\ EndAttempt(c)))

-----------------------------------------------------------------------------
(* "All providers/models failed" is true: the call went through every model and provider
   and made every attempt it had, but for rounds ended by an error no retry can help and
   rounds whose breaker was open (the three loops and their breaks). *)
FailedMeansExhausted ==
  \A c \in Calls : at[c] = "failed" => round[c] = Rounds(c) /\ missing[c] = 0

(* Every call ends with an answer or an error, however breakers open and close, unless
   an attempt on a provider without a timeout never ends. *)
CallsEnd ==
  \A c \in Calls :
    \/ <>[]Unlimited(c)
    \/ at[c] = "look" ~> at[c] \in {"answered", "failed", "overflow", "cancelled"}
=============================================================================
