---------------------------- MODULE MCProxyParts ----------------------------
(***************************************************************************)
(* Six parts around a request that share no state: the token budget, the   *)
(* rate limit, the tripwire, the usage read from an answer, the channel to *)
(* the sidecar, and the processes of a session.  They are checked side by  *)
(* side: a behaviour is one of part, whose variables alone move, so the    *)
(* state spaces add up.                                                    *)
(***************************************************************************)
EXTENDS TokenBudget, RateLimit, Tripwire, IPCChannel, Session, UsageStream

OpenaiStreams ==
    {[provider |-> "openai", lines |-> a \o b \o <<DoneLine>>] :
        a \in {<<>>, <<DataLine(NoUsage), BlankLine>>, <<BigDataLine, BlankLine, DataLine(NoUsage)>>},
        b \in {<<>>, <<DataLine(5)>>, <<DataLine(2), BlankLine, DataLine(5)>>}}

Start == <<EventLine("message_start"), DataLine(3), BlankLine>>
Delta(n) == <<EventLine("message_delta"), DataLine(n), BlankLine>>
Block(l) == <<EventLine("content_block_delta"), l, BlankLine>>

AnthropicStreams ==
    {[provider |-> "anthropic", lines |-> Start \o a \o b] :
        a \in {<<>>, Block(DataLine(NoUsage)), Block(BigDataLine)},
        b \in {<<>>, Delta(1), Delta(1) \o Delta(4)}}

SomeStreams == OpenaiStreams \cup AnthropicStreams

VARIABLE part

PartNames == {"budget", "rate", "tripwire", "channel", "session", "usage"}

PartsTypeOK ==
    /\ part \in PartNames
    /\ part = "budget" => BudgetTypeOK
    /\ part = "rate" => RateTypeOK
    /\ part = "tripwire" => TripwireTypeOK
    /\ part = "channel" => ChannelTypeOK
    /\ part = "session" => SessionTypeOK
    /\ part = "usage" => UsageTypeOK

partsVars == <<part, budgetVars, rateVars, tripwireVars, channelVars, sessionVars, usageVars>>

PartsInit ==
    /\ part \in PartNames
    /\ BudgetInit /\ (part # "budget" => \A p \in Period : budget[p] = NULL)
    /\ RateInit
    /\ TripwireInit /\ (part # "tripwire" => retired_decoys = {})
    /\ ChannelInit /\ (part # "channel" => uid_allowed)
    /\ SessionInit
    /\ UsageInit /\ (part # "usage" => stream = CHOOSE s \in Streams : TRUE)

PartsNext ==
    /\ part' = part
    /\ \/ /\ part = "budget" /\ BudgetNext
          /\ UNCHANGED <<rateVars, tripwireVars, channelVars, sessionVars, usageVars>>
       \/ /\ part = "rate" /\ RateNext
          /\ UNCHANGED <<budgetVars, tripwireVars, channelVars, sessionVars, usageVars>>
       \/ /\ part = "tripwire" /\ TripwireNext
          /\ UNCHANGED <<budgetVars, rateVars, channelVars, sessionVars, usageVars>>
       \/ /\ part = "channel" /\ ChannelNext
          /\ UNCHANGED <<budgetVars, rateVars, tripwireVars, sessionVars, usageVars>>
       \/ /\ part = "session" /\ SessionNext
          /\ UNCHANGED <<budgetVars, rateVars, tripwireVars, channelVars, usageVars>>
       \/ /\ part = "usage" /\ UsageNext
          /\ UNCHANGED <<budgetVars, rateVars, tripwireVars, channelVars, sessionVars>>

\* Fairness is that of the part that runs.
PartsFairness ==
    /\ WF_tripwireVars(part = "tripwire" /\ FetchDecoys)
    /\ WF_tripwireVars(part = "tripwire" /\ ServeUp)
    /\ SF_tripwireVars(part = "tripwire" /\ StoreDecoys)
    /\ SessionFairness

PartsSpec == PartsInit /\ [][PartsNext]_partsVars /\ PartsFairness
=============================================================================
