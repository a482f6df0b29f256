-------------------------- MODULE MCDeliveryAndVoice --------------------------
(***************************************************************************)
(* The delivery of tickets and the recording of voice input for TLC.  They *)
(* share no state and are explored side by side: one rests in its initial  *)
(* state while the other runs, and fairness is asked of the one that runs. *)
(***************************************************************************)
EXTENDS MCTicketDelivery, MCVoice

VARIABLE part       \* which of the two runs

InDelivery == part = "delivery"

PartsInit ==
    /\ Init /\ VoiceInit
    /\ part \in {"delivery", "voice"}
    /\ InDelivery => Len(speech) = 4 /\ preferred = "server"

PartsNext ==
    /\ \/ InDelivery /\ Next /\ UNCHANGED voiceVars
       \/ ~InDelivery /\ VoiceNext /\ UNCHANGED vars
    /\ UNCHANGED part

\* QueueFairness would keep a worker that rests from resting.
PartsSpec ==
    /\ PartsInit /\ [][PartsNext]_<<part, vars, voiceVars>>
    /\ DispatcherFairness
    /\ \A p \in Processes : WF_<<lists, workerVars>>(InDelivery /\ Work(p))
    /\ InputFairness
=============================================================================
