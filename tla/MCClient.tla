------------------------------ MODULE MCClient ------------------------------
(***************************************************************************)
(* The extension's worker, the parts of its popup, the gateway it goes     *)
(* through, and the bot, one machine at a time.  See Happenings.           *)
(***************************************************************************)
EXTENDS BrowserWorker, PopupPanel, PopupPower, PopupDevices, BrowserGateway, TelegramDesk, TLC

CONSTANTS
    Parts,      \* the machines to run
    a, b, u1, u2, h1, h2

\* Two control planes, each with a device.
TwoPlanes == (a :> "p") @@ (b :> "q")

\* One of two accounts has a device.
OneHolder == <<a>>

partVars == <<workerVars, popupVars, powerVars, statsVars,
              listVars, gatewayVars, deskVars, digestVars>>
clientVars == <<part, events, partVars>>

MCInit ==
    /\ part \in Parts /\ events = 0
    /\ WorkerInit /\ PopupInit /\ PowerInit /\ StatsInit /\ DevicesInit
    /\ GatewayInit /\ DeskInit /\ DigestInit
    \* a machine that does not run is in one of its initial states
    /\ Runs("popup") \/ account = CHOOSE p \in People : TRUE
    /\ Runs("devices") \/ live = CHOOSE L \in SUBSET Handsets : Cardinality(L) = Slots

Only(machine, vars) == Runs(machine) /\ UNCHANGED <<part, vars>>

MCNext ==
    \/ WorkerNext /\ Only("worker", <<popupVars, powerVars, statsVars, listVars, gatewayVars,
            deskVars, digestVars>>)
    \/ PopupNext /\ Only("popup", <<workerVars, powerVars, statsVars, listVars, gatewayVars,
            deskVars, digestVars>>)
    \/ PowerNext /\ Only("power", <<workerVars, popupVars, statsVars, listVars, gatewayVars,
            deskVars, digestVars>>)
    \/ StatsNext /\ Only("stats", <<workerVars, popupVars, powerVars, listVars, gatewayVars,
            deskVars, digestVars>>)
    \/ DevicesNext /\ Only("devices", <<workerVars, popupVars, powerVars, statsVars, gatewayVars,
            deskVars, digestVars>>)
    \/ GatewayNext /\ Only("gateway", <<workerVars, popupVars, powerVars, statsVars, listVars,
            deskVars, digestVars>>)
    \/ DeskNext /\ Only("desk", <<workerVars, popupVars, powerVars, statsVars, listVars,
            gatewayVars, digestVars>>)
    \/ DigestNext /\ Only("digest", <<workerVars, popupVars, powerVars, statsVars, listVars,
            gatewayVars, deskVars>>)

MCSpec == MCInit /\ [][MCNext]_clientVars
MCFairSpec ==
    /\ MCSpec
    /\ WorkerFairness /\ PopupFairness /\ PowerFairness /\ GatewayFairness /\ DeskFairness

\* The popup never shows what is not: a choice set back, another account's map, figures
\* of another period, a dialogue without a way out.
PopupSafe == ChoiceStays /\ MapIsMine /\ FiguresFit /\ ModalLeadsOut

\* What the popup was told to do is done in the end, to what it was told to do it to.
PopupSettles == ChoiceIsStored /\ TokensFitPlane /\ ButtonSettles /\ OffSparesNewer
=============================================================================
