------------------------- MODULE MCIntegrationSync -------------------------
(* Instances of IntegrationSync for TLC. *)
EXTENDS IntegrationSync, SequencesExt

(* Every integration has a provider of its own. *)
MCOwnProvider == [i \in Integrations |-> i]

(* All integrations have the same provider, as those of two organizations *)
(* that both connect it.                                                  *)
MCSameProvider == [i \in Integrations |-> CHOOSE j \in Integrations : TRUE]

(* A state without what no step reads again: credentials before the newest *)
(* one, logs that tell of no failure, the tokens of a connector whose      *)
(* worker does not wait for the provider, which the next setCredentials    *)
(* replaces, and what a worker or a connect carried to a call it has made. *)
MCAwaits(p) == work[p].pc \in {"hydrate", "fetch", "refresh", "refetch"}
MCView ==
    <<status, grants, job, asked, batches, reopened, failures, crashes,
      [i \in Integrations |-> <<Len(creds[i]), IF creds[i] = <<>> THEN NoToken ELSE Last(creds[i])>>],
      [i \in Integrations |-> "FAILED" \in logs[i]],
      [p \in Processes |-> IF MCAwaits(p) THEN held[p] ELSE <<>>],
      [p \in Processes |-> IF MCAwaits(p) \/ work[p].pc = "save" THEN work[p]
                           ELSE [work[p] EXCEPT !.token = NoToken, !.row = 0]],
      [p \in Processes |-> IF connecting[p].pc = "milestone"
                           THEN [connecting[p] EXCEPT !.token = NoToken] ELSE connecting[p]]>>
=============================================================================
