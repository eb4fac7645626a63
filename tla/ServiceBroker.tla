----------------------------- MODULE ServiceBroker -----------------------------
(***************************************************************************)
(* The Cloud Foundry service broker: each space gets an environment, each  *)
(* service instance a service in it.  The broker keeps its own tables and  *)
(* uses the Murano API as a client; every call of either is a step.        *)
(***************************************************************************)
EXTENDS Naturals, Sequences, FiniteSets

CONSTANTS
    Spaces, ServiceInstances,
    Brokers,         \* requests served at the same time
    MaxEnvironments, \* bound: environments created
    MaxCalls         \* bound: requests

None == 0   \* no environment, no service

VARIABLES
    spaceRows,     \* CFSpace: the environment of each space
    instanceRows,  \* CFServiceInstance: service and environment of each instance
    murano,        \* environments created so far: services, version, status
    broker,        \* the requests being served
    calls,         \* requests so far; the identifier of a new service
    accepted,      \* history: service and environment when a request was accepted
    repeated       \* history: instances provisioned more than once

brokering == <<spaceRows, instanceRows, murano, broker, calls, accepted, repeated>>

NoRow == [service |-> None, env |-> None]
NoCall == [pc |-> "idle", op |-> "none", instance |-> None, space |-> None,
           env |-> None, service |-> None, session |-> [services |-> {}, version |-> 0]]
Env == [there |-> TRUE, services |-> {}, version |-> 0, status |-> "ready"]

BrokerInit ==
    /\ spaceRows = [s \in Spaces |-> None]
    /\ instanceRows = [i \in ServiceInstances |-> NoRow]
    /\ murano = <<>>
    /\ broker = [b \in Brokers |-> NoCall]
    /\ calls = 0
    /\ accepted = [i \in ServiceInstances |-> NoRow]
    /\ repeated = {}

InMurano(e) == e \in DOMAIN murano /\ murano[e].there
Go(b, pc) == broker' = [broker EXCEPT ![b].pc = pc]
\* Any exception ends the request; what was written stays.
GiveUpCall(b) ==
    /\ broker' = [broker EXCEPT ![b] = NoCall]
    /\ UNCHANGED <<murano, accepted>>

Receive(b, request) ==
    /\ broker[b].pc = "idle" /\ calls < MaxCalls
    /\ calls' = calls + 1
    /\ broker' = [broker EXCEPT ![b] = request]
    /\ UNCHANGED <<spaceRows, instanceRows, murano, accepted>>

-----------------------------------------------------------------------------
(* provision *)

BeginProvision(b) ==
    \E i \in ServiceInstances, s \in Spaces :
        /\ Receive(b, [NoCall EXCEPT !.pc = "space", !.op = "provision", !.instance = i,
                                     !.space = s, !.service = calls + 1])
        /\ repeated' = repeated \cup
               IF \/ instanceRows[i] # NoRow
                  \/ \E c \in Brokers : /\ broker[c].op = "provision"
                                        /\ broker[c].instance = i
               THEN {i} ELSE {}

\* get_environment_for_space
LookUpSpace(b) ==
    /\ broker[b].pc = "space"
    /\ broker' = [broker EXCEPT
           ![b].env = spaceRows[broker[b].space],
           ![b].pc = IF spaceRows[broker[b].space] = None THEN "create" ELSE "verify"]
    /\ UNCHANGED <<spaceRows, instanceRows, murano, calls, accepted, repeated>>

\* An environment that is gone is replaced.
VerifyEnvironment(b) ==
    /\ broker[b].pc = "verify"
    /\ Go(b, IF InMurano(broker[b].env) THEN "instance" ELSE "create")
    /\ UNCHANGED <<spaceRows, instanceRows, murano, calls, accepted, repeated>>

CreateForSpace(b) ==
    /\ broker[b].pc = "create" /\ Len(murano) < MaxEnvironments
    /\ murano' = Append(murano, Env)
    /\ broker' = [broker EXCEPT ![b].env = Len(murano) + 1, ![b].pc = "map"]
    /\ UNCHANGED <<spaceRows, instanceRows, calls, accepted, repeated>>

\* set_environment_for_space inserts or overwrites.
MapSpace(b) ==
    /\ broker[b].pc = "map"
    /\ spaceRows' = [spaceRows EXCEPT ![broker[b].space] = broker[b].env]
    /\ Go(b, "instance")
    /\ UNCHANGED <<instanceRows, murano, calls, accepted, repeated>>

\* set_instance_for_service inserts; of a row that exists it changes the
\* environment only.
InstanceRow_mutant(b) == [service |-> broker[b].service, env |-> spaceRows[broker[b].space]]
InstanceRow(b) ==
    LET row == instanceRows[broker[b].instance] IN
    IF row = NoRow THEN [service |-> broker[b].service, env |-> broker[b].env]
    ELSE [row EXCEPT !.env = broker[b].env]
SetInstance(b) ==
    /\ broker[b].pc = "instance"
    /\ instanceRows' = [instanceRows EXCEPT ![broker[b].instance] = InstanceRow(b)]
    /\ Go(b, "configure")
    /\ UNCHANGED <<spaceRows, murano, calls, accepted, repeated>>

-----------------------------------------------------------------------------
(* deprovision, bind *)

\* The row is read; without one there is nothing to do.
BeginOnRow(b, op) ==
    \E i \in ServiceInstances :
        /\ instanceRows[i] # NoRow
        /\ Receive(b, [NoCall EXCEPT !.pc = "configure", !.op = op, !.instance = i,
                                     !.env = instanceRows[i].env,
                                     !.service = instanceRows[i].service])
        /\ UNCHANGED repeated
BeginDeprovision(b) == BeginOnRow(b, "deprovision")
BeginBind(b) == BeginOnRow(b, "bind")

\* create_session
Configure(b) ==
    LET e == broker[b].env IN
    /\ broker[b].pc = "configure"
    /\ IF InMurano(e) /\ murano[e].status = "ready"
       THEN /\ broker' = [broker EXCEPT
                   ![b].pc = IF broker[b].op = "bind" THEN "call" ELSE "deploy",
                   ![b].session = [services |-> murano[e].services,
                                   version |-> murano[e].version]]
            /\ UNCHANGED <<murano, accepted>>
       ELSE GiveUpCall(b)
    /\ UNCHANGED <<spaceRows, instanceRows, calls, repeated>>

\* services.post or services.delete, and sessions.deploy: the API refuses a
\* session that is not of the current version, or a second deployment.
Deploy(b) ==
    LET c == broker[b]
        fits == /\ InMurano(c.env) /\ murano[c.env].version = c.session.version
                /\ murano[c.env].status = "ready"
                /\ c.op = "deprovision" => c.service \in c.session.services
    IN  /\ c.pc = "deploy"
        /\ IF fits
           THEN /\ murano' = [murano EXCEPT
                       ![c.env].status = "deploying",
                       ![c.env].services =
                           IF c.op = "provision" THEN c.session.services \cup {c.service}
                           ELSE c.session.services \ {c.service}]
                /\ accepted' = [accepted EXCEPT ![c.instance] =
                       IF c.op = "provision" THEN [service |-> c.service, env |-> c.env]
                       ELSE NoRow]
                /\ broker' = [broker EXCEPT ![b] = NoCall]
           ELSE GiveUpCall(b)
        /\ UNCHANGED <<spaceRows, instanceRows, calls, repeated>>

\* bind calls getCredentials and asks for its result again and again, for at
\* most thirty seconds; it changes nothing that the broker keeps.
FinishBind(b) ==
    /\ broker[b].pc = "call"
    /\ GiveUpCall(b)
    /\ UNCHANGED <<spaceRows, instanceRows, calls, repeated>>

\* get_last_operation
LastOperation(i) ==
    LET e == instanceRows[i].env IN
    IF instanceRows[i] = NoRow \/ ~InMurano(e) THEN "gone"
    ELSE IF murano[e].status = "ready" THEN "succeeded" ELSE "in progress"

-----------------------------------------------------------------------------
(* What happens in Murano meanwhile *)

Deployed ==
    /\ \E e \in DOMAIN murano :
          /\ murano[e].status = "deploying"
          /\ murano' = [murano EXCEPT ![e].status = "ready", ![e].version = @ + 1]
    /\ UNCHANGED <<spaceRows, instanceRows, broker, calls, accepted, repeated>>

EnvironmentDeleted ==
    /\ \E e \in DOMAIN murano :
          /\ InMurano(e) /\ murano[e].status = "ready"
          /\ murano' = [murano EXCEPT ![e].there = FALSE]
    /\ UNCHANGED <<spaceRows, instanceRows, broker, calls, accepted, repeated>>

BrokerNext ==
    \/ \E b \in Brokers :
          \/ BeginProvision(b) \/ LookUpSpace(b) \/ VerifyEnvironment(b)
          \/ CreateForSpace(b) \/ MapSpace(b) \/ SetInstance(b)
          \/ BeginDeprovision(b) \/ BeginBind(b) \/ Configure(b)
          \/ Deploy(b) \/ FinishBind(b)
    \/ Deployed \/ EnvironmentDeleted

BrokerSpec == BrokerInit /\ [][BrokerNext]_brokering

-----------------------------------------------------------------------------
\* What the broker accepted for an instance it can find again: the row names
\* the service and the environment it is in, although requests for one space
\* may create several environments for it, and the last operation of an
\* instance is not gone while its environment is there.  (An instance that is
\* provisioned again keeps the service of the first time in its row.)
AcceptedIsKnown ==
    \A i \in ServiceInstances \ repeated :
        accepted[i] # NoRow =>
            /\ instanceRows[i] = accepted[i]
            /\ InMurano(accepted[i].env) =>
                  /\ accepted[i].service \in murano[accepted[i].env].services
                  /\ LastOperation(i) # "gone"
=============================================================================
