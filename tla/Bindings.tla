------------------------------- MODULE Bindings -------------------------------
(***************************************************************************)
(* Which model configuration an Actor runs on, composed with Authority:    *)
(* product/provider_configuration.py keeps an immutable history of         *)
(* revisions per provider, kernel/actor_store.py a binding per Actor       *)
(* generation, and product/actor_provider.py puts the one on the other.    *)
(* Callers read, think, and then write naming the revision or generation   *)
(* they read; other callers, and decisions of Authority, come in between.  *)
(*                                                                         *)
(* Each call is one transaction under the writer lock.  The Actor and its  *)
(* generation are those of Authority.                                      *)
(***************************************************************************)
EXTENDS Authority, Sequences

CONSTANTS
    Providers,       \* provider binding identities
    Contents,        \* adapter, model and settings of a configuration
    Callers,         \* those who read, and write some time later
    MaxRevisions     \* bound on the revisions of a provider

ASSUME BindingConstants == MaxRevisions \in Nat \ {0}

VARIABLES
    providers,       \* providers[p]: its configurations by revision, the current one last
    basis,           \* basis[p]: what the author of each later revision had read before it
    bound,           \* bound[n]: the model binding of generation n - 1
    seen,            \* seen[k]: what caller k last read
    decidedFor       \* decidedFor[d]: the configuration in use when d was decided

registry == <<providers, basis>>
bindingVars == <<registry, bound, seen, decidedFor>>
allVars == <<vars, bindingVars>>

Nothing == "none"

(* A binding that was never a configuration, as Actors are registered with. *)
Unconfigured == [provider |-> Nothing, revision |-> 0]

LastOf(s) == s[Len(s)]

(* _runtime_model_binding: a digest of the provider and the revision. *)
ModelBinding(p, revision) == [provider |-> p, revision |-> revision]

(* by_model_binding: any revision of the history, not only the current one. *)
Resolve(binding) ==
    IF binding.provider = Nothing THEN Nothing ELSE providers[binding.provider][binding.revision]

(* Mutant of Resolve: the current configuration of the provider is used. *)
ResolveCurrent(binding) ==
    IF binding.provider = Nothing THEN Nothing ELSE LastOf(providers[binding.provider])

InUse == Resolve(LastOf(bound))

-----------------------------------------------------------------------------

BindingInit ==
    /\ Init
    /\ providers = [p \in Providers |-> <<>>]
    /\ basis = [p \in Providers |-> <<>>]
    /\ bound = <<Unconfigured>>
    /\ seen = [k \in Callers |-> [provider |-> Nothing]]
    /\ decidedFor = [d \in Decisions |-> Nothing]

RegisterProvider(p) ==
    /\ providers[p] = <<>>
    /\ \E content \in Contents : providers' = [providers EXCEPT ![p] = <<content>>]
    /\ UNCHANGED <<vars, basis, bound, seen, decidedFor>>

(* get, and LocalActorProviderOperator.show *)
Read(k, p) ==
    /\ providers[p] # <<>>
    /\ seen' = [seen EXCEPT ![k] =
          [provider |-> p, revision |-> Len(providers[p]),
           content |-> LastOf(providers[p]), generation |-> generation]]
    /\ UNCHANGED <<vars, registry, bound, decidedFor>>

HasRead(k) == seen[k].provider # Nothing

UpToDate(k) == HasRead(k) /\ seen[k].revision = Len(providers[seen[k].provider])

(* A new revision by an author who had read the configuration given. *)
Amend(p, read, content) ==
    /\ Len(providers[p]) < MaxRevisions
    /\ providers' = [providers EXCEPT ![p] = Append(@, content)]
    /\ basis' = [basis EXCEPT ![p] = Append(@, read)]
    /\ UNCHANGED <<vars, bound, seen, decidedFor>>

(* Mutant of UpdateProvider: the expected revision is not compared. *)
UpdateProviderBlindly(k, content) ==
    HasRead(k) /\ Amend(seen[k].provider, seen[k].content, content)

UpdateProvider(k, content) ==
    UpToDate(k) /\ Amend(seen[k].provider, seen[k].content, content)

(* Anyone else, who reads and writes with nothing in between. *)
UpdateAtOnce(p, content) ==
    providers[p] # <<>> /\ Amend(p, LastOf(providers[p]), content)

(* replace_binding, in a new generation and never onto the same binding. *)
BindTo(binding) ==
    /\ binding # LastOf(bound)
    /\ bound' = Append(bound, binding)
    /\ ReplaceBinding
    /\ UNCHANGED <<registry, seen, decidedFor>>

(* Mutant of Rebind: the Actor keeps its generation. *)
RebindInPlace(k) ==
    /\ UpToDate(k) /\ seen[k].generation = generation
    /\ bound' = [bound EXCEPT ![Len(bound)] = ModelBinding(seen[k].provider, seen[k].revision)]
    /\ UNCHANGED <<vars, registry, seen, decidedFor>>

(* LocalActorProviderOperator.rebind *)
Rebind(k) ==
    /\ UpToDate(k) /\ seen[k].generation = generation
    /\ BindTo(ModelBinding(seen[k].provider, seen[k].revision))

(* ActorRepository.replace_binding, with a binding that is no configuration. *)
Unbind == BindTo(Unconfigured)

(* Authority goes on; a decision is taken by the model then in use. *)
DecideOn(d) ==
    /\ \E c \in Capabilities, t \in Targets : Decide(d, c, t)
    /\ decidedFor' = [decidedFor EXCEPT ![d] = InUse]
    /\ UNCHANGED <<registry, bound, seen>>

Authorize ==
    /\ \/ ReviseProgram \/ InstallPolicy
       \/ \E c \in Capabilities : ReplaceHandler(c)
       \/ \E g \in Grants : IssueGrant(g) \/ RevokeGrant(g) \/ ClockTick(g)
       \/ \E d \in Decisions : Approve(d) \/ IssueAuthority(d) \/ ConsumeAuthority(d)
    /\ UNCHANGED bindingVars

BindingNext ==
    \/ \E p \in Providers :
         RegisterProvider(p) \/ \E content \in Contents : UpdateAtOnce(p, content)
    \/ \E k \in Callers :
         \/ \E p \in Providers : Read(k, p)
         \/ \E content \in Contents : UpdateProvider(k, content)
         \/ Rebind(k)
    \/ Unbind
    \/ \E d \in Decisions : DecideOn(d)
    \/ Authorize

BindingSpec == BindingInit /\ [][BindingNext]_allVars

-----------------------------------------------------------------------------
(* Safety *)

(* An effect is only ever authorised for the model configuration that asked *)
(* for it: when a receipt is spent, the Actor resolves to the very          *)
(* configuration it did when the decision was taken, although providers     *)
(* were updated and the Actor bound elsewhere and back in between.          *)
SpentOnDecidedConfiguration ==
    [][\A d \in Decisions :
          receipt[d] = "issued" /\ receipt'[d] = "consumed" => InUse = decidedFor[d]]_allVars

(* No update is lost: every revision of a provider was written by a caller  *)
(* who had read the revision before it, however callers interleave.         *)
RevisionsBuildOnEachOther ==
    \A p \in Providers :
        basis[p] = SubSeq(providers[p], 1, Len(providers[p]) - 1)

=============================================================================
