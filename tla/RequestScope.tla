----------------------------- MODULE RequestScope -----------------------------
(***************************************************************************)
(* What one request of MCP Orchestrator may see and do (llm.py, skills.py):*)
(* the sites whose tools it is offered, the broadcasts it may make, and    *)
(* the runtime skills in its prompt, which grow with what its tools return.*)
(* Sites connect and disconnect meanwhile.                                 *)
(*                                                                         *)
(* A message is the outcome of matching its text: the sites it names, by   *)
(* keyword or name, whether it holds a global keyword and whether it reads *)
(* as a follow-up.  Skills are numbered in their order of priority.        *)
(***************************************************************************)
EXTENDS Naturals, Sequences, FiniteSets, SequencesExt

CONSTANTS
    Sites,
    Keyworded,      \* the sites that have keywords configured
    K,              \* skills in the registry, by priority and name
    Triggers,       \* per skill, the events that activate it
    Channels,       \* per skill, the channels it is for
    MaxMessages,    \* bound on the user's messages in a conversation
    MaxIterations,  \* max_tool_iterations
    MaxCalls        \* bound on the calls of one response

Skills == 1..K
Events == {"phrase", "multi_site_request", "entity_unresolved",
           "entity_lookup", "tool_error"}

ASSUME ScopeAssumption ==
    /\ IsFiniteSet(Sites) /\ Keyworded \subseteq Sites
    /\ K \in Nat
    /\ Triggers \in [Skills -> SUBSET Events]
    /\ Channels \in [Skills -> SUBSET {"voice", "telegram"}]
    /\ MaxMessages \in Nat \ {0} /\ MaxIterations \in Nat \ {0} /\ MaxCalls \in Nat \ {0}

VARIABLES
    connected,   \* the sites in _servers
    incoming,    \* the user's messages, the current one last
    system,      \* the sites that the caller's instructions mention ...
    declared,    \* ... and those they declare as the origin
    voice,       \* the channel is voice, not telegram
    master,      \* a system prompt is configured
    pc,          \* "arrived", "asking" the model, or "end"
    offered,     \* the sites of available_tools
    origin,      \* of the broadcast policy: no site or one
    context,     \* the events in SkillContext
    active,      \* the skills of the session's activations
    injected,    \* _injected_count
    input,       \* response_input
    iteration,
    happened,    \* the events of this request so far
    outputs,     \* the items that the model and its tools have added
    dispatched   \* the calls of the last response that reached a site

caller == <<incoming, system, declared, voice, master>>
skills == <<context, active, injected, input, happened, outputs>>
vars == <<connected, caller, pc, offered, origin, skills, iteration, dispatched>>

\* what else a message with a global keyword holds makes no difference
Messages ==
    {m \in [names : SUBSET Sites, global : BOOLEAN, followup : BOOLEAN] :
        m.global => m.names = {} /\ ~m.followup}
Tools == {"SearchEntities", "GetEntityState", "HassBroadcast"}
Calls == [site : Sites, tool : Tools]
Item(kind, n) == [kind |-> kind, n |-> n]
Items == [kind : {"master", "skill", "guidance", "incoming", "output"}, n : Nat]

TypeOK ==
    /\ connected \subseteq Sites
    /\ incoming \in Seq(Messages)
    /\ system \subseteq Sites /\ declared \subseteq Sites
    /\ voice \in BOOLEAN /\ master \in BOOLEAN
    /\ pc \in {"arrived", "asking", "end"}
    /\ offered \subseteq Sites /\ origin \subseteq declared
    /\ context \subseteq Events /\ happened \subseteq Events
    /\ active \subseteq Skills /\ injected \in 0..Cardinality(Skills)
    /\ input \in Seq(Items)
    /\ iteration \in 0..MaxIterations /\ outputs \in Nat
    /\ dispatched \subseteq Calls

Init ==
    /\ connected \in SUBSET Sites
    /\ \E n \in 1..MaxMessages : incoming \in [1..n -> Messages]
    /\ system \in SUBSET Sites /\ declared \in SUBSET system
    /\ voice \in BOOLEAN /\ master \in BOOLEAN
    /\ pc = "arrived"
    /\ offered = {} /\ origin = {}
    /\ context = {} /\ happened = {} /\ active = {} /\ injected = 0
    /\ input = <<>> /\ iteration = 0 /\ outputs = 0 /\ dispatched = {}

-----------------------------------------------------------------------------
(* A route of _select_sites: None by a global keyword, some sites, or None *)
(* because nothing matched, which _start_skills tells from the first.      *)
Route(how, sites) == [how |-> how, sites |-> sites]
AllSites == Route("global", Sites)

(* _match_site_keywords, and whether any site has keywords *)
Matched(m) == m.names \cap connected
HasKeywords == Keyworded \cap connected # {}
Named(m) == IF m.global THEN AllSites ELSE Route("sites", Matched(m))

(* The origin by the instructions, then the fallback *)
ByInstructions ==
    IF HasKeywords /\ system \cap connected # {}
    THEN Route("sites", system \cap connected)
    ELSE Route("fallback", Sites)

(* _followup_sites: where its walk back through the conversation ends *)
Current == Last(incoming)
Earlier == Front(incoming)
SkipsStandalone(m) == m.global \/ Matched(m) # {}
EndsWalk(m) == m.global \/ Matched(m) # {} \/ ~m.followup
WalkEnds == {i \in DOMAIN Earlier : EndsWalk(Earlier[i])}
InheritedFrom == Earlier[CHOOSE i \in WalkEnds : \A j \in WalkEnds : j <= i]
Inherits ==
    /\ WalkEnds # {}
    /\ InheritedFrom.global \/ Matched(InheritedFrom) # {}

SelectSites ==
    IF Current.global \/ (HasKeywords /\ Matched(Current) # {})
    THEN Named(Current)
    ELSE IF Current.followup /\ Inherits
         THEN Named(InheritedFrom)
         ELSE ByInstructions

(* BroadcastPolicy: the declared origin, if it is the only one and known *)
MentionedOrigin ==
    IF voice /\ Cardinality(system) = 1 THEN system \cap connected ELSE {}
PolicyOrigin ==
    IF voice /\ Cardinality(declared) = 1 THEN declared \cap connected ELSE {}

(* allows: no broadcast of a voice request to its origin, and none at all  *)
(* without one                                                             *)
AllowsUnlessOrigin(c, from) == ~voice \/ c.tool # "HassBroadcast" \/ c.site \notin from
Allows(c, from) ==
    \/ ~voice
    \/ c.tool # "HassBroadcast"
    \/ from # {} /\ c.site \notin from

-----------------------------------------------------------------------------
(* Skill.match, for the skills that are not active yet *)
Channel == IF voice THEN "voice" ELSE "telegram"
Matching(events) ==
    {k \in Skills : Channel \in Channels[k] /\ Triggers[k] \cap events # {}}
Activated(events) == active \cup Matching(events)

(* SkillSession.inject: replaces the skills injected before, by priority *)
InOrder ==
    [ks \in SUBSET Skills |->
        CHOOSE f \in [1..Cardinality(ks) -> ks] :
            \A i, j \in 1..Cardinality(ks) : i < j => f[i] < f[j]]
SkillItems(ks) == [i \in 1..Cardinality(ks) |-> Item("skill", InOrder[ks][i])]
InjectedAfter(messages, offset, count, ks) ==
    SubSeq(messages, 1, offset) \o SkillItems(ks)
        \o SubSeq(messages, offset + 1, Len(messages))
Inject(messages, offset, count, ks) ==
    SubSeq(messages, 1, offset) \o SkillItems(ks)
        \o SubSeq(messages, offset + count + 1, Len(messages))

MasterItems == IF master THEN <<Item("master", 1)>> ELSE <<>>
GuidanceItems(sites, from) ==
    IF \E s \in sites : ~Allows([site |-> s, tool |-> "HassBroadcast"], from)
    THEN <<Item("guidance", 1)>> ELSE <<>>

(* The head of chat and chat_stream_ollama, which has no await: the route, *)
(* the tools, the policy, the first skills and the prompt.  The model has  *)
(* no use for the conversation's words after that.                         *)
Arrive ==
    /\ pc = "arrived"
    /\ LET route == SelectSites
           multi == \/ route.how = "global"
                    \/ route.how = "sites" /\ Cardinality(route.sites) > 1
       IN  /\ offered' = route.sites \cap connected
           /\ \E seen \in SUBSET {"phrase", "entity_unresolved"} :
                 /\ "entity_unresolved" \in seen => offered' # {}
                 /\ happened' = seen \cup (IF multi THEN {"multi_site_request"} ELSE {})
    /\ origin' = PolicyOrigin
    /\ context' = happened'
    /\ active' = Activated(context')
    /\ injected' = Cardinality(active')
    /\ input' = Inject(MasterItems, Len(MasterItems), 0, active')
                  \o GuidanceItems(offered', origin') \o <<Item("incoming", 1)>>
    /\ iteration' = 1 /\ pc' = "asking"
    /\ incoming' = <<>> /\ system' = {}
    /\ UNCHANGED <<connected, declared, voice, master, outputs, dispatched>>

(* _prepare_request_tool_arguments, and the connection that call_tool needs *)
Reaches(c) ==
    /\ Allows(c, origin)
    /\ c.site \in offered
    /\ c.site \in connected

(* SkillContext.after_tool *)
Outcomes == {"ok", "failed", "unresolved"}
Happens(c, outcome) ==
    (IF outcome = "failed" THEN {"tool_error"} ELSE {})
    \cup (IF c.tool = "SearchEntities" THEN {"entity_lookup"} ELSE {})
    \cup (IF outcome = "unresolved" THEN {"entity_unresolved"} ELSE {})
AfterLastTool(calls, outcome) == context \cup Happens(Last(calls), Last(outcome))
AfterTools(calls, outcome) ==
    context \cup UNION {Happens(calls[i], outcome[i]) : i \in DOMAIN calls}

(* The model responds with tool calls.  Their results are taken in the     *)
(* order of the calls, then _update_skills completes the prompt unless no  *)
(* iteration is left.                                                      *)
ToolBatch(calls, outcome) ==
    /\ pc = "asking"
    /\ \A i \in DOMAIN calls :
          /\ ~Reaches(calls[i]) => outcome[i] = "failed"
          /\ outcome[i] = "unresolved" => calls[i].tool = "GetEntityState"
    /\ dispatched' = {c \in ToSet(calls) : Reaches(c)}
    /\ context' = AfterTools(calls, outcome)
    /\ happened' = happened \cup UNION {Happens(calls[i], outcome[i]) : i \in DOMAIN calls}
    /\ outputs' = outputs + 2 * Len(calls)
    /\ LET answered == input \o [i \in 1..(2 * Len(calls)) |-> Item("output", outputs + i)]
           all == Activated(context')
       IN  IF iteration < MaxIterations /\ all # active
           THEN /\ active' = all /\ injected' = Cardinality(all)
                /\ input' = Inject(answered, Len(MasterItems), injected, all)
           ELSE input' = answered /\ UNCHANGED <<active, injected>>
    /\ IF iteration < MaxIterations
       THEN iteration' = iteration + 1 /\ UNCHANGED pc
       ELSE pc' = "end" /\ UNCHANGED iteration
    /\ UNCHANGED <<connected, caller, offered, origin>>

(* It answers, or the request ends otherwise. *)
End ==
    /\ pc = "asking"
    /\ pc' = "end"
    /\ UNCHANGED <<connected, caller, offered, origin, skills, iteration, dispatched>>

(* A site's connection is listed or lost at any moment. *)
SiteChanges ==
    /\ pc = "asking"
    /\ \E s \in Sites :
          connected' = IF s \in connected THEN connected \ {s} ELSE connected \cup {s}
    /\ UNCHANGED <<caller, pc, offered, origin, skills, iteration, dispatched>>

Next ==
    \/ Arrive
    \/ \E n \in 1..MaxCalls :
          \E calls \in [1..n -> Calls], outcome \in [1..n -> Outcomes] :
             ToolBatch(calls, outcome)
    \/ End
    \/ SiteChanges

Spec == Init /\ [][Next]_vars

-----------------------------------------------------------------------------
(* The route that the user means: each request's own words, or else the    *)
(* route of the request before it if it is a follow-up, or else the        *)
(* instructions' (README:42-46).                                           *)
MeantRoute[i \in DOMAIN incoming] ==
    IF incoming[i].global \/ incoming[i].names # {}
    THEN Named(incoming[i])
    ELSE IF incoming[i].followup /\ i > 1
         THEN MeantRoute[i - 1]
         ELSE ByInstructions
Meant == MeantRoute[Len(incoming)]

(* "Inheritance continues across a follow-up chain but never skips over a  *)
(* newer standalone request": _select_sites finds the meant route while    *)
(* the sites that the conversation names are connected, one with keywords  *)
(* among them or beside them.                                              *)
ScopeIsMeant ==
    (/\ pc = "arrived" /\ HasKeywords
     /\ \A i \in DOMAIN incoming : incoming[i].names \subseteq connected)
    => SelectSites = Meant

(* No call reaches a site outside the request's scope, and no broadcast of *)
(* a voice request the site it comes from: without one declared origin     *)
(* there is none at all, whatever connects while the request runs          *)
(* (README:48-52).                                                         *)
CallsStayInScope ==
    \A c \in dispatched :
        /\ c.site \in offered
        /\ voice /\ c.tool = "HassBroadcast" =>
              Cardinality(declared) = 1 /\ c.site \notin declared

(* Every model call gets the whole prompt in its order: the master prompt, *)
(* exactly the skills that anything so far has triggered, by priority and  *)
(* once each, the guidance, the conversation, and every output in order,   *)
(* although skills are injected in front of what is already there.         *)
PromptIsComplete ==
    pc = "asking" =>
        input = MasterItems \o SkillItems(Matching(happened))
                  \o GuidanceItems(offered, origin) \o <<Item("incoming", 1)>>
                  \o [i \in 1..outputs |-> Item("output", i)]
=============================================================================
