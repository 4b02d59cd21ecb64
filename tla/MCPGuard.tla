------------------------------ MODULE MCPGuard ------------------------------
(***************************************************************************)
(* adapters/mcp.py: tasks of one event loop calling tools through one      *)
(* GuardedMCPSession.  The adapter judges a call by its copy of the        *)
(* server's listing; the server changes its tools and announces changes    *)
(* while listings, read page by page, are on their way.  A task gives way  *)
(* only where it awaits the server, so judging a call, and replacing the   *)
(* copy and judging by it, are single steps.                               *)
(***************************************************************************)
EXTENDS Naturals, FiniteSets

CONSTANTS
  Tools,            \* tool names
  Calls,            \* tasks, each making one call_tool, or initialize()
  BlockDestructive, \* block_destructive
  Policies,         \* the values of destructive_policy considered
  Expires,          \* a ttlMs or tool_cache_max_age bounds the copy's age
  MaxPages,         \* max_tool_pages
  Endless,          \* the server may send a cursor after its last entry
  MaxChanges        \* bound: changes of the server's tools

NoTool == "noTool"   \* the task runs initialize()

ASSUME McpAssumption ==
  /\ NoTool \notin Tools
  /\ BlockDestructive \in BOOLEAN
  /\ Policies \subseteq {"hint", "strict"}
  /\ Expires \in BOOLEAN
  /\ MaxPages \in Nat \ {0}
  /\ Endless \in BOOLEAN
  /\ MaxChanges \in Nat

VARIABLES
  policy,     \* destructive_policy, fixed when the session is wrapped
  offered,    \* the server: the annotations of each tool, or Absent
  changes,    \* how often the server's tools have changed
  announced,  \* a notifications/tools/list_changed is on its way
  copy,       \* _definitions, _destructive, _readonly: annotations per tool
  listed,     \* _listed
  listError,  \* _list_error is set
  expired,    \* _expires_at has passed
  pc,         \* where each call is
  tool,       \* the tool of the call
  got,        \* entries of the listing a call is reading
  page,       \* the page it asks for
  more,       \* nextCursor of the page on its way to it
  due,        \* history: no list request since the last invalidate_tools that met no listing
  safe        \* history: tools the server has offered as permitted

server  == <<offered, changes, announced, safe>>
adapter == <<policy, copy, listed, listError, expired>>
reading == <<got, page, more>>
mcpVars == <<server, adapter, reading, pc, tool, due>>

Hints == SUBSET {"destructive", "readonly"}
Absent == {"absent"}
Nothing == [t \in Tools |-> {}]

Stages == {"idle", "asking", "answered", "blocked", "sent", "cancelled", "done"}

McpTypeOK ==
  /\ policy \in Policies
  /\ offered \in [Tools -> Hints \cup {Absent}]
  /\ changes \in 0 .. MaxChanges
  /\ announced \in BOOLEAN
  /\ copy \in [Tools -> SUBSET Hints]
  /\ listed \in BOOLEAN
  /\ listError \in BOOLEAN
  /\ expired \in BOOLEAN
  /\ pc \in [Calls -> Stages]
  /\ tool \in [Calls -> Tools \cup {NoTool}]
  /\ got \in [Calls -> [Tools -> SUBSET Hints]]
  /\ page \in [Calls -> 1 .. MaxPages]
  /\ more \in [Calls -> BOOLEAN]
  /\ due \in BOOLEAN
  /\ safe \subseteq Tools

-----------------------------------------------------------------------------
(* The policy.                                                              *)

BlockedKnownOnly(t, listing) ==            \* mutant: unlisted tools pass
  BlockDestructive /\ IF policy = "strict"
                        THEN \E hints \in listing[t] : "readonly" \notin hints
                        ELSE \E hints \in listing[t] : "destructive" \in hints
\* _blocked_reason.  A name listed twice is destructive if any entry says so,
\* read-only only if all do.
Blocked(t, listing) ==
  BlockDestructive /\ \/ listing[t] = {}
                      \/ IF policy = "strict"
                           THEN \E hints \in listing[t] : "readonly" \notin hints
                           ELSE \E hints \in listing[t] : "destructive" \in hints

Permitted(t) == offered[t] # Absent /\ ~Blocked(t, [s \in Tools |-> {offered[s]}])

-----------------------------------------------------------------------------
McpInit ==
  /\ policy \in Policies
  /\ offered \in [Tools -> Hints \cup {Absent}]
  /\ changes = 0
  /\ announced = FALSE
  /\ copy = Nothing
  /\ listed = FALSE
  /\ listError = FALSE
  /\ expired = FALSE
  /\ pc = [c \in Calls |-> "idle"]
  /\ tool \in [Calls -> Tools \cup {NoTool}]
  /\ got = [c \in Calls |-> Nothing]
  /\ page = [c \in Calls |-> 1]
  /\ more = [c \in Calls |-> FALSE]
  /\ due = FALSE
  /\ safe = {t \in Tools : Permitted(t)}

Goto(c, stage) == pc' = [pc EXCEPT ![c] = stage]

\* The locals of _list_all_tools are gone once it returns or raises.
EndListing(c) ==
  /\ got' = [got EXCEPT ![c] = Nothing]
  /\ page' = [page EXCEPT ![c] = 1]
  /\ more' = [more EXCEPT ![c] = FALSE]

\* _blocked_reason, then emit_tool_call, whose clauses may also stop the call;
\* initialize() only wanted the listing.
Judge(c, listing) ==
  IF tool[c] = NoTool THEN Goto(c, "done")
  ELSE \/ Goto(c, "blocked")
       \/ ~Blocked(tool[c], listing) /\ Goto(c, "sent")

Knows(c) == tool[c] # NoTool /\ copy[tool[c]] # {}

\* _is_stale
IsStale == ~listed \/ listError \/ expired

\* call_tool judges by the copy when it is fresh and knows the tool.
CallDirectly(c) ==
  /\ pc[c] = "idle"
  /\ ~IsStale
  /\ Knows(c)
  /\ Judge(c, copy)
  /\ UNCHANGED <<server, adapter, reading, tool, due>>

\* Otherwise it lists first, once: a stale copy, or a name the copy lacks.
CallListing(c) ==
  /\ pc[c] = "idle"
  /\ IsStale \/ ~Knows(c)
  /\ Goto(c, "asking")
  /\ due' = FALSE
  /\ UNCHANGED <<server, adapter, reading, tool>>

\* The server sends some of the entries it has not sent, and a cursor when it
\* keeps some back, or for no reason when it is Endless.
AnswerListing(c) ==
  /\ pc[c] = "asking"
  /\ \E ts \in SUBSET {t \in Tools : offered[t] # Absent /\ offered[t] \notin got[c][t]} :
       /\ got' = [got EXCEPT ![c] =
                    [t \in Tools |-> IF t \in ts THEN @[t] \cup {offered[t]} ELSE @[t]]]
       /\ more' \in {[more EXCEPT ![c] = m] : m \in
            {m \in BOOLEAN :
               \/ m /\ Endless
               \/ m <=> \E t \in Tools \ ts : offered[t] # Absent /\ offered[t] \notin got[c][t]}}
  /\ Goto(c, "answered")
  /\ UNCHANGED <<server, adapter, page, tool, due>>

LastPage(c) == page[c] = MaxPages

SameCursor(c) == page[c]                   \* mutant: asks for the same page again
NextCursor(c) == page[c] + 1

\* _list_all_tools asks for the next page.
NextPage(c) ==
  /\ pc[c] = "answered"
  /\ more[c]
  /\ ~LastPage(c)
  /\ page' = [page EXCEPT ![c] = NextCursor(c)]
  /\ Goto(c, "asking")
  /\ UNCHANGED <<server, adapter, got, more, tool, due>>

\* _refresh_tools replaces the copy and the call is judged by it.  A ttlMs of
\* 0 has expired by the next call.
Install(c) ==
  /\ pc[c] = "answered"
  /\ ~more[c]
  /\ copy' = got[c]
  /\ listed' = TRUE
  /\ listError' = FALSE
  /\ expired' \in {FALSE, Expires}
  /\ Judge(c, got[c])
  /\ EndListing(c)
  /\ UNCHANGED <<server, policy, tool, due>>

FailKeepingCopy(c) ==                      \* mutant: goes on with the old listing
  /\ \/ pc[c] = "asking"
     \/ pc[c] = "answered" /\ more[c] /\ LastPage(c)
  /\ listed' = TRUE
  /\ listError' = TRUE
  /\ expired' = FALSE
  /\ Judge(c, copy)
  /\ EndListing(c)
  /\ UNCHANGED <<server, policy, copy, tool, due>>

\* The listing fails, or does not end within MaxPages: the old copy is
\* forgotten and the call is judged knowing nothing.
Fail(c) ==
  /\ \/ pc[c] = "asking"
     \/ pc[c] = "answered" /\ more[c] /\ LastPage(c)
  /\ copy' = Nothing
  /\ listed' = TRUE
  /\ listError' = TRUE
  /\ expired' = FALSE
  /\ Judge(c, Nothing)
  /\ EndListing(c)
  /\ UNCHANGED <<server, policy, tool, due>>

\* The task is cancelled while it waits for the server: CancelledError is no
\* Exception, so a listing leaves the adapter as it was.
Cancel(c) ==
  /\ pc[c] \in {"asking", "answered", "sent"}
  /\ Goto(c, "cancelled")
  /\ EndListing(c)
  /\ UNCHANGED <<server, adapter, tool, due>>

\* The tool's own answer reaches the caller.
ReturnResult(c) ==
  /\ pc[c] = "sent"
  /\ Goto(c, "done")
  /\ UNCHANGED <<server, adapter, reading, tool, due>>

Expire ==
  /\ Expires /\ listed /\ ~listError /\ ~expired
  /\ expired' = TRUE
  /\ UNCHANGED <<server, policy, copy, listed, listError, reading, pc, tool, due>>

\* The server adds, removes or re-annotates a tool, and says so.
Change(t, hints) ==
  /\ changes < MaxChanges
  /\ offered' = [offered EXCEPT ![t] = hints]
  /\ changes' = changes + 1
  /\ announced' = TRUE
  /\ UNCHANGED <<adapter, reading, pc, tool, due>>
  /\ safe' = safe \cup {s \in Tools : Permitted(s)'}

\* The notification arrives and the application calls invalidate_tools.  A listing
\* under way sets _listed again when it ends, and so undoes it.
Invalidate ==
  /\ announced
  /\ announced' = FALSE
  /\ listed' = FALSE
  /\ due' = \A c \in Calls : pc[c] \notin {"asking", "answered"}
  /\ UNCHANGED <<offered, changes, safe, policy, copy, listError, expired, reading, pc, tool>>

McpNext ==
  \/ \E c \in Calls :
       \/ CallDirectly(c)
       \/ CallListing(c)
       \/ AnswerListing(c)
       \/ NextPage(c)
       \/ Install(c)
       \/ Fail(c)
       \/ ReturnResult(c)
       \/ Cancel(c)
  \/ \E t \in Tools, hints \in Hints \cup {Absent} : Change(t, hints)
  \/ Expire
  \/ Invalidate

McpSpec == McpInit /\ [][McpNext]_mcpVars

\* The event loop runs what is ready, and a request is answered or fails.
FairSpec ==
  McpSpec /\ \A c \in Calls :
    WF_mcpVars(CallDirectly(c) \/ CallListing(c) \/ AnswerListing(c) \/ NextPage(c)
              \/ Install(c) \/ Fail(c))

-----------------------------------------------------------------------------
(* Properties.                                                              *)

\* Under block_destructive a tool is only ever sent to the server if at some
\* time the server offered it as permitted: neither an unlisted tool, nor one
\* that every listing marks, gets through whatever listings cross each other
\* (mcp.py:219-240, 275-293).
OnlySafeSent ==
  BlockDestructive =>
    \A c \in Calls : pc[c] \in {"sent", "done"} => tool[c] \in safe \cup {NoTool}

\* Once a listing has failed, no call goes out before a listing succeeds, also when
\* other tasks are in the middle of theirs (mcp.py:199-217).  And a tool whose listing
\* was marked stale while none was under way is not judged before the server is asked
\* again, whatever listings fail or are cancelled in between (mcp.py:162-164, 182-197).
FailureBlocks ==
  [][/\ BlockDestructive =>
          \A c \in Calls : pc[c] # "sent" /\ pc'[c] = "sent" => ~listError'
     /\ \A c \in Calls : pc[c] = "idle" /\ pc'[c] \in {"sent", "blocked"} => ~due]_mcpVars

\* No call waits for ever on a listing, also when the server never stops
\* sending cursors (mcp.py:242-255).
CallSettles ==
  \A c \in Calls : pc[c] = "asking" ~> pc[c] \in {"sent", "blocked", "cancelled", "done"}
=============================================================================
