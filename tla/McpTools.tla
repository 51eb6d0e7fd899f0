------------------------------ MODULE McpTools ------------------------------
(***************************************************************************)
(* The MCP server (smartfs-mcp) on a tree that the mount changes: the two  *)
(* destructive tools and their confirmation tokens (tokens.rs, handler.rs),*)
(* and the walk over all files that the metadata tools make.               *)
(*                                                                         *)
(* The server reads one line at a time (server.rs), so one call runs at a  *)
(* time; each query of the call is a step, with requests of the mount in   *)
(* between.  The mount is Namespace without its listings and without       *)
(* import.  Nobody asks the server for the root itself.                    *)
(***************************************************************************)
EXTENDS Namespace

CONSTANTS
    Paths,       \* paths the client uses, as sequences of names
    Contents,    \* contents the client writes
    MaxTokens    \* bound: tokens created

ASSUME McpAssumption ==
    /\ Paths \subseteq Seq(Names) \ {<<>>}
    /\ MaxTokens \in Nat
    /\ None \notin Contents \union {"delete", "overwrite"}

Actions == {"delete", "overwrite"}

VARIABLES
    tokens,   \* TokenManager.tokens: id, action, path and content of each
    expired,  \* the ids whose expires_at has passed
    named,    \* history: of each id, its path and what that named then
    rebound,  \* history: ids whose path, or one above it, was rebound since
    call,     \* the confirmed call under way, None without one
    effects,  \* history: what confirmed calls did
    walk      \* collect_all_file_inodes under way, None without one

tools   == <<tokens, expired, named, rebound, call, effects, walk>>
mcpVars == <<vars, tools>>

McpInit ==
    /\ Init
    /\ tokens = {} /\ expired = {} /\ named = <<>> /\ rebound = {}
    /\ call = None /\ effects = {} /\ walk = None

----------------------------------------------------------------------------
(* What a path and the paths above it name, looked up in one go: hidden    *)
(* entries count, and a file has no entries.                               *)
Trail(path) ==
    LET at[n \in 0 .. Len(path)] ==
            IF n = 0 THEN Root
            ELSE LET e == IF at[n - 1] = None THEN {} ELSE Entry(at[n - 1], path[n])
                 IN  IF e = {} THEN None ELSE CHOOSE i \in e : TRUE
    IN  [n \in 1 .. Len(path) |-> at[n]]

Strayed == {k \in DOMAIN named : Trail(named[k].path) # named[k].trail}

Track == rebound' = rebound \union Strayed'

Ready == call = None /\ walk = None

----------------------------------------------------------------------------
(* TokenManager.                                                           *)

Cleaned == {t \in tokens : t.id \notin expired}

(* The time to live of a token passes.                                     *)
Expire(k) ==
    /\ k \in {t.id : t \in tokens} \ expired
    /\ expired' = expired \union {k}
    /\ UNCHANGED <<vars, tokens, named, rebound, call, effects, walk>>

(* delete_file or overwrite_file without a token: the answer is a token.   *)
Announce(action, path, content) ==
    /\ Ready /\ Len(named) < MaxTokens
    /\ named' = Append(named, [path |-> path, trail |-> Trail(path)])
    /\ tokens' = Cleaned \union {[id |-> Len(named'), action |-> action,
                                  path |-> path, content |-> content]}
    /\ UNCHANGED <<vars, expired, call, effects, walk>>
    /\ Track

(* Mutant of Matching: the path of the token is not compared.              *)
MatchingAnyPath(k, action, path) ==
    {t \in Cleaned : t.id = k /\ t.action = action}

Matching(k, action, path) ==
    {t \in Cleaned : t.id = k /\ t.action = action /\ t.path = path}

(* Mutant of Consumed: the token is looked up and stays.                   *)
ConsumedNever(t) == Cleaned

Consumed(t) == Cleaned \ {t}

(* The call with a token; the content it carries is not looked at.  A token*)
(* that does not match stays, and the call is refused.                     *)
Confirm(k, action, path) ==
    /\ Ready
    /\ \/ \E t \in Matching(k, action, path) :
            /\ tokens' = Consumed(t)
            /\ call' = [id |-> k, action |-> action, at |-> Root, todo |-> path,
                        content |-> t.content, put |-> FALSE, late |-> k \in expired]
       \/ /\ Matching(k, action, path) = {}
          /\ tokens' = Cleaned
          /\ UNCHANGED call
    /\ UNCHANGED <<vars, expired, named, rebound, effects, walk>>

----------------------------------------------------------------------------
(* The confirmed call.                                                     *)

(* resolve_path, one query per segment; a missing one ends the call.       *)
Resolve ==
    /\ call # None /\ call.todo # <<>>
    /\ \/ \E i \in Entry(call.at, Head(call.todo)) :
            call' = [call EXCEPT !.at = i, !.todo = Tail(@)]
       \/ Entry(call.at, Head(call.todo)) = {} /\ call' = None
    /\ UNCHANGED <<vars, tokens, expired, named, rebound, effects, walk>>

Effect == [id |-> call.id, action |-> call.action, ino |-> call.at, content |-> call.content,
           late |-> call.late, rebound |-> call.id \in rebound]

Resolved(action) == call # None /\ call.todo = <<>> /\ call.action = action

(* inode_delete, whatever the row is and whoever has it open.              *)
DeleteFile ==
    /\ Resolved("delete")
    /\ tab' = Without(Below(call.at))
    /\ effects' = IF call.at \in Rows THEN effects \union {Effect} ELSE effects
    /\ call' = None
    /\ UNCHANGED <<nextIno, memory, req, cli, raced>>
    /\ UNCHANGED <<tokens, expired, named, walk>>
    /\ Watched
    /\ Track

(* overwrite_file puts the bytes under a fresh blob id; a failing put ends *)
(* the call ...                                                            *)
PutBytes ==
    /\ Resolved("overwrite") /\ ~call.put
    /\ \/ call' = [call EXCEPT !.put = TRUE]
       \/ call' = None
    /\ UNCHANGED <<vars, tokens, expired, named, rebound, effects, walk>>

(* ... and commits a version of it, also of a directory.  Of an inode that *)
(* is gone by then there is nothing to commit, and the call succeeds.      *)
CommitOverwrite ==
    /\ Resolved("overwrite") /\ call.put
    /\ effects' = IF call.at \in Rows THEN effects \union {Effect} ELSE effects
    /\ call' = None
    /\ UNCHANGED <<vars, tokens, expired, named, rebound, walk>>

----------------------------------------------------------------------------
(* collect_all_file_inodes: a stack of directories, each listed when it is *)
(* popped.  "twice" are files found more than once, "stay" those that were *)
(* there when the walk began and have stayed where they were since.  A walk*)
(* without any is not followed further: renames could prolong it forever.  *)
(* Walks and tokens share nothing; walks come first, to bound the states.  *)

Files == {i \in Rows : ~IsDir(i)}

WalkBegin ==
    /\ Ready /\ named = <<>> /\ Files # {}
    /\ walk' = [todo |-> <<Root>>, files |-> {}, twice |-> {}, stay |-> Files]
    /\ UNCHANGED <<vars, tokens, expired, named, rebound, call, effects>>

Listed(d) == {i \in Kids(d) : IsDir(i)}

(* Mutant of Pushed: the children replace the rest of the stack.           *)
PushedOnly(todo, ds) == InOrder(ds)

Pushed(todo, ds) == SubSeq(todo, 1, Len(todo) - 1) \o InOrder(ds)

(* A directory that is gone, or was never one, has no children.            *)
WalkStep ==
    /\ walk # None /\ walk.todo # <<>>
    /\ LET d     == walk.todo[Len(walk.todo)]
           found == Kids(d) \ Listed(d)
       IN  walk' = [walk EXCEPT !.todo = Pushed(@, Listed(d)),
                                !.files = @ \union found,
                                !.twice = @ \union (found \intersect walk.files)]
    /\ UNCHANGED <<vars, tokens, expired, named, rebound, call, effects>>

WalkEnd ==
    /\ walk # None /\ walk.todo = <<>>
    /\ walk' = None
    /\ UNCHANGED <<vars, tokens, expired, named, rebound, call, effects>>

(* The mount changes the tree: the row of a file, or of a directory above  *)
(* it, is no longer what it was.                                           *)
Above(i) == {j \in Rows : i \in Below(j)}

Stays(i) == \A j \in Above(i) : tab'[j] = tab[j]

Followed == LET stay == {i \in walk.stay : Stays(i)}
            IN  IF stay = {} THEN None ELSE [walk EXCEPT !.stay = stay]

MountStep ==
    /\ Changes
    /\ walk' = IF walk = None THEN None ELSE Followed
    /\ UNCHANGED <<tokens, expired, named, call, effects>>
    /\ Track

(* The server is started again: its tokens are gone.                       *)
Restart ==
    /\ tokens # {} \/ call # None \/ walk # None
    /\ tokens' = {} /\ call' = None /\ walk' = None
    /\ UNCHANGED <<vars, expired, named, rebound, effects>>

ToolStep ==
    \/ \E path \in Paths :
        \/ Announce("delete", path, None)
        \/ \E content \in Contents : Announce("overwrite", path, content)
        \/ \E k \in DOMAIN named, action \in Actions : Confirm(k, action, path)
    \/ Resolve \/ DeleteFile \/ PutBytes \/ CommitOverwrite
    \/ WalkBegin \/ WalkStep \/ WalkEnd
    \/ \E k \in DOMAIN named : Expire(k)
    \/ Restart

McpNext == MountStep \/ ToolStep

McpSpec == McpInit /\ [][McpNext]_mcpVars

----------------------------------------------------------------------------
(* Types of the state.                                                     *)
McpTypeOK ==
    /\ \A t \in tokens : /\ t.id \in DOMAIN named /\ t.action \in Actions
                         /\ t.path \in Paths /\ t.content \in Contents \union {None}
    /\ \A k \in DOMAIN named : /\ named[k].path \in Paths
                               /\ named[k].trail \in Seq(Inos \union {None})
    /\ Len(named) <= MaxTokens
    /\ expired \union rebound \subseteq DOMAIN named
    /\ call # None => /\ call.at \in 1 .. MaxIno
                      /\ call.todo = <<>> => call.at \in Inos
    /\ walk # None => walk.files \union walk.twice \union walk.stay \subseteq Inos

(* A token confirms one effect, while it is valid, and the effect is the   *)
(* one announced: whatever content the confirming call carries, and        *)
(* however often the client repeats it (consume_token, overwrite_file).    *)
OneEffectEach ==
    /\ \A e, f \in effects : e.id = f.id => e = f
    /\ \A e \in effects : /\ ~e.late
                          /\ call # None => call.id # e.id
                          /\ e.content = None <=> e.action = "delete"

(* What is deleted or overwritten is what the path named when the token    *)
(* was handed out, unless the mount has since rebound the path or one      *)
(* above it, be it between two queries of resolve_path.                    *)
HitsAnnounced ==
    /\ McpTypeOK
    /\ \A e \in effects :
          e.rebound \/ e.ino = named[e.id].trail[Len(named[e.id].trail)]

(* A walk finds every file that stays where it is, and finds it once,      *)
(* although other entries move, come and go between its queries            *)
(* (collect_all_file_inodes).                                              *)
WalkComplete ==
    walk # None /\ walk.todo = <<>> =>
        walk.stay \subseteq walk.files \ walk.twice
=============================================================================
