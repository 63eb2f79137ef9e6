------------------------------ MODULE AgentHost ------------------------------
(***************************************************************************)
(* The Agent on its host (agent/src/main.rs, agent/src/executor/files.rs): *)
(* the tasks it runs, the files it lists, reads, writes and deletes below  *)
(* its allowed roots, and the local policy that remote configuration may   *)
(* tighten but not loosen.                                                 *)
(*                                                                         *)
(* A file operation resolves a path, compares it with the roots and then   *)
(* walks from the top of the file system one directory at a time without   *)
(* following links; meanwhile others rearrange what is below the roots.    *)
(* An administrator edits the configuration on disk, and the process may   *)
(* end at any step.  The roots themselves stay directories.                *)
(***************************************************************************)
EXTENDS Integers, FiniteSets, Sequences

CONSTANTS
    Nodes,      \* files, directories and symbolic links
    Kind,       \* "dir", "file" or "link", for each
    Top,        \* the root directory
    Paths,      \* absolute paths that are named or resolved to
    Flags,      \* disable_command_execute, disable_nat, disable_send_query, disable_force_update
    Homes,      \* where the nodes may be at the start
    Policies,   \* configurations the Agent may start with
    Nowhere     \* no node, no place

ASSUME HostAssumption == Kind \in [Nodes -> {"dir", "file", "link"}] /\ Top \in Nodes /\ Kind[Top] = "dir"

VARIABLES
    at,       \* directory and name of each node
    mem,      \* RuntimeContext.config: what is disabled, and the allowed roots
    disk,     \* the configuration file
    holder,   \* the job that holds the configuration's lock
    jobs,     \* jobs under way or still to come
    firm,     \* history: what has been disabled in this process
    local,    \* history: what the file's last writer left disabled
    touched,  \* history: the node used last, and those that have been below the roots
    started   \* history: the task started last, and what was disabled all the while

hostVars == <<at, mem, disk, holder, jobs, firm, local, touched, started>>
files == <<at, touched>>
policy == <<mem, disk, holder, firm, local>>

Child(d, name) == IF \E n \in Nodes : at[n] = <<d, name>> THEN CHOOSE n \in Nodes : at[n] = <<d, name>> ELSE Nowhere
NodeAt(p) == LET W[k \in 0..Len(p)] == IF k = 0 THEN Top ELSE Child(W[k-1], p[k]) IN W[Len(p)]
\* The nodes that are in ever or at roots, and all that is in them.
Reached(ever, roots) ==
    LET In[n \in Nodes] == n \in ever \/ (\E r \in roots : NodeAt(r) = n) \/ (at[n] # Nowhere /\ In[at[n][1]])
    IN {n \in Nodes : In[n]}
starts_with(p, r) == Len(r) <= Len(p) /\ SubSeq(p, 1, Len(r)) = r
InPlace(d) == d = Top \/ at[d] # Nowhere
Front(p) == SubSeq(p, 1, Len(p) - 1)

\* Every job remembers which nodes have been below its roots and what stayed disabled.
Sees(js) == {IF ~j.begun THEN j
             ELSE [j EXCEPT !.ever = IF at' = at /\ @ # {} THEN @ ELSE Reached(j.ever, j.roots)', !.off = @ \cap mem'.off] : j \in js}
Works(j, x) == jobs' = Sees((jobs \ {j}) \cup {x})
Done(j) == jobs' = Sees(jobs \ {j})
To(j, pc) == [j EXCEPT !.pc = pc]

HostInit(w) ==
    /\ at \in Homes /\ \E p \in Policies : mem = p /\ disk = p /\ firm = p.off /\ local = p.off
    /\ holder = Nowhere
    /\ touched = [node |-> Nowhere, ever |-> {}] /\ started = [flag |-> Nowhere, off |-> {}]
    /\ jobs = {[q |-> q, pc |-> "start", begun |-> FALSE, fd |-> Top, rest |-> <<>>, stack |-> <<>>, roots |-> {},
                   ever |-> {}, off |-> {}, got |-> Nowhere] : q \in w}

-----------------------------------------------------------------------------
(* run_server_task: the policy is read once, when the task starts. *)

Flag(op) == CASE op \in {"shell", "list", "read", "write", "delete"} -> "exec" [] op = "probe" -> "query"
FileOps == {"list", "read", "write", "delete"}

reject_task_when_disabled(j) == Flag(j.q.op) \in mem.off

run_server_task(j) ==
    /\ j.pc = "start" /\ j.q.op \in FileOps \cup {"shell", "probe"}
    /\ UNCHANGED <<files, policy>>
    /\ IF reject_task_when_disabled(j) THEN UNCHANGED started /\ Done(j)
       ELSE /\ started' = [flag |-> Flag(j.q.op), off |-> mem.off]
            /\ IF j.q.op \in FileOps
               THEN Works(j, [To(j, "resolve") EXCEPT !.begun = TRUE, !.roots = mem.roots, !.off = mem.off])
               ELSE Done(j)

-----------------------------------------------------------------------------
(* executor/files.rs *)

ensure_under_allowed_roots(p, j) == \E r \in j.roots : starts_with(p, r)

\* canonicalize, while links are being rearranged: whatever path it finds, or none.
resolve_existing_path(j) ==
    /\ j.pc = "resolve" /\ j.q.op \in {"list", "read"}
    /\ UNCHANGED <<files, policy, started>>
    /\ \/ \E p \in Paths :
             IF ensure_under_allowed_roots(p, j)
             THEN Works(j, [To(j, "walk") EXCEPT !.fd = Top, !.rest = p]) ELSE Done(j)
       \/ Done(j)

\* The path, or its nearest existing ancestor with the rest joined; again after directories were made.
resolve_write_target(j) ==
    /\ j.pc \in {"resolve", "again"} /\ j.q.op = "write"
    /\ UNCHANGED <<files, policy, started>>
    /\ \/ \E p \in Paths :
             IF ensure_under_allowed_roots(p, j)
             THEN Works(j, [To(j, IF j.pc = "resolve" /\ j.q.dirs THEN "mkdirs" ELSE "walk") EXCEPT !.fd = Top, !.rest = p])
             ELSE Done(j)
       \/ Done(j)

\* The parent is resolved; the name itself is not followed.
ResolveParent(j) ==
    /\ j.pc = "resolve" /\ j.q.op = "delete"
    /\ UNCHANGED <<files, policy, started>>
    /\ \/ \E p \in Paths :
             IF ensure_under_allowed_roots(Front(p), j)
             THEN Works(j, [To(j, "walk") EXCEPT !.fd = Top, !.rest = p]) ELSE Done(j)
       \/ Done(j)

\* O_DIRECTORY | O_NOFOLLOW
open_child_dir_no_follow(d, name) ==
    LET n == Child(d, name) IN IF n # Nowhere /\ Kind[n] = "dir" THEN n ELSE Nowhere

Steps(j) == IF j.q.op = "list" THEN 0 ELSE 1

open_dir_parts_no_follow(j) ==
    /\ j.pc = "walk" /\ Len(j.rest) > Steps(j)
    /\ UNCHANGED <<files, policy, started>>
    /\ LET n == open_child_dir_no_follow(j.fd, Head(j.rest)) IN
       IF n = Nowhere THEN Done(j) ELSE Works(j, [j EXCEPT !.fd = n, !.rest = Tail(@)])

\* A directory that is missing is made where the walk stands.
create_dir_all_no_symlink(j) ==
    /\ j.pc = "mkdirs"
    /\ UNCHANGED <<policy, started>>
    /\ IF Len(j.rest) = 1 THEN UNCHANGED files /\ Works(j, To(j, "again"))
       ELSE LET n == open_child_dir_no_follow(j.fd, Head(j.rest))
                spare == {x \in Nodes : Kind[x] = "dir" /\ at[x] = Nowhere /\ x # Top} IN
            IF n # Nowhere THEN UNCHANGED files /\ Works(j, [j EXCEPT !.fd = n, !.rest = Tail(@)])
            ELSE IF Child(j.fd, Head(j.rest)) # Nowhere \/ ~InPlace(j.fd) \/ spare = {} THEN UNCHANGED files /\ Done(j)
            ELSE LET x == CHOOSE y \in spare : TRUE IN
                 /\ at' = [at EXCEPT ![x] = <<j.fd, Head(j.rest)>>]
                 /\ touched' = [node |-> j.fd, ever |-> Reached(j.ever, j.roots)]
                 /\ Works(j, [j EXCEPT !.fd = x, !.rest = Tail(@)])

Touches(j, n) == touched' = [node |-> n, ever |-> Reached(j.ever, j.roots)]
AtEnd(j, op) == j.pc = "walk" /\ j.q.op = op /\ Len(j.rest) = Steps(j) /\ UNCHANGED <<policy, started>>

list_files_no_symlink_race(j) == AtEnd(j, "list") /\ UNCHANGED at /\ Touches(j, j.fd) /\ Done(j)

read_file_no_symlink_race(j) ==
    /\ AtEnd(j, "read") /\ UNCHANGED at
    /\ LET n == Child(j.fd, Head(j.rest)) IN
       IF n # Nowhere /\ Kind[n] = "file" THEN Touches(j, n) ELSE UNCHANGED touched
    /\ Done(j)

\* The file is created where the walk ended, or truncated if it is one.
create_file_no_symlink(j) ==
    /\ AtEnd(j, "write")
    /\ LET n == Child(j.fd, Head(j.rest))
           spare == {x \in Nodes : Kind[x] = "file" /\ at[x] = Nowhere} IN
       \/ n # Nowhere /\ Kind[n] = "file" /\ UNCHANGED at /\ Touches(j, n)
       \/ \E x \in spare : /\ n = Nowhere /\ InPlace(j.fd) /\ at' = [at EXCEPT ![x] = <<j.fd, Head(j.rest)>>]
                           /\ Touches(j, j.fd)
       \/ (IF n = Nowhere THEN spare = {} \/ ~InPlace(j.fd) ELSE Kind[n] # "file") /\ UNCHANGED files
    /\ Done(j)

\* A link is removed itself; a directory if it is empty, or with all that is in it.
delete_path_no_symlink_race(j) ==
    /\ AtEnd(j, "delete")
    /\ LET n == Child(j.fd, Head(j.rest)) IN
       IF n = Nowhere THEN UNCHANGED files /\ Done(j)
       ELSE IF Kind[n] = "dir"
       THEN UNCHANGED files /\ Works(j, [To(j, "sweep") EXCEPT !.stack = <<n>>])
       ELSE at' = [at EXCEPT ![n] = Nowhere] /\ Touches(j, n) /\ Done(j)

\* One entry at a time, by the directory that was opened.
remove_dir_all_at(j) ==
    /\ j.pc = "sweep" /\ UNCHANGED <<policy, started>>
    /\ LET d == j.stack[Len(j.stack)]
           here == {n \in Nodes : at[n] # Nowhere /\ at[n][1] = d} IN
       IF here = {}
       THEN /\ at' = [at EXCEPT ![d] = Nowhere] /\ Touches(j, d)
            /\ IF Len(j.stack) = 1 THEN Done(j) ELSE Works(j, [j EXCEPT !.stack = Front(@)])
       ELSE IF ~j.q.dirs THEN UNCHANGED files /\ Done(j)
       ELSE \E n \in here :
              IF Kind[n] = "dir" THEN UNCHANGED files /\ Works(j, [j EXCEPT !.stack = Append(@, n)])
              ELSE at' = [at EXCEPT ![n] = Nowhere] /\ Touches(j, n) /\ Works(j, j)

-----------------------------------------------------------------------------
(* apply_remote_config *)

\* Variant: a patch may set the flag either way.
validate_remote_config_disable_flag_Either(f, patch, cur) == TRUE

\* What is disabled cannot be enabled from afar.
validate_remote_config_disable_flag(f, patch, cur) == f \in patch.enable => f \notin cur.off

validate_remote_config_roots_within_policy(req, cur) ==
    "exec" \notin cur.off /\ \A p \in req : \E r \in cur.roots : starts_with(p, r)

\* The lock is taken and the file read: what it disables counts.
ReadsDisk(j) ==
    /\ j.pc = "start" /\ j.q.op = "patch" /\ holder = Nowhere
    /\ UNCHANGED <<files, mem, disk, firm, local, started>>
    /\ LET cur == [mem EXCEPT !.off = @ \cup disk.off]
           new == [off |-> (cur.off \ j.q.enable) \cup j.q.disable, roots |-> IF j.q.roots = {} THEN cur.roots ELSE j.q.roots] IN
       IF /\ \A f \in Flags : validate_remote_config_disable_flag(f, j.q, cur)
          /\ j.q.roots # {} => validate_remote_config_roots_within_policy(j.q.roots, [cur EXCEPT !.off = @ \cup j.q.disable])
       THEN /\ holder' = j.q.id
            /\ Works(j, [To(j, "persist") EXCEPT !.got = new])
       ELSE UNCHANGED <<holder, firm, local>> /\ Done(j)

\* write_secure_config: a new file takes the old one's place, or nothing changes.
persist_agent_config(j) ==
    /\ j.pc = "persist"
    /\ UNCHANGED <<files, mem, firm, started>>
    /\ \/ disk' = j.got /\ local' = j.got.off /\ UNCHANGED holder /\ Works(j, To(j, "adopt"))
       \/ UNCHANGED <<disk, local>> /\ holder' = Nowhere /\ Done(j)

AdoptConfig(j) ==
    /\ j.pc = "adopt"
    /\ mem' = j.got /\ firm' = firm \cup j.got.off /\ holder' = Nowhere
    /\ UNCHANGED <<files, disk, local, started>>
    /\ Done(j)

\* Refused by the configuration in memory or by the one on disk.
record_force_update_request(j) ==
    /\ j.pc = "start" /\ j.q.op = "force" /\ holder = Nowhere
    /\ UNCHANGED <<files, policy>>
    /\ started' = IF "force" \in mem.off \cup disk.off THEN started ELSE [flag |-> "force", off |-> mem.off]
    /\ Done(j)

-----------------------------------------------------------------------------
(* What others do. *)

\* An administrator edits the file; a patch that has read it will write over that.
LocalEdit(j) ==
    /\ j.pc = "start" /\ j.q.op = "edit"
    /\ disk' = [off |-> (disk.off \ j.q.enable) \cup j.q.disable, roots |-> IF j.q.roots = {} THEN disk.roots ELSE j.q.roots]
    /\ local' = (local \ j.q.enable) \cup (IF \E x \in jobs : x.pc = "persist" THEN {} ELSE j.q.disable)
    /\ UNCHANGED <<files, mem, holder, firm, started>>
    /\ Done(j)

\* Nodes are moved, and links put in their place, in directories that are still there.
Rearrange(j) ==
    /\ j.pc = "start" /\ j.q.op = "move"
    /\ \A n \in DOMAIN j.q.to : InPlace(j.q.to[n][1]) /\ Child(j.q.to[n][1], j.q.to[n][2]) \in DOMAIN j.q.to \cup {Nowhere}
    /\ at' = [n \in Nodes |-> IF n \in DOMAIN j.q.to THEN j.q.to[n] ELSE at[n]]
    /\ UNCHANGED <<touched, policy, started>>
    /\ Done(j)

\* The process ends wherever it is, and starts with what is on disk.
Restart(j) ==
    /\ j.pc = "start" /\ j.q.op = "restart"
    /\ mem' = disk /\ firm' = disk.off /\ holder' = Nowhere
    /\ UNCHANGED <<files, disk, local, started>>
    /\ jobs' = {x \in jobs \ {j} : x.pc = "start"}

HostStep(j) ==
    \/ run_server_task(j) \/ resolve_existing_path(j) \/ resolve_write_target(j) \/ ResolveParent(j)
    \/ open_dir_parts_no_follow(j) \/ create_dir_all_no_symlink(j)
    \/ list_files_no_symlink_race(j) \/ read_file_no_symlink_race(j) \/ create_file_no_symlink(j) \/ delete_path_no_symlink_race(j) \/ remove_dir_all_at(j)
    \/ ReadsDisk(j) \/ persist_agent_config(j) \/ AdoptConfig(j) \/ record_force_update_request(j)
    \/ LocalEdit(j) \/ Rearrange(j) \/ Restart(j)

-----------------------------------------------------------------------------
(* Properties. *)

(***************************************************************************)
(* Whatever is listed, read, written, made or removed was below an allowed *)
(* root at some moment since the task started, or in a directory that had  *)
(* been, however directories are moved or replaced by links between the    *)
(* check of the path and its use: a tree that is moved away while it is    *)
(* being removed is removed where it is.                                   *)
(* The no_symlink_race functions of files.rs.                              *)
(***************************************************************************)
StaysBelowRoots == touched.node = Nowhere \/ touched.node \in touched.ever

(***************************************************************************)
(* What is disabled stays disabled while the process runs, and in the file *)
(* until someone edits it, whatever patches arrive, overlap, fail half-way *)
(* or meet a restart: a patch neither enables what is disabled in memory   *)
(* nor undoes an edit that was made before it read the file.  A task is    *)
(* only started if its kind was enabled.  apply_remote_config.             *)
(***************************************************************************)
PolicyOnlyTightens ==
    /\ firm \subseteq mem.off /\ local \subseteq disk.off
    /\ started.flag = Nowhere \/ started.flag \notin started.off

(***************************************************************************)
(* The host's owner has the last word on what the server may do there:     *)
(* file tasks stay below the roots and patches only tighten the policy.    *)
(***************************************************************************)
HostKeepsPolicy == StaysBelowRoots /\ PolicyOnlyTightens
=============================================================================
