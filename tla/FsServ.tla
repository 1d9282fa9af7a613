------------------------------- MODULE FsServ -------------------------------
(***************************************************************************)
(* Requests to the file server: the client's calls (user/lib/file.c, fd.c,  *)
(* fsipc.c), the send and receive loops under them (user/lib/ipc.c), and    *)
(* the server with its table of open files (fs/serv.c).                     *)
(*                                                                         *)
(* A client sends a request and receives the answer in two system calls;    *)
(* the server is in one of its own loops in between.  An entry of the       *)
(* table is free when nobody but the server maps its Filefd page, and the   *)
(* clients map, share (fork, dup) and unmap these pages by themselves.      *)
(* What a request does to the files is in FsBlocks; here it succeeds or     *)
(* fails.                                                                   *)
(***************************************************************************)
EXTENDS Naturals, Sequences, FiniteSets, FiniteSetsExt

CONSTANTS Client,      \* environments that use files
          First,       \* the ones there at the start; fork makes the others
          FileSet,     \* files there are
          MAXOPEN,     \* entries of opentab
          MAXFD,       \* descriptors of a client
          IdSign,      \* file ids from here on are negative as an int
          MaxCalls,    \* bound: calls the clients make
          Discipline,  \* what the clients are assumed to do
          NONE

\* "room": a file is opened only while opentab has an entry for it;
\* "memory": the server finds a page for an entry it uses for the first time;
\* "tables": the kernel finds a page table, where the receiver has none yet, for
\* the page that goes with a message.
AllRules == {"room", "memory", "tables"}
Ask(rule, holds) == rule \in Discipline => holds

ASSUME SizeAssumption ==
    /\ MAXOPEN \in Nat \ {0} /\ MAXFD \in Nat \ {0} /\ IdSign \in Nat /\ MaxCalls \in Nat
ASSUME ClientAssumption ==
    /\ First \subseteq Client /\ First # {} /\ IsFiniteSet(Client)
    /\ Discipline \subseteq AllRules

Entry == 0..(MAXOPEN - 1)
Fdnum == 0..(MAXFD - 1)
FileId == 0..(2 * IdSign - 1)
Descriptor == [e : Entry, id : FileId, file : FileSet]

ASSUME NoneAssumption == NONE \notin Client \cup FileSet \cup Entry \cup Descriptor

VARIABLES srv,     \* the server: where it is, the request it serves, its answers
          tab,     \* opentab, with the Filefd pages it points to
          cl,      \* the clients: where they are, their call and their request
          fds,     \* the Filefd pages they map, with what they opened there
          calls    \* calls made so far

vars == <<srv, tab, cl, fds, calls>>

ByPath == {"create", "remove", "sync"}
ByFd == {"map", "set_size", "dirty", "close"}
Request == [type : {"open"} \cup ByPath \cup ByFd, file : FileSet \cup {NONE},
            id : FileId, fd : Fdnum]
Answer == [r : {"ok", "error"}, page : Entry \cup {NONE}]
Blank == [type |-> "sync", file |-> NONE, id |-> 0, fd |-> 0]
Waiting == [pc |-> "recv", whom |-> NONE, req |-> Blank, out |-> <<>>]
Outside == [pc |-> "user", fn |-> "other", req |-> Blank, r |-> "ok", from |-> NONE,
            leaving |-> FALSE]

TypeOK ==
    /\ srv \in [pc : {"recv", "serve", "reply", "loop", "panic"}, whom : Client \cup {NONE},
                req : Request, out : Seq(Answer)]
    /\ Len(srv.out) <= 2
    /\ tab \in [Entry -> [fileid : FileId, file : FileSet \cup {NONE}, mapped : BOOLEAN,
                          ffid : FileId, fffile : FileSet \cup {NONE}]]
    /\ cl \in [Client -> [pc : {"new", "user", "send", "sent", "wait", "got", "gone"},
                          fn : {"open", "close", "other"}, req : Request,
                          r : {"ok", "error"}, from : Fdnum \cup {NONE}, leaving : BOOLEAN]]
    /\ fds \in [Client -> [Fdnum -> Descriptor \cup {NONE}]]
    /\ calls \in 0..MaxCalls

\* serve_init: no page is there yet.
Init ==
    /\ srv = Waiting
    /\ tab = [i \in Entry |-> [fileid |-> i, file |-> NONE, mapped |-> FALSE,
                               ffid |-> 0, fffile |-> NONE]]
    /\ cl = [c \in Client |-> [Outside EXCEPT !.pc = IF c \in First THEN "user" ELSE "new"]]
    /\ fds = [c \in Client |-> [n \in Fdnum |-> NONE]]
    /\ calls = 0

-----------------------------------------------------------------------------
(* The table of open files.                                                 *)

Holders(i) == {h \in Client \X Fdnum : fds[h[1]][h[2]] # NONE /\ fds[h[1]][h[2]].e = i}

pageref(i) == (IF tab[i].mapped THEN 1 ELSE 0) + Cardinality(Holders(i))

\* open_alloc takes the first entry whose page has no user but the server, and
\* makes a new id of the entry's last.  The id is returned as an int.
open_alloc(refs, nomem) ==
    LET free == {i \in Entry : pageref(i) \in refs} IN
    IF free = {} \/ (nomem /\ ~tab[Min(free)].mapped) THEN [o |-> NONE, tab |-> tab, r |-> "error"]
    ELSE LET i == Min(free)
             id == (tab[i].fileid + MAXOPEN) % (2 * IdSign)
         IN  [o |-> i, r |-> IF id >= IdSign THEN "error" ELSE "ok",
              tab |-> [tab EXCEPT ![i] =
                         [@ EXCEPT !.fileid = id, !.mapped = TRUE, !.ffid = 0, !.fffile = NONE]]]

open_lookup(id) ==
    LET i == id % MAXOPEN IN
    IF pageref(i) = 1 \/ tab[i].fileid # id THEN NONE ELSE i

-----------------------------------------------------------------------------
(* The server's handlers.  Each leaves the answers it sends, in order.      *)

Error == [r |-> "error", page |-> NONE]
Ok == [r |-> "ok", page |-> NONE]
Page(i) == [r |-> "ok", page |-> i]

Handles(types) == srv.pc = "serve" /\ srv.req.type \in types
Answers(out) == srv' = [srv EXCEPT !.pc = "reply", !.out = out]

\* The file is found and written to the entry o, whose page is the answer.
fill_filefd(t, o) ==
    [t EXCEPT ![o] = [@ EXCEPT !.file = srv.req.file, !.ffid = t[o].fileid,
                               !.fffile = srv.req.file]]

\* Faulty variants: serve_open takes entries that one client still maps; it goes
\* on after the error of file_open as it does after the other.
serve_open_taken ==
    /\ Handles({"open"})
    /\ LET a == open_alloc({0, 1, 2}, FALSE) IN
           /\ Answers(<<IF a.r = "error" THEN Error ELSE Page(a.o)>>)
           /\ tab' = IF a.r = "error" THEN a.tab ELSE fill_filefd(a.tab, a.o)
    /\ UNCHANGED <<cl, fds, calls>>

serve_open_on ==
    /\ Handles({"open"})
    /\ LET a == open_alloc({0, 1}, FALSE) IN
           /\ \E found \in BOOLEAN :
                Answers(IF found THEN <<Page(a.o)>> ELSE <<Error, Page(a.o)>>)
           /\ tab' = fill_filefd(a.tab, a.o)
    /\ UNCHANGED <<cl, fds, calls>>

\* serve_open answers an error of open_alloc and goes on.  When there was no
\* entry, o is whatever the stack holds: some entry, or an address that faults.
serve_open ==
    /\ Handles({"open"})
    /\ \E nomem \in IF "memory" \in Discipline THEN {FALSE} ELSE BOOLEAN :
       LET a == open_alloc({0, 1}, nomem)
           early == IF a.r = "error" THEN <<Error>> ELSE <<>>
       IN  \/ /\ Answers(Append(early, Error))
              /\ tab' = a.tab
           \/ \E o \in IF a.o = NONE THEN Entry \cup {NONE} ELSE {a.o} :
                IF o = NONE THEN srv' = [srv EXCEPT !.pc = "panic"] /\ tab' = a.tab
                ELSE /\ Answers(Append(early, Page(o)))
                     /\ tab' = fill_filefd(a.tab, o)
    /\ UNCHANGED <<cl, fds, calls>>

\* serve_create, serve_remove, serve_sync (which cannot fail).
serve_path ==
    /\ Handles(ByPath)
    /\ \E r \in IF srv.req.type = "sync" THEN {Ok} ELSE {Ok, Error} : Answers(<<r>>)
    /\ UNCHANGED <<tab, cl, fds, calls>>

\* serve_map, serve_set_size, serve_dirty, serve_close (which cannot fail): the
\* block that serve_map sends goes to the client's data area.
serve_fd ==
    /\ Handles(ByFd)
    /\ IF open_lookup(srv.req.id) = NONE THEN Answers(<<Error>>)
       ELSE \E r \in IF srv.req.type = "close" THEN {Ok} ELSE {Ok, Error} : Answers(<<r>>)
    /\ UNCHANGED <<tab, cl, fds, calls>>

\* The page of an answer is the Filefd of an open, or the block of a map.
HasPage(c, a) == a.page # NONE \/ (a.r = "ok" /\ cl[c].req.type = "map")

\* ipc_send of an answer: it retries until the client receives (a retry changes
\* nothing) and user_asserts that there was no other error, as there is when the
\* client is gone, or when sys_ipc_try_send has woken the client and then finds no
\* memory to map the page of the answer where the client asked for it.
server_reply ==
    /\ srv.pc = "reply"
    /\ LET c == srv.whom
           a == Head(srv.out)
           rest == Tail(srv.out)
       IN \/ /\ cl[c].pc = "gone"
             /\ srv' = [srv EXCEPT !.pc = "panic"]
             /\ UNCHANGED <<tab, cl, fds, calls>>
          \/ /\ cl[c].pc = "wait" /\ HasPage(c, a) /\ "tables" \notin Discipline
             /\ cl' = [cl EXCEPT ![c] = [@ EXCEPT !.pc = "got", !.r = a.r]]
             /\ srv' = [srv EXCEPT !.pc = "panic"]
             /\ UNCHANGED <<tab, fds, calls>>
          \/ /\ cl[c].pc = "wait"
             /\ cl' = [cl EXCEPT ![c] = [@ EXCEPT !.pc = "got", !.r = a.r]]
             /\ fds' = IF a.page = NONE THEN fds
                       ELSE [fds EXCEPT ![c][cl[c].req.fd] =
                               [e |-> a.page, id |-> tab[a.page].ffid, file |-> cl[c].req.file]]
             /\ srv' = [srv EXCEPT !.pc = IF rest = <<>> THEN "loop" ELSE "reply", !.out = rest]
             /\ UNCHANGED <<tab, calls>>

\* The end of serve's loop: REQVA is unmapped and the next request awaited.
server_recv ==
    /\ srv.pc = "loop"
    /\ srv' = Waiting
    /\ UNCHANGED <<tab, cl, fds, calls>>

Server == serve_open \/ serve_path \/ serve_fd \/ server_reply \/ server_recv

-----------------------------------------------------------------------------
(* fsipc: a request is sent, then the answer received.                      *)

\* ipc_send to the server; a retry changes nothing.  When the page of the request
\* cannot be mapped, the server is woken all the same and reads zeros at REQVA, and
\* the client's user_assert makes it exit.
ipc_send(c) ==
    /\ cl[c].pc = "send" /\ srv.pc = "recv"
    /\ \/ /\ srv' = [srv EXCEPT !.pc = "serve", !.whom = c, !.req = cl[c].req]
          /\ cl' = [cl EXCEPT ![c].pc = "sent"]
       \/ /\ "tables" \notin Discipline
          /\ srv' = [srv EXCEPT !.pc = "serve", !.whom = c,
                                !.req = [Blank EXCEPT !.type = cl[c].req.type]]
          /\ cl' = [cl EXCEPT ![c] = [Outside EXCEPT !.leaving = TRUE]]
    /\ UNCHANGED <<tab, fds, calls>>

ipc_recv(c) ==
    /\ cl[c].pc = "sent"
    /\ cl' = [cl EXCEPT ![c].pc = "wait"]
    /\ UNCHANGED <<srv, tab, fds, calls>>

-----------------------------------------------------------------------------
(* The calls.                                                               *)

Opened(c) == {n \in Fdnum : fds[c][n] # NONE}
ById(type, c, n) == [type |-> type, file |-> fds[c][n].file, id |-> tab[fds[c][n].e].ffid,
                     fd |-> n]

\* A call begins with its first request.
Begin(c, fn, req, from) ==
    /\ cl' = [cl EXCEPT ![c] = [@ EXCEPT !.pc = "send", !.fn = fn, !.req = req, !.from = from]]
    /\ UNCHANGED <<srv, tab, fds>>

MayCall(c) ==
    /\ cl[c].pc = "user" /\ ~cl[c].leaving /\ calls < MaxCalls
    /\ calls' = calls + 1

Room == Cardinality({i \in Entry : pageref(i) > 1})
        + Cardinality({c \in Client : cl[c].pc \in {"send", "sent", "wait"}
                                      /\ cl[c].req.type = "open"}) < MAXOPEN

\* open: the last descriptor is never given out (fd_alloc stops before it).
open(c, f) ==
    /\ MayCall(c)
    /\ Ask("room", Room)
    /\ LET free == {n \in Fdnum \ {MAXFD - 1} : fds[c][n] = NONE} IN
       /\ free # {}
       /\ Begin(c, "open", [Blank EXCEPT !.type = "open", !.file = f, !.fd = Min(free)], NONE)

close(c, n) ==
    /\ MayCall(c) /\ n \in Opened(c)
    /\ Begin(c, "close", ById("dirty", c, n), NONE)

\* dup closes the new descriptor, if it is open, and maps the old page there.
dup(c, n, m) ==
    /\ MayCall(c) /\ n \in Opened(c) /\ n # m
    /\ IF m \in Opened(c) THEN Begin(c, "close", ById("dirty", c, m), n)
       ELSE /\ fds' = [fds EXCEPT ![c][m] = fds[c][n]]
            /\ UNCHANGED <<srv, tab, cl>>

\* create, remove and sync; ftruncate of a file that gets smaller.
other(c) ==
    /\ MayCall(c)
    /\ \/ \E t \in ByPath : Begin(c, "other", [Blank EXCEPT !.type = t], NONE)
       \/ \E n \in Opened(c) : Begin(c, "other", ById("set_size", c, n), NONE)

\* fork shares the pages with the child.
fork(c, d) ==
    /\ MayCall(c) /\ cl[d].pc = "new"
    /\ cl' = [cl EXCEPT ![d].pc = "user"]
    /\ fds' = [fds EXCEPT ![d] = fds[c]]
    /\ UNCHANGED <<srv, tab>>

exit(c) ==
    /\ cl[c].pc = "user" /\ ~cl[c].leaving
    /\ cl' = [cl EXCEPT ![c].leaving = TRUE]
    /\ UNCHANGED <<srv, tab, fds, calls>>

\* close_all, then syscall_env_destroy.
exit_step(c) ==
    /\ cl[c].pc = "user" /\ cl[c].leaving
    /\ UNCHANGED calls
    /\ IF Opened(c) # {} THEN Begin(c, "close", ById("dirty", c, Min(Opened(c))), NONE)
       ELSE /\ cl' = [cl EXCEPT ![c].pc = "gone"]
            /\ UNCHANGED <<srv, tab, fds>>

-----------------------------------------------------------------------------
(* What a call does with an answer.                                         *)

Return(c) == cl' = [cl EXCEPT ![c] = [Outside EXCEPT !.leaving = cl[c].leaving]]

\* open maps the file's pages after the descriptor; any error is returned at
\* once, and what is mapped by then stays.  Where the descriptor's page has not
\* come with the answer, open reads the size 0 there.
open_step(c) ==
    /\ cl[c].pc = "got" /\ cl[c].fn = "open"
    /\ \/ /\ cl[c].r = "ok" /\ cl[c].req.type = "open" /\ fds[c][cl[c].req.fd] # NONE
          /\ Begin(c, "open", ById("map", c, cl[c].req.fd), NONE)
       \/ /\ cl[c].r = "error" \/ cl[c].req.type = "map" \/ fds[c][cl[c].req.fd] = NONE
          /\ Return(c)
          /\ UNCHANGED <<srv, tab, fds>>
    /\ UNCHANGED calls

\* close tells the dirty pages, whatever the answer, asks the server to close,
\* and unmaps the descriptor, also after an error.  The rest of a dup follows.
close_step(c) ==
    /\ cl[c].pc = "got" /\ cl[c].fn = "close"
    /\ \/ /\ cl[c].req.type = "dirty"
          /\ Begin(c, "close", [cl[c].req EXCEPT !.type = "close"], cl[c].from)
       \/ /\ cl[c].req.type = "close"
          /\ fds' = [fds EXCEPT ![c][cl[c].req.fd] =
                       IF cl[c].from = NONE THEN NONE ELSE fds[c][cl[c].from]]
          /\ Return(c)
          /\ UNCHANGED <<srv, tab>>
    /\ UNCHANGED calls

other_step(c) ==
    /\ cl[c].pc = "got" /\ cl[c].fn = "other"
    /\ Return(c)
    /\ UNCHANGED <<srv, tab, fds, calls>>

\* The steps a client takes inside the library.
Library(c) == ipc_send(c) \/ ipc_recv(c) \/ open_step(c) \/ close_step(c)
              \/ other_step(c) \/ exit_step(c)

Next ==
    \/ Server
    \/ \E c \in Client :
        \/ Library(c)
        \/ \E f \in FileSet : open(c, f)
        \/ \E n \in Fdnum : close(c, n) \/ \E m \in Fdnum : dup(c, n, m)
        \/ other(c)
        \/ \E d \in Client : fork(c, d)
        \/ exit(c)

Spec == Init /\ [][Next]_vars

\* The scheduler gives every runnable environment its turn.
FairSpec == Spec /\ WF_vars(Server) /\ \A c \in Client : WF_vars(Library(c))

-----------------------------------------------------------------------------
(* Properties.                                                              *)

\* The page of a descriptor that a client has open still describes what the
\* client opened: open_alloc does not give out an entry that is in use, however
\* the descriptors were copied (serv.c: pageref tells whether a file is open).
DescriptorKept ==
    \A c \in Client, n \in Fdnum : fds[c][n] # NONE =>
        LET d == fds[c][n] IN tab[d.e].ffid = d.id /\ tab[d.e].fffile = d.file

\* A request on a descriptor is served with the file that descriptor is open on:
\* open_lookup refuses none, whatever other holders of the descriptor did.
ServesTheOpenFile ==
    (srv.pc = "serve" /\ srv.req.type \in ByFd) =>
        /\ open_lookup(srv.req.id) # NONE
        /\ tab[open_lookup(srv.req.id)].file = srv.req.file

\* The server does not die: an answer always finds its client (ipc_send).
ServerAlive == srv.pc # "panic"

\* Every request is answered ("Send an IPC request to the file server, and wait
\* for a reply", fsipc.c): server and clients never wait for each other.
RequestsAnswered ==
    \A c \in Client : cl[c].pc \in {"send", "sent", "wait"} ~> cl[c].pc = "got"

\* A descriptor stays what it was opened as, for the client that holds it and for
\* the server that serves it, and the server lives (open_alloc, open_lookup, serve).
OpenFilesKept == TypeOK /\ DescriptorKept /\ ServesTheOpenFile /\ ServerAlive

=============================================================================
