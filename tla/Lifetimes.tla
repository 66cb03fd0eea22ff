------------------------------- MODULE Lifetimes -------------------------------
(***************************************************************************)
(* The example programs run, one in a behaviour: what becomes of their     *)
(* handles, files, lists and blocks of memory, which of them libcurl still *)
(* refers to, and what is passed to the variadic functions.  Any call that *)
(* may fail does, and callbacks run whenever a transfer is driven.         *)
(*                                                                         *)
(* libcurl's side is what its headers say and the programs rely on: a NULL *)
(* handle or list is refused and not followed; setopt keeps the pointer it *)
(* is given, except that it copies strings, and the transfer follows it;   *)
(* a list of options has to outlive the transfers that use it, and a NULL  *)
(* list unsets the option; curl_multi_cleanup touches no easy handle.      *)
(***************************************************************************)
EXTENDS ExampleEasy, ExampleMulti

\* A program that makes any one call, with an argument of any type.
application == <<Easy("curl"), If("curl", <<AnyCall("curl"), Cleanup("curl")>>)>>

Programs ==
  [address_scope |-> address_scope, altsvc |-> altsvc, anyauthput |-> anyauthput,
   block_ip |-> block_ip, cacertinmem |-> cacertinmem, certinfo |-> certinfo,
   chkspeed |-> chkspeed, connect_to |-> connect_to,
   cookie_interface |-> cookie_interface, crawler |-> crawler, curlgtk |-> curlgtk,
   debug |-> debug, default_scheme |-> default_scheme, externalsocket |-> externalsocket,
   fileupload |-> fileupload, ftp_wildcard |-> ftp_wildcard, ftpget |-> ftpget,
   ftpgetinfo |-> ftpgetinfo, ftpgetresp |-> ftpgetresp, ftpsget |-> ftpsget,
   ftpupload |-> ftpupload, ftpuploadfrommem |-> ftpuploadfrommem,
   ftpuploadresume |-> ftpuploadresume, getinfo |-> getinfo, getinmemory |-> getinmemory,
   getredirect |-> getredirect, getreferrer |-> getreferrer, headerapi |-> headerapi,
   href_extractor |-> href_extractor, hsts_preload |-> hsts_preload,
   htmltidy |-> htmltidy, htmltitle |-> htmltitle, http2_download |-> http2_download,
   http2_pushinmemory |-> http2_pushinmemory, http2_serverpush |-> http2_serverpush,
   http2_upload |-> http2_upload, http3 |-> http3, http3_present |-> http3_present,
   http_options |-> http_options, http_post |-> http_post,
   httpcustomheader |-> httpcustomheader, httpput |-> httpput,
   httpput_postfields |-> httpput_postfields, https |-> https,
   imap_append |-> imap_append, imap_authzid |-> imap_authzid, imap_copy |-> imap_copy,
   imap_create |-> imap_create, imap_delete |-> imap_delete,
   imap_examine |-> imap_examine, imap_fetch |-> imap_fetch, imap_list |-> imap_list,
   imap_lsub |-> imap_lsub, imap_multi |-> imap_multi, imap_noop |-> imap_noop,
   imap_search |-> imap_search, imap_ssl |-> imap_ssl, imap_store |-> imap_store,
   imap_tls |-> imap_tls, interface |-> interface, ipv6 |-> ipv6, keepalive |-> keepalive,
   localport |-> localport, maxconnects |-> maxconnects, multi_app |-> multi_app,
   multi_debugcallback |-> multi_debugcallback, multi_double |-> multi_double,
   multi_formadd |-> multi_formadd, multi_legacy |-> multi_legacy,
   multi_post |-> multi_post, multi_single |-> multi_single, multithread |-> multithread,
   netrc |-> netrc, parseurl |-> parseurl, persistent |-> persistent,
   pop3_authzid |-> pop3_authzid, pop3_dele |-> pop3_dele, pop3_list |-> pop3_list,
   pop3_multi |-> pop3_multi, pop3_noop |-> pop3_noop, pop3_retr |-> pop3_retr,
   pop3_ssl |-> pop3_ssl, pop3_stat |-> pop3_stat, pop3_tls |-> pop3_tls,
   pop3_top |-> pop3_top, pop3_uidl |-> pop3_uidl, post_callback |-> post_callback,
   postinmemory |-> postinmemory, postit2 |-> postit2,
   postit2_formadd |-> postit2_formadd, progressfunc |-> progressfunc,
   protofeats |-> protofeats, range |-> range, resolve |-> resolve, rtsp |-> rtsp,
   rtsp_options |-> rtsp_options, sampleconv |-> sampleconv, sendrecv |-> sendrecv,
   sepheaders |-> sepheaders, sessioninfo |-> sessioninfo, sftpget |-> sftpget,
   sftpuploadresume |-> sftpuploadresume,
   shared_connection_cache |-> shared_connection_cache, simple |-> simple,
   simplepost |-> simplepost, simplessl |-> simplessl,
   smooth_gtk_thread |-> smooth_gtk_thread, smtp_authzid |-> smtp_authzid,
   smtp_expn |-> smtp_expn, smtp_mail |-> smtp_mail, smtp_mime |-> smtp_mime,
   smtp_multi |-> smtp_multi, smtp_ssl |-> smtp_ssl, smtp_tls |-> smtp_tls,
   smtp_vrfy |-> smtp_vrfy, synctime |-> synctime, ten_at_a_time |-> ten_at_a_time,
   threaded_ssl |-> threaded_ssl, unixsocket |-> unixsocket, url2file |-> url2file,
   urlapi |-> urlapi, usercertinmem |-> usercertinmem, websocket |-> websocket,
   websocket_cb |-> websocket_cb, xmlstream |-> xmlstream, application |-> application]

VARIABLES
  program,   \* the program that runs
  todo,      \* for main and each thread started: the statements to come
  obj,       \* for each variable that was assigned to: what it points to
  refs,      \* <<h, option, o>>: libcurl will follow, for h, what o pointed to
  members    \* <<m, h>>: h was added to m and not removed

vars == <<program, todo, obj, refs, members>>

Live == {"easy", "multi", "data", "thread"}

Get(o)     == IF o \in DOMAIN obj THEN obj[o] ELSE "unset"
IsLive(o)  == Get(o) \in Live
IsNull(o)  == Get(o) = "null"
Become(o, status) == obj' = (o :> status) @@ obj

Init ==
  /\ program \in DOMAIN Programs
  /\ todo = [main |-> Programs[program]]
  /\ obj = <<>>
  /\ refs = {}
  /\ members = {}

\* The process lasts as long as main does, whatever its threads have left to do.
At(p, ops) == todo["main"] # <<>> /\ todo[p] # <<>> /\ Head(todo[p]).op \in ops
Now(p)     == Head(todo[p])
Continue(p, statements) == todo' = [todo EXCEPT ![p] = statements \o Tail(@)]

-----------------------------------------------------------------------------
(* Resources. *)

Assign(p) ==
  /\ At(p, {"assign"})
  /\ \E status \in Now(p).to : Become(Now(p).obj, status)
  /\ Continue(p, <<>>)
  /\ UNCHANGED <<program, refs, members>>

\* Ownership ends; the pointer stays as it is, and nothing happens to a NULL one.
Release(p) ==
  /\ At(p, {"free", "close", "give", "cleanup", "mcleanup"})
  /\ LET o == Now(p).obj
     IN /\ IF IsNull(o) THEN UNCHANGED obj
           ELSE Become(o, IF Now(p).op = "give" THEN "given" ELSE "gone")
        /\ IF Now(p).op \in {"cleanup", "mcleanup"}
           THEN /\ refs' = {r \in refs : r[1] # o}
                /\ members' = {e \in members : o \notin {e[1], e[2]}}
           ELSE UNCHANGED <<refs, members>>
  /\ Continue(p, <<>>)
  /\ UNCHANGED program

\* The check at the call is a matter of the properties.
Look(p) ==
  /\ At(p, {"use", "args", "gets", "margs"})
  /\ Continue(p, <<>>)
  /\ UNCHANGED <<program, obj, refs, members>>

Unreferenced(h, option) == {r \in refs : r[1] # h \/ r[2] # option}

\* NULL for data of a callback is as good a value as any.
SetOption(p) ==
  /\ At(p, {"set"})
  /\ LET h == Now(p).obj  o == Now(p).to  option == Now(p).option
         kept == ~IsNull(o) \/ Options[option].type = "CBPOINT"
     IN refs' = IF Get(h) # "easy" THEN refs
                ELSE Unreferenced(h, option) \cup (IF kept THEN {<<h, option, o>>} ELSE {})
  /\ Continue(p, <<>>)
  /\ UNCHANGED <<program, obj, members>>

ResetOption(p) ==
  /\ At(p, {"reset"})
  /\ refs' = Unreferenced(Now(p).obj, Now(p).option)
  /\ Continue(p, <<>>)
  /\ UNCHANGED <<program, obj, members>>

AddHandle(p) ==
  /\ At(p, {"add"})
  /\ members' = IF Get(Now(p).obj) = "multi" /\ Get(Now(p).easy) = "easy"
                THEN members \cup {<<Now(p).obj, Now(p).easy>>} ELSE members
  /\ Continue(p, <<>>)
  /\ UNCHANGED <<program, obj, refs>>

RemoveHandle(p) ==
  /\ At(p, {"remove"})
  /\ members' = members \ {<<Now(p).obj, Now(p).easy>>}
  /\ Continue(p, <<>>)
  /\ UNCHANGED <<program, obj, refs>>

\* A transfer calls back any number of times, one call at a time.
Transfer(p) ==
  /\ At(p, {"do", "drive"})
  /\ \/ Continue(p, <<>>)
     \/ /\ IsLive(Now(p).obj) /\ Now(p).body # <<>>
        /\ Continue(p, Now(p).body \o <<Returns, Now(p)>>)
  /\ UNCHANGED <<program, obj, refs, members>>

Types ==
  {Value(t) : t \in {"short", "int", "long", "unsigned long", "curl_off_t", "double"}}
  \cup {Pointer(t) : t \in {"void", "char", "int", "FILE", "CURLU", "curl_mime",
                            "struct curl_slist", "struct curl_blob", "struct curl_httppost"}}
  \cup {Constant("char"), Array("char"), Array("struct curl_slist")}
  \cup {Function(s) : s \in {"read", "write", "progress"}}

Variables == {"char *", "long", "double", "curl_off_t", "curl_socket_t", "struct curl_slist *",
              "struct curl_certinfo *", "struct curl_tlssessioninfo *"}

CallAnything(p) ==
  /\ At(p, {"any"})
  /\ \/ \E o \in DOMAIN Options, arg \in Types : Continue(p, <<Args(Now(p).obj, {o}, arg)>>)
     \/ \E i \in Infos, v \in Variables : Continue(p, <<Gets(Now(p).obj, {i.info}, v)>>)
  /\ UNCHANGED <<program, obj, refs, members>>

-----------------------------------------------------------------------------
(* Control. *)

Test(p) ==
  /\ At(p, {"if"})
  /\ Continue(p, IF IsNull(Now(p).obj) THEN Now(p).else ELSE Now(p).then)
  /\ UNCHANGED <<program, obj, refs, members>>

Choose(p) ==
  /\ At(p, {"either"})
  /\ \E way \in Now(p).ways : Continue(p, way)
  /\ UNCHANGED <<program, obj, refs, members>>

\* The number of transfers that are left, for an until loop.
Left(s) == {o \in s.objs : Get(o) \in {"easy", "count"}}

Iterate(p) ==
  /\ At(p, {"loop", "repeat", "until", "again", "call"})
  /\ LET s == Now(p)
     IN CASE s.op = "loop"   -> Continue(p, <<>>) \/ Continue(p, s.body \o <<Again(s)>>)
          [] s.op = "repeat" -> Continue(p, s.body \o <<Again(Loop(s.body))>>)
          [] s.op = "until"  -> Continue(p, IF Left(s) = {} THEN <<>> ELSE s.body \o <<Again(s)>>)
          [] s.op = "again"  -> Continue(p, <<s.stmt>>)
          [] s.op = "call"   -> Continue(p, s.body \o <<Returns>>)
  /\ UNCHANGED <<program, obj, refs, members>>

\* The statements after the first of one of the ops.
After(s, ops) ==
  LET at == {i \in DOMAIN s : s[i].op \in ops}
  IN IF at = {} THEN <<>>
     ELSE SubSeq(s, 1 + CHOOSE i \in at : \A j \in at : i <= j, Len(s))

Leave(p) ==
  /\ At(p, {"break", "return", "returns"})
  /\ todo' = [todo EXCEPT ![p] =
       CASE Now(p).op = "break"   -> After(@, {"again"})
         [] Now(p).op = "return"  -> After(@, {"returns"})
         [] Now(p).op = "returns" -> Tail(@)]
  /\ UNCHANGED <<program, obj, refs, members>>

\* A thread that could not be created leaves the variable for its id as it was.
StartThread(p) ==
  /\ At(p, {"spawn"})
  /\ LET t == Now(p).obj
     IN \/ /\ Become(t, "thread")
           /\ todo' = (t :> Now(p).body) @@ [todo EXCEPT ![p] = Tail(@)]
        \/ /\ Continue(p, <<>>)
           /\ UNCHANGED obj
  /\ UNCHANGED <<program, refs, members>>

JoinThread(p) ==
  /\ At(p, {"join"})
  /\ LET t == Now(p).obj
     IN IF Get(t) = "thread" THEN todo[t] = <<>> /\ Become(t, "gone") ELSE UNCHANGED obj
  /\ Continue(p, <<>>)
  /\ UNCHANGED <<program, refs, members>>

Step(p) ==
  \/ Assign(p) \/ Release(p) \/ Look(p) \/ SetOption(p) \/ ResetOption(p)
  \/ AddHandle(p) \/ RemoveHandle(p) \/ Transfer(p) \/ CallAnything(p)
  \/ Test(p) \/ Choose(p) \/ Iterate(p) \/ Leave(p) \/ StartThread(p) \/ JoinThread(p)

Next == \E p \in DOMAIN todo : Step(p)

Spec == Init /\ [][Next]_vars

-----------------------------------------------------------------------------
(* Properties. *)

\* The statement each process is at.
Statements == {Now(p) : p \in {q \in DOMAIN todo : todo["main"] # <<>> /\ todo[q] # <<>>}}
Calls(op)  == {s \in Statements : s.op = op}

\* curl_off_t is a name for another type.
Resolved(arg, model) == IF arg.of = "curl_off_t" THEN [arg EXCEPT !.of = curl_off_t(model)] ELSE arg

\* Whether a call passes what libcurl reads, and whether the compiler warns of it.
Reads(s, model) ==
  CASE s.op = "args"  -> \A o \in s.options : SetoptReads(o, Resolved(s.arg, model), model)
    [] s.op = "margs" -> \A o \in s.options : MultiSetoptReads(o, s.arg, model)
    [] s.op = "gets"  -> \A i \in {i \in Infos : i.info \in s.infos} :
         \/ Resolved(Pointer(s.variable), model).of = StoredIn(i, model)
         \/ i.info = "TLS_SESSION" /\ s.variable = "const struct curl_tlssessioninfo *"
         \/ i.info = "PRIVATE" /\ s.variable \in {"char *", "memory *"}
Warns(s, model) ==
  CASE s.op = "args"  -> \E o \in s.options : SetoptWarns(o, Resolved(s.arg, model), model)
    [] s.op = "margs" -> FALSE
    [] s.op = "gets"  -> \E i \in {i \in Infos : i.info \in s.infos} :
         GetinfoWarns(i, Resolved(Pointer(s.variable), model), model)

\* What a statement follows that is not there: no longer, not yet, or not at all.
\* libcurl, free and the like are content with NULL.
References(h) == {r[3] : r \in {r \in refs : r[1] = h}}
Lost(o)       == ~IsLive(o) /\ ~IsNull(o)
Dead(s) ==
  CASE s.op \in {"use", "close", "join"} -> {o \in {s.obj} : ~IsLive(o)}
    [] s.op \in {"free", "give", "cleanup", "mcleanup", "set", "reset", "args", "gets",
                 "margs"} ->
         {o \in {s.obj} : Lost(o)}
    [] s.op \in {"add", "remove"} -> {o \in {s.obj, s.easy} : Lost(o)}
    [] s.op = "if"    -> {o \in {s.obj} : Get(o) = "unset"}
    [] s.op = "until" -> {o \in s.objs : Get(o) = "unset"}
    [] s.op = "do"    -> {o \in {s.obj} : Lost(o)} \cup {o \in References(s.obj) : ~IsLive(o)}
    [] s.op = "drive" -> {o \in {s.obj} : Lost(o)} \cup
         {o \in UNION {References(e[2]) : e \in {e \in members : e[1] = s.obj}} : ~IsLive(o)}
    [] OTHER -> {}

\* typecheck-gcc.h keeps its promise: a call that passes what libcurl does not read draws
\* a warning on every data model, unless the option is one no check looks at closely, and
\* an argument of the declared type draws none.
TypecheckExact ==
  program = "application" =>
    \A model \in Models :
      /\ \A s \in Calls("args"), o \in DOMAIN Options : o \in s.options =>
           /\ ~Reads(s, model) => Warns(s, model) \/ Unchecked(o)
           /\ Resolved(s.arg, model) \in Declared(o, model) => ~Warns(s, model)
      /\ \A s \in Calls("gets") : Reads(s, model) \/ Warns(s, model) \/ s.infos = {"PRIVATE"}

\* The numbers and strings the examples pass, and the variables they have values stored
\* in, are what libcurl reads and writes whatever the sizes of int, long and pointers
\* are, and curl_easy_setopt and curl_easy_getinfo compile without a warning.  Not so
\* crawler, whose int max_con is read as a long (crawler.c:189), and sessioninfo, which
\* has a pointer to const stored: right, and not what the check expects.  The pointers
\* to resources (Set) and callbacks have no type here, and are not looked at.
ArgumentsAsDeclared ==
  program # "application" =>
    \A s \in Calls("args") \cup Calls("gets") \cup Calls("margs"), model \in Models :
      /\ \/ Reads(s, model)
         \/ program = "crawler" /\
            s = MultiArgs("multi_handle", {"MAX_TOTAL_CONNECTIONS"}, Value("int"))
      /\ Warns(s, model) => program = "sessioninfo"

\* What can be dead when a program uses it: files, blocks and parsers it never checks for
\* NULL, ids of threads that were not created, http2_upload's multi handle, cleaned up
\* before the transfers are removed from it, and smooth_gtk_thread's string, which both
\* threads keep in one variable.
NeverChecked ==
  [crawler |-> {"mem1", "mem2"}, curlgtk |-> {"outfile"}, href_extractor |-> {"hsp"},
   xmlstream |-> {"parser"}, rtsp |-> {"control", "s", "sdp_filename", "uri"},
   synctime |-> {"outfile"}, multithread |-> {"tid1", "tid2"},
   threaded_ssl |-> {"tid1", "tid2"}, http2_upload |-> {"multi_handle"},
   smooth_gtk_thread |-> {"http", "outfile1", "outfile2", "tid1", "tid2"}]

\* Of the program that runs.
Excepted(table) == IF program \in DOMAIN table THEN table[program] ELSE {}

\* No example follows a pointer to what it has freed or closed, or that was never set, and
\* nothing a transfer refers to, through options, is gone while the transfer is driven.
UsesAlive == \A s \in Statements : Dead(s) \subseteq Excepted(NeverChecked)

\* No easy handle is cleaned up while a multi handle has it, and libcurl is not cleaned up
\* while there are handles; crawler leaves the transfers that are still running, and
\* sftpuploadresume the handle it asked for the size with.
RemovedFirst ==
  /\ \A s \in Calls("cleanup"), e \in members : e[2] = s.obj => ~IsLive(e[1])
  /\ \A s \in Calls("free") : s.obj = "libcurl" =>
       {o \in DOMAIN obj : Get(o) \in {"easy", "multi"}} \subseteq
         Excepted([crawler |-> {"handle1", "handle2"}, sftpuploadresume |-> {"curlHandlePtr"}])

\* What is left to the end of the process, or overwritten.
Leaks ==
  [block_ip |-> {"list"}, cacertinmem |-> {"cbio"}, cookie_interface |-> {"curl", "libcurl"},
   crawler |-> {"buf1", "buf2", "doc", "handle1", "handle2", "link", "mem1", "mem2"},
   curlgtk |-> {"curl", "libcurl", "outfile", "thread"}, externalsocket |-> {"curl"},
   htmltitle |-> {"conn", "libcurl"},
   http2_download |-> {"easy1", "easy2", "multi_handle", "out1", "out2"},
   http2_pushinmemory |-> {"easy", "pushed"},
   http2_serverpush |-> {"easy", "multi_handle", "out", "pushed", "pushout"},
   http2_upload |-> {"hnd1", "in1", "in2", "multi_handle", "out1", "out2"},
   imap_multi |-> {"curl", "libcurl"}, pop3_multi |-> {"curl", "libcurl"},
   smtp_multi |-> {"curl", "libcurl"}, smtp_mime |-> {"alt", "slist"},
   multi_formadd |-> {"curl", "formpost", "headerlist", "multi_handle"},
   multi_post |-> {"curl", "multi_handle"}, persistent |-> {"libcurl"},
   postit2 |-> {"libcurl"}, postit2_formadd |-> {"formpost", "headerlist", "libcurl"},
   sendrecv |-> {"curl"}, sepheaders |-> {"libcurl"},
   sftpuploadresume |-> {"curlHandlePtr"},
   smooth_gtk_thread |-> {"curl1", "curl2", "http", "libcurl", "outfile1", "outfile2",
                          "thread", "tid1", "tid2"},
   synctime |-> {"libcurl"}, threaded_ssl |-> {"libcurl"}]

\* Every way through an example releases what it acquired, but for these.
Released ==
  LET kept == IF todo["main"] = <<>> THEN {o \in DOMAIN obj : IsLive(o)} ELSE {}
      overwritten == {s.obj : s \in {s \in Calls("assign") : IsLive(s.obj)}}
  IN kept \cup overwritten \subseteq Excepted(Leaks)
=============================================================================
