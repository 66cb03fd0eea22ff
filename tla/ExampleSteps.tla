----------------------------- MODULE ExampleSteps -----------------------------
(***************************************************************************)
(* The statements the example programs are made of: what they do to their  *)
(* handles and other resources, and which way they may go.  A program is   *)
(* the sequence of the statements of its main function; Lifetimes runs it. *)
(* A resource is known by the variable that points to it; the elements of  *)
(* an array are numbered.  Callbacks without a resource are left out.      *)
(***************************************************************************)
EXTENDS CurlTypecheck, Sequences

\* What a pointer becomes: a call that may fail returns one of two.
Becomes(o, statuses) == [op |-> "assign", obj |-> o, to |-> statuses]
New(o)    == Becomes(o, {"data", "null"})     \* fopen, malloc, curl_slist_append, curl_url
Easy(o)   == Becomes(o, {"easy", "null"})
Multi(o)  == Becomes(o, {"multi", "null"})
Hold(o)   == Becomes(o, {"data"})
Pushed(o) == Becomes(o, {"easy"})             \* the handle of a pushed stream
Clear(o)  == Becomes(o, {"null"})
Counted(o) == Becomes(o, {"count"})           \* a number that stays above zero

Free(o)  == [op |-> "free", obj |-> o]        \* tolerates NULL, as do the cleanups of libcurl
Close(o) == [op |-> "close", obj |-> o]       \* fclose does not
Use(o)   == [op |-> "use", obj |-> o]
Give(o)  == [op |-> "give", obj |-> o]        \* to another resource, freed with it

GlobalInit    == New("libcurl")
GlobalCleanup == Free("libcurl")

Set(h, option, o)   == [op |-> "set", obj |-> h, option |-> option, to |-> o]
Args(h, names, arg) == [op |-> "args", obj |-> h, options |-> names, arg |-> arg]
Strings(h, names)   == Args(h, names, Pointer("char"))
Longs(h, names)     == Args(h, names, Value("long"))
Offsets(h, names)   == Args(h, names, Value("curl_off_t"))
Login(more)         == Strings("curl", {"USERNAME", "PASSWORD", "URL"} \cup more)
Reset(h, option)    == [op |-> "reset", obj |-> h, option |-> option]
Gets(h, names, t)   == [op |-> "gets", obj |-> h, infos |-> names, variable |-> t]
Cleanup(h)          == [op |-> "cleanup", obj |-> h]

\* curl_easy_perform and the like: body is what the callbacks do to the resources.
DoCalling(h, body) == [op |-> "do", obj |-> h, body |-> body]
Do(h)              == DoCalling(h, <<>>)

Add(m, h)             == [op |-> "add", obj |-> m, easy |-> h]
Remove(m, h)          == [op |-> "remove", obj |-> m, easy |-> h]
DriveCalling(m, body) == [op |-> "drive", obj |-> m, body |-> body]
Drive(m)              == DriveCalling(m, <<>>)
MultiCleanup(m)       == [op |-> "mcleanup", obj |-> m]

MultiArgs(m, names, arg) == [op |-> "margs", obj |-> m, options |-> names, arg |-> arg]
MultiLongs(m, names)     == MultiArgs(m, names, Value("long"))

-----------------------------------------------------------------------------
(* Control.  A condition on a pointer is kept; any other may go either way. *)

IfElse(o, then, else) == [op |-> "if", obj |-> o, then |-> then, else |-> else]
If(o, then)           == IfElse(o, then, <<>>)
Unless(o, else)       == IfElse(o, <<>>, else)
Either(a, b)          == [op |-> "either", ways |-> {a, b}]
May(a)                == Either(a, <<>>)
Loop(body)            == [op |-> "loop", body |-> body]
Repeat(body)          == [op |-> "repeat", body |-> body]      \* do ... while
Again(loop)           == [op |-> "again", stmt |-> loop]       \* the end of a loop's body
Until(objs, body)     == [op |-> "until", objs |-> objs, body |-> body]
Break                 == [op |-> "break"]
Call(body)            == [op |-> "call", body |-> body]
Returns               == [op |-> "returns"]       \* the end of a called function
Return                == [op |-> "return"]
AnyCall(h)            == [op |-> "any", obj |-> h]

Spawn(t, body) == [op |-> "spawn", obj |-> t, body |-> body]
Join(t)        == [op |-> "join", obj |-> t]
GtkMain        == May(<<>>)                       \* until the window is closed

\* The shape of most programs: one handle, one transfer.
Single(options) == <<Easy("curl"), If("curl", options \o <<Do("curl"), Cleanup("curl")>>)>>
Initialised(program) == <<GlobalInit>> \o program \o <<GlobalCleanup>>
=============================================================================
