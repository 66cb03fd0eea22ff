---------------------------- MODULE ExampleMulti ----------------------------
(***************************************************************************)
(* The example programs with several transfers: those that use a multi     *)
(* handle and those with threads.  Arrays have two elements.               *)
(***************************************************************************)
EXTENDS ExampleSteps

\* A transfer whose handle could not be had is counted and never done.
add_transfer(eh) ==
  <<Easy(eh), Strings(eh, {"URL"}), Add("cm", eh), Unless(eh, <<Counted("left")>>)>>

\* Bounded to two transfers at a time.
ten_at_a_time ==
  LET done(eh) ==
        If(eh, <<May(<<Gets(eh, {"PRIVATE"}, "char *"), Remove("cm", eh), Cleanup(eh),
          Clear(eh), May(add_transfer(eh))>>)>>)
  IN <<GlobalInit, Multi("cm"), MultiLongs("cm", {"MAXCONNECTS"}), Clear("left")>>
     \o add_transfer("eh1") \o add_transfer("eh2")
     \o <<Until({"eh1", "eh2", "left"}, <<Drive("cm"), done("eh1"), done("eh2")>>),
          MultiCleanup("cm"), GlobalCleanup>>

make_handle(t) ==
  <<Easy(t.handle), Strings(t.handle, {"URL", "ACCEPT_ENCODING", "REDIR_PROTOCOLS_STR",
      "COOKIEFILE", "USERAGENT"}), New(t.mem), Use(t.mem), New(t.buf),
    Set(t.handle, "WRITEDATA", t.mem), Offsets(t.handle, {"MAXFILESIZE_LARGE"}),
    Longs(t.handle, {"HTTP_VERSION", "TIMEOUT", "FOLLOWLOCATION", "AUTOREFERER",
      "MAXREDIRS", "TIMEOUT_MS", "CONNECTTIMEOUT_MS", "FILETIME", "UNRESTRICTED_AUTH",
      "EXPECT_100_TIMEOUT_MS"}),
    Args(t.handle, {"HTTPAUTH", "PROXYAUTH"}, Value("unsigned long"))>>

\* doc is never freed, nor is a link that is too short or the last one.
follow_links(t) ==
  Call(<<New("doc"), Unless("doc", <<Return>>),
    New("result"), Unless("result", <<Return>>), May(<<Free("result"), Return>>),
    Loop(<<New("link"),
      If("link", <<May(<<
        Unless(t.handle, make_handle(t) \o <<Add("multi_handle", t.handle), May(<<Break>>)>>),
        Free("link")>>)>>)>>),
    Free("result")>>)

\* Bounded to two transfers at a time.
crawler ==
  LET t1 == [handle |-> "handle1", mem |-> "mem1", buf |-> "buf1"]
      t2 == [handle |-> "handle2", mem |-> "mem2", buf |-> "buf2"]
      done(t, next) ==
        If(t.handle, <<May(<<Gets(t.handle, {"PRIVATE"}, "memory *"),
          Gets(t.handle, {"EFFECTIVE_URL"}, "char *"),
          May(<<Gets(t.handle, {"RESPONSE_CODE"}, "long"),
            May(<<Gets(t.handle, {"CONTENT_TYPE"}, "char *"), May(<<follow_links(next)>>)>>)>>),
          Remove("multi_handle", t.handle), Cleanup(t.handle), Clear(t.handle),
          Free(t.buf), Free(t.mem)>>)>>)
  IN <<GlobalInit, Multi("multi_handle"),
       MultiArgs("multi_handle", {"MAX_TOTAL_CONNECTIONS"}, Value("int")),
       MultiLongs("multi_handle", {"MAX_HOST_CONNECTIONS", "PIPELINING"}), Clear("handle2")>>
     \o make_handle(t1) \o <<Add("multi_handle", "handle1"),
          Loop(<<Drive("multi_handle"), done(t1, t2), done(t2, t1)>>),
          MultiCleanup("multi_handle"), GlobalCleanup>>

my_thread ==
  <<Easy("curl"),
    If("curl", <<New("outfile"), Strings("curl", {"URL"}),
      Set("curl", "WRITEDATA", "outfile"), Longs("curl", {"NOPROGRESS"}), Do("curl"),
      Close("outfile"), Cleanup("curl")>>)>>

curlgtk == <<GlobalInit, Spawn("thread", my_thread), GtkMain>>

\* The files written to are not closed.
download_setup(easy, out) ==
  <<Easy(easy), New(out), Unless(out, <<Return>>), Set(easy, "WRITEDATA", out),
    Strings(easy, {"URL"}), Longs(easy, {"VERBOSE", "BUFFERSIZE", "HTTP_VERSION",
      "PIPEWAIT"}), Add("multi_handle", easy)>>

http2_download ==
  <<Multi("multi_handle")>>
  \o download_setup("easy1", "out1") \o download_setup("easy2", "out2")
  \o <<MultiLongs("multi_handle", {"PIPELINING"}), Repeat(<<Drive("multi_handle"), May(<<Break>>)>>),
       Remove("multi_handle", "easy1"), Cleanup("easy1"),
       Remove("multi_handle", "easy2"), Cleanup("easy2"), MultiCleanup("multi_handle")>>

pushinmemory_setup ==
  <<Strings("easy", {"URL"}), New("memory"), Longs("easy", {"HTTP_VERSION",
      "SSL_VERIFYPEER", "SSL_VERIFYHOST", "PIPEWAIT"})>>

PushOptions(m) ==
  <<MultiLongs(m, {"PIPELINING"}), MultiArgs(m, {"PUSHFUNCTION"}, Function("push")),
    MultiArgs(m, {"PUSHDATA"}, Pointer("int"))>>

\* Called with the handle libcurl made for a pushed stream, which libcurl then adds.
pushinmemory_callback ==
  Unless("pushed", <<May(<<Pushed("pushed"), New("pushedmemory"),
    Add("multi", "pushed")>>)>>)

\* Bounded to one pushed stream.
http2_pushinmemory ==
  LET done(e) == If(e, <<May(<<Remove("multi", e), Cleanup(e), Clear(e)>>)>>)
  IN <<Multi("multi"), Easy("easy"), Clear("pushed"), Clear("pushedmemory"),
       Clear("transfers")>> \o pushinmemory_setup
     \o <<Add("multi", "easy"), Unless("easy", <<Counted("transfers")>>)>>
     \o PushOptions("multi")
     \o <<Until({"easy", "pushed", "transfers"},
            <<DriveCalling("multi", <<Unless("pushedmemory", <<pushinmemory_callback>>)>>),
              May(<<Break>>), done("easy"), done("pushed")>>),
          MultiCleanup("multi"), Free("memory"), Free("pushedmemory")>>

serverpush_setup ==
  <<New("out"), Unless("out", <<Return>>), Set("easy", "WRITEDATA", "out"),
    Strings("easy", {"URL"}), Longs("easy", {"VERBOSE", "HTTP_VERSION", "SSL_VERIFYPEER",
      "SSL_VERIFYHOST", "PIPEWAIT"})>>

\* The files written to are not closed.
serverpush_callback ==
  Unless("pushout", <<New("pushout"),
    If("pushout", <<Pushed("pushed"), Set("pushed", "WRITEDATA", "pushout"),
      Add("multi_handle", "pushed")>>)>>)

\* Bounded to one pushed stream.
http2_serverpush ==
  LET done(e) == If(e, <<May(<<Remove("multi_handle", e), Cleanup(e), Clear(e)>>)>>)
  IN <<Multi("multi_handle"), Easy("easy"), Clear("pushed"), Clear("pushout"),
       Clear("transfers")>> \o serverpush_setup
     \o <<Add("multi_handle", "easy"), Unless("easy", <<Counted("transfers")>>)>>
     \o PushOptions("multi_handle")
     \o <<Until({"easy", "pushed", "transfers"},
            <<DriveCalling("multi_handle", <<serverpush_callback>>), May(<<Break>>),
              done("easy"), done("pushed")>>),
          MultiCleanup("multi_handle")>>

upload_setup(hnd, out, in) ==
  <<Clear(hnd), New(out), Unless(out, <<Return>>), May(<<Close(out), Return>>),
    New(in), Unless(in, <<Close(out), Return>>), Easy(hnd),
    Set(hnd, "WRITEDATA", out), Set(hnd, "READDATA", in),
    Offsets(hnd, {"INFILESIZE_LARGE"}), Strings(hnd, {"URL"}),
    Longs(hnd, {"UPLOAD", "VERBOSE", "HTTP_VERSION", "SSL_VERIFYPEER", "SSL_VERIFYHOST",
      "PIPEWAIT"}), Add("multi_handle", hnd)>>

\* The multi handle is cleaned up before the easy handles are removed from it.
http2_upload ==
  <<Multi("multi_handle")>>
  \o upload_setup("hnd1", "out1", "in1") \o upload_setup("hnd2", "out2", "in2")
  \o <<MultiLongs("multi_handle", {"PIPELINING", "MAX_HOST_CONNECTIONS"}), Repeat(<<Drive("multi_handle"), May(<<Break>>)>>), MultiCleanup("multi_handle"),
       Remove("multi_handle", "hnd1"), Cleanup("hnd1"),
       Remove("multi_handle", "hnd2"), Cleanup("hnd2")>>

imap_multi ==
  <<GlobalInit, Easy("curl"), Unless("curl", <<Return>>), Multi("mcurl"),
    Unless("mcurl", <<Return>>), Login({}), Add("mcurl", "curl"),
    Repeat(<<Drive("mcurl"), May(<<Break>>)>>), Remove("mcurl", "curl"),
    MultiCleanup("mcurl"), Cleanup("curl"), GlobalCleanup>>

multi_app ==
  <<Easy("http"), Easy("ftp"), Strings("http", {"URL"}), Strings("ftp", {"URL"}),
    Longs("ftp", {"UPLOAD"}), Multi("multi_handle"), Add("multi_handle", "http"),
    Add("multi_handle", "ftp"), Loop(<<Drive("multi_handle"), May(<<Break>>)>>),
    Remove("multi_handle", "http"), Cleanup("http"),
    Remove("multi_handle", "ftp"), Cleanup("ftp"), MultiCleanup("multi_handle")>>

multi_debugcallback ==
  <<Easy("http_handle"), Strings("http_handle", {"URL"}),
    Longs("http_handle", {"VERBOSE"}), Multi("multi_handle"),
    Add("multi_handle", "http_handle"), Repeat(<<Drive("multi_handle"), May(<<Break>>)>>),
    MultiCleanup("multi_handle"), Cleanup("http_handle")>>

multi_double ==
  <<Easy("http_handle"), Easy("http_handle2"), Strings("http_handle", {"URL"}),
    Strings("http_handle2", {"URL"}), Multi("multi_handle"),
    Add("multi_handle", "http_handle"), Add("multi_handle", "http_handle2"),
    Loop(<<Drive("multi_handle"), May(<<Break>>)>>),
    Remove("multi_handle", "http_handle"), Remove("multi_handle", "http_handle2"),
    MultiCleanup("multi_handle"), Cleanup("http_handle"), Cleanup("http_handle2")>>

multi_formadd ==
  <<New("formpost"), Easy("curl"), Multi("multi_handle"), New("headerlist"),
    If("curl", <<If("multi_handle", <<Strings("curl", {"URL"}), Longs("curl", {"VERBOSE"}),
      Set("curl", "HTTPHEADER", "headerlist"), Set("curl", "HTTPPOST", "formpost"),
      Add("multi_handle", "curl"), Repeat(<<Drive("multi_handle"), May(<<Break>>)>>),
      MultiCleanup("multi_handle"), Cleanup("curl"), Free("formpost"),
      Free("headerlist")>>)>>)>>

multi_legacy ==
  <<Easy("http"), Easy("ftp"), Strings("http", {"URL"}), Strings("ftp", {"URL"}),
    Longs("ftp", {"UPLOAD"}), Multi("multi_handle"), Add("multi_handle", "http"),
    Add("multi_handle", "ftp"), Drive("multi_handle"),
    Loop(<<May(<<Break>>), May(<<Drive("multi_handle")>>)>>),
    MultiCleanup("multi_handle"), Cleanup("http"), Cleanup("ftp")>>

multi_post ==
  <<Easy("curl"), Multi("multi_handle"),
    If("curl", <<If("multi_handle", <<New("form"), New("headerlist"),
      Strings("curl", {"URL"}), Longs("curl", {"VERBOSE"}),
      Set("curl", "HTTPHEADER", "headerlist"), Set("curl", "MIMEPOST", "form"),
      Add("multi_handle", "curl"), Repeat(<<Drive("multi_handle"), May(<<Break>>)>>),
      MultiCleanup("multi_handle"), Cleanup("curl"), Free("form"),
      Free("headerlist")>>)>>)>>

\* The easy handle is cleaned up first.
multi_single_CleanupFirst ==
  <<GlobalInit, Easy("http_handle"), Strings("http_handle", {"URL"}),
    Multi("multi_handle"), Add("multi_handle", "http_handle"),
    Repeat(<<Drive("multi_handle"), May(<<Break>>)>>), Cleanup("http_handle"),
    Remove("multi_handle", "http_handle"), MultiCleanup("multi_handle"), GlobalCleanup>>

multi_single ==
  <<GlobalInit, Easy("http_handle"), Strings("http_handle", {"URL"}),
    Multi("multi_handle"), Add("multi_handle", "http_handle"),
    Repeat(<<Drive("multi_handle"), May(<<Break>>)>>),
    Remove("multi_handle", "http_handle"), Cleanup("http_handle"),
    MultiCleanup("multi_handle"), GlobalCleanup>>

pull_one_url(curl) ==
  <<Easy(curl), Args(curl, {"URL"}, Pointer("void")), Do(curl), Cleanup(curl)>>

multithread ==
  <<GlobalInit, Spawn("tid1", pull_one_url("curl1")), Spawn("tid2", pull_one_url("curl2")),
    Join("tid1"), Join("tid2"), GlobalCleanup>>

pop3_multi ==
  <<GlobalInit, Easy("curl"), Unless("curl", <<Return>>), Multi("mcurl"),
    Unless("mcurl", <<Return>>), Login({}), Add("mcurl", "curl"),
    Repeat(<<Drive("mcurl"), May(<<Break>>)>>), Remove("mcurl", "curl"),
    MultiCleanup("mcurl"), Cleanup("curl"), GlobalCleanup>>

run_one(curl, outfile) ==
  <<New(outfile), Easy(curl),
    If(curl, <<Strings(curl, {"URL"}), Set(curl, "WRITEDATA", outfile), Do(curl),
      Close(outfile), Cleanup(curl)>>)>>

\* http is a variable of the whole program; the mutex protects j only.
pull_urls(curl, outfile) ==
  <<Loop(<<New("http"), If("http", run_one(curl, outfile) \o <<Free("http")>>)>>)>>

create_thread ==
  <<Spawn("tid1", pull_urls("curl1", "outfile1")), Spawn("tid2", pull_urls("curl2", "outfile2")),
    Join("tid1"), Join("tid2")>>

smooth_gtk_thread == <<GlobalInit, Spawn("thread", create_thread), GtkMain>>

smtp_multi ==
  <<GlobalInit, Easy("curl"), Unless("curl", <<Return>>), Multi("mcurl"),
    Unless("mcurl", <<Return>>), Strings("curl", {"URL", "MAIL_FROM"}), New("recipients"),
    Set("curl", "MAIL_RCPT", "recipients"), Longs("curl", {"UPLOAD"}),
    Add("mcurl", "curl"), Repeat(<<Drive("mcurl"), May(<<Break>>)>>), Free("recipients"),
    Remove("mcurl", "curl"), MultiCleanup("mcurl"), Cleanup("curl"), GlobalCleanup>>

pull_one_ssl_url(curl) ==
  <<Easy(curl), Args(curl, {"URL"}, Pointer("void")),
    Longs(curl, {"SSL_VERIFYPEER", "SSL_VERIFYHOST"}), Do(curl), Cleanup(curl)>>

threaded_ssl ==
  <<GlobalInit, Spawn("tid1", pull_one_ssl_url("curl1")),
    Spawn("tid2", pull_one_ssl_url("curl2")), Join("tid1"), Join("tid2")>>
=============================================================================
