---------------------------- MODULE ExampleEasy ----------------------------
(***************************************************************************)
(* The example programs that use an easy handle.  A definition with the    *)
(* name of a program is its main function; a helper function or callback   *)
(* that handles resources has a definition of its own.  Options that only  *)
(* some builds set are set.                                                *)
(***************************************************************************)
EXTENDS ExampleSteps

address_scope == Single(<<Strings("curl", {"URL"}), Longs("curl", {"ADDRESS_SCOPE"})>>)
altsvc == Single(<<Strings("curl", {"URL", "ALTSVC"}), Longs("curl", {"ALTSVC_CTRL"})>>)

anyauthput ==
  <<May(<<Return>>), New("fp"), Unless("fp", <<Return>>), GlobalInit, Easy("curl"),
    If("curl", <<Set("curl", "READDATA", "fp"), Set("curl", "SEEKDATA", "fp"),
      Longs("curl", {"UPLOAD", "HTTPAUTH"}), Strings("curl", {"URL", "USERPWD"}),
      Offsets("curl", {"INFILESIZE_LARGE"}), Do("curl"), Cleanup("curl")>>), Close("fp"),
    GlobalCleanup>>

\* filter->list after one more entry: a failure returns NULL, whatever the list was.
ip_list_append ==
  Call(<<New("ip"), Unless("ip", <<Clear("list"), Return>>),
    New("str"), Unless("str", <<Free("ip"), Clear("list"), Return>>),
    May(<<Free("str"), Free("ip"), Clear("list"), Return>>),
    IfElse("list", <<Give("ip"), Give("str")>>,
      <<Hold("list"), Give("ip"), Give("str")>>)>>)

block_ip ==
  <<New("filter"), Unless("filter", <<Return>>), Clear("list"),
    GlobalInit, Unless("libcurl", <<Free("filter"), Return>>),
    Easy("curl"), Unless("curl", <<GlobalCleanup, Free("filter"), Return>>),
    Strings("curl", {"URL"}), ip_list_append, ip_list_append, ip_list_append,
    Set("curl", "OPENSOCKETDATA", "filter"), Longs("curl", {"VERBOSE"}),
    Do("curl"), Cleanup("curl"), Free("list"), Free("filter"), GlobalCleanup>>

\* Without a certificate store the BIO is not freed.
cacertinmem_sslctx_function ==
  Call(<<New("cbio"), Unless("cbio", <<Return>>), May(<<Return>>),
    New("inf"), Unless("inf", <<Free("cbio"), Return>>), Free("inf"), Free("cbio")>>)

cacertinmem ==
  <<GlobalInit, Easy("ch"),
    Longs("ch", {"VERBOSE", "HEADER", "NOPROGRESS", "NOSIGNAL", "SSL_VERIFYPEER"}),
    Strings("ch", {"SSLCERTTYPE", "URL", "CAINFO", "CAPATH"}), Do("ch"),
    Longs("ch", {"FRESH_CONNECT"}), DoCalling("ch", <<cacertinmem_sslctx_function>>),
    Cleanup("ch"), GlobalCleanup>>

certinfo ==
  <<GlobalInit, Easy("curl"),
    If("curl", <<Strings("curl", {"URL"}),
      Longs("curl", {"SSL_VERIFYPEER", "SSL_VERIFYHOST", "VERBOSE", "CERTINFO"}),
      Do("curl"), May(<<Gets("curl", {"CERTINFO"}, "struct curl_certinfo *")>>),
      Cleanup("curl")>>), GlobalCleanup>>

chkspeed ==
  <<May(<<Return>>), GlobalInit, Easy("curl_handle"),
    Strings("curl_handle", {"URL", "USERAGENT"}), Do("curl_handle"),
    May(<<Gets("curl_handle", {"SIZE_DOWNLOAD_T", "TOTAL_TIME_T", "SPEED_DOWNLOAD_T",
        "NAMELOOKUP_TIME_T", "CONNECT_TIME_T"}, "curl_off_t")>>),
    Cleanup("curl_handle"), GlobalCleanup>>

\* The list is freed as soon as the option is set, as could be done with a string.
connect_to_FreesEarly ==
  <<New("host"), Easy("curl"),
    If("curl", <<Set("curl", "CONNECT_TO", "host"), Free("host"),
      Longs("curl", {"VERBOSE", "SSL_VERIFYHOST"}), Strings("curl", {"URL"}), Do("curl"),
      Cleanup("curl")>>)>>

connect_to ==
  <<New("host"), Easy("curl"),
    If("curl", <<Set("curl", "CONNECT_TO", "host"),
      Longs("curl", {"VERBOSE", "SSL_VERIFYHOST"}), Strings("curl", {"URL"}), Do("curl"),
      Cleanup("curl")>>), Free("host")>>

print_cookies ==
  Call(<<Gets("curl", {"COOKIELIST"}, "struct curl_slist *"), May(<<Return>>),
    New("cookies"), Free("cookies")>>)

cookie_interface ==
  <<GlobalInit, Easy("curl"), Unless("curl", <<Return>>),
    Strings("curl", {"URL", "COOKIEFILE"}), Longs("curl", {"VERBOSE"}),
    Do("curl"), May(<<Return>>), print_cookies,
    Strings("curl", {"COOKIELIST"}), print_cookies,
    Strings("curl", {"COOKIELIST"}), May(<<Return>>),
    Strings("curl", {"COOKIELIST"}), May(<<Return>>), print_cookies,
    Do("curl"), May(<<Return>>), Cleanup("curl"), GlobalCleanup>>

debug ==
  Single(<<Longs("curl", {"VERBOSE", "FOLLOWLOCATION"}), Strings("curl", {"URL"})>>)

default_scheme ==
  Single(<<Strings("curl", {"URL", "DEFAULT_PROTOCOL"}), Longs("curl", {"VERBOSE"})>>)

externalsocket ==
  <<Easy("curl"),
    If("curl", <<Strings("curl", {"URL"}), New("sockfd"), Unless("sockfd", <<Return>>),
      May(<<Close("sockfd"), Return>>), Longs("curl", {"NOPROGRESS", "VERBOSE"}),
      Set("curl", "OPENSOCKETDATA", "sockfd"), Do("curl"), Cleanup("curl"),
      Close("sockfd")>>)>>

\* The file stays open when its size is not to be had.
fileupload_NoClose ==
  <<New("fd"), Unless("fd", <<Return>>), May(<<Return>>), Easy("curl"),
    If("curl", <<Set("curl", "READDATA", "fd"), Do("curl"), Cleanup("curl")>>), Close("fd")>>

fileupload ==
  <<New("fd"), Unless("fd", <<Return>>), May(<<Close("fd"), Return>>), Easy("curl"),
    If("curl", <<Strings("curl", {"URL"}), Longs("curl", {"UPLOAD", "VERBOSE"}),
      Set("curl", "READDATA", "fd"), Offsets("curl", {"INFILESIZE_LARGE"}), Do("curl"),
      May(<<Gets("curl", {"SPEED_UPLOAD_T"}, "curl_off_t"),
        Gets("curl", {"TOTAL_TIME_T"}, "curl_off_t")>>), Cleanup("curl")>>), Close("fd")>>

\* The callbacks of one file of the list: begin, data, end.
wildcard_file ==
  Call(<<May(<<New("output"), Unless("output", <<Return>>)>>),
    Loop(<<If("output", <<Use("output")>>)>>),
    If("output", <<Close("output"), Clear("output")>>)>>)

ftp_wildcard ==
  <<Clear("output"), GlobalInit, Unless("libcurl", <<Return>>),
    Easy("handle"), Unless("handle", <<GlobalCleanup, Return>>),
    Longs("handle", {"WILDCARDMATCH"}), Strings("handle", {"URL"}),
    DoCalling("handle", <<wildcard_file>>), Cleanup("handle"), GlobalCleanup>>

\* The file is opened when the first data arrives; ftpsget and sftpget do the same.
my_fwrite ==
  Call(<<Unless("stream", <<New("stream"), Unless("stream", <<Return>>)>>), Use("stream")>>)

ftpget ==
  <<Clear("stream"), GlobalInit, Easy("curl"),
    If("curl", <<Strings("curl", {"URL"}), Longs("curl", {"VERBOSE"}),
      DoCalling("curl", <<my_fwrite>>), Cleanup("curl")>>),
    If("stream", <<Close("stream")>>), GlobalCleanup>>

ftpgetinfo ==
  <<GlobalInit, Easy("curl"),
    If("curl", <<Strings("curl", {"URL"}),
      Longs("curl", {"NOBODY", "FILETIME", "HEADER"}), Do("curl"),
      May(<<Gets("curl", {"FILETIME"}, "long"),
        Gets("curl", {"CONTENT_LENGTH_DOWNLOAD_T"}, "curl_off_t")>>), Cleanup("curl")>>),
    GlobalCleanup>>

ftpgetresp ==
  <<New("ftpfile"), Unless("ftpfile", <<Return>>), New("respfile"),
    Unless("respfile", <<Close("ftpfile"), Return>>), Easy("curl"),
    If("curl", <<Strings("curl", {"URL"}), Set("curl", "WRITEDATA", "ftpfile"),
      Set("curl", "HEADERDATA", "respfile"), Do("curl"), Cleanup("curl")>>),
    Close("ftpfile"), Close("respfile")>>

ftpsget ==
  <<Clear("stream"), GlobalInit, Easy("curl"),
    If("curl", <<Strings("curl", {"URL"}), Longs("curl", {"USE_SSL", "VERBOSE"}),
      DoCalling("curl", <<my_fwrite>>), Cleanup("curl")>>),
    If("stream", <<Close("stream")>>), GlobalCleanup>>

ftpupload ==
  <<May(<<Return>>), New("hd_src"), Unless("hd_src", <<Return>>), GlobalInit,
    Easy("curl"),
    If("curl", <<New("headerlist"), Longs("curl", {"UPLOAD"}), Strings("curl", {"URL"}),
      Set("curl", "POSTQUOTE", "headerlist"), Set("curl", "READDATA", "hd_src"),
      Offsets("curl", {"INFILESIZE_LARGE"}), Do("curl"), Free("headerlist"),
      Cleanup("curl")>>), Close("hd_src"), GlobalCleanup>>

ftpuploadfrommem ==
  <<GlobalInit, Unless("libcurl", <<Return>>), Easy("curl"),
    If("curl", <<Strings("curl", {"URL", "USERPWD"}),
      Longs("curl", {"UPLOAD", "VERBOSE"}), Offsets("curl", {"INFILESIZE_LARGE"}),
      Do("curl"), Cleanup("curl")>>), GlobalCleanup>>

\* Every attempt after the first asks for the size of the remote file.
upload ==
  Call(<<New("f"), Unless("f", <<Return>>),
    Longs("curlhandle", {"UPLOAD", "SERVER_RESPONSE_TIMEOUT", "ACCEPTTIMEOUT_MS",
      "FTP_CREATE_MISSING_DIRS", "VERBOSE"}), Strings("curlhandle", {"URL", "FTPPORT"}),
    Set("curlhandle", "READDATA", "f"), Longs("curlhandle", {"APPEND"}), Do("curlhandle"),
    Loop(<<Longs("curlhandle", {"NOBODY", "HEADER"}), Do("curlhandle"),
      May(<<Longs("curlhandle", {"NOBODY", "HEADER", "APPEND"}), Do("curlhandle")>>)>>),
    Close("f")>>)

ftpuploadresume ==
  <<GlobalInit, Easy("curlhandle"), upload, Cleanup("curlhandle"), GlobalCleanup>>

getinfo ==
  <<Easy("curl"),
    If("curl", <<Strings("curl", {"URL"}), Do("curl"),
      May(<<Gets("curl", {"CONTENT_TYPE"}, "char *")>>), Cleanup("curl")>>)>>

\* realloc leaves a block it cannot enlarge as it is, and allocates one for NULL;
\* postinmemory has the same callback.
WriteMemoryCallback == Unless("memory", <<New("memory")>>)

getinmemory ==
  <<New("memory"), GlobalInit, Easy("curl_handle"),
    Strings("curl_handle", {"URL", "USERAGENT"}),
    DoCalling("curl_handle", <<WriteMemoryCallback>>),
    Cleanup("curl_handle"), Free("memory"), GlobalCleanup>>

getredirect ==
  <<Easy("curl"),
    If("curl", <<Strings("curl", {"URL"}), Do("curl"),
      May(<<Gets("curl", {"RESPONSE_CODE"}, "long"),
        May(<<Gets("curl", {"REDIRECT_URL"}, "char *")>>)>>), Cleanup("curl")>>)>>

getreferrer ==
  <<Easy("curl"),
    If("curl", <<Strings("curl", {"URL", "REFERER"}), Do("curl"),
      May(<<Gets("curl", {"REFERER"}, "char *")>>), Cleanup("curl")>>)>>

headerapi == Single(<<Strings("curl", {"URL"}), Longs("curl", {"FOLLOWLOCATION"})>>)

href_extractor ==
  <<May(<<Return>>), Easy("curl"), New("hsp"), Strings("curl", {"URL"}),
    Set("curl", "WRITEDATA", "hsp"), Longs("curl", {"FOLLOWLOCATION"}), Do("curl"),
    Cleanup("curl"), Free("hsp")>>

hsts_preload ==
  Single(<<Longs("curl", {"HSTS_CTRL", "VERBOSE"}), Strings("curl", {"URL"})>>)

htmltidy ==
  <<May(<<Easy("curl"), Strings("curl", {"URL", "ERRORBUFFER"}),
      Longs("curl", {"NOPROGRESS", "VERBOSE"}), New("tdoc"), Do("curl"), Cleanup("curl"),
      Free("tdoc")>>)>>

htmltitle_init ==
  <<Easy("conn"), Unless("conn", <<Return>>), Strings("conn", {"ERRORBUFFER", "URL"}),
    Longs("conn", {"FOLLOWLOCATION"}), May(<<Return>>)>>

htmltitle ==
  <<May(<<Return>>), GlobalInit>> \o htmltitle_init \o <<Do("conn"), Cleanup("conn")>>

http_options ==
  Single(<<Strings("curl", {"URL", "CUSTOMREQUEST", "REQUEST_TARGET"}),
    Longs("curl", {"QUICK_EXIT"})>>)

http_post == Initialised(Single(<<Strings("curl", {"URL", "POSTFIELDS"})>>))
http3_present == Initialised(<<>>)
http3 == Single(<<Strings("curl", {"URL"}), Longs("curl", {"HTTP_VERSION"})>>)

httpcustomheader ==
  <<Easy("curl"),
    If("curl", <<New("chunk"), Set("curl", "HTTPHEADER", "chunk"),
      Strings("curl", {"URL"}), Longs("curl", {"VERBOSE"}), Do("curl"), Cleanup("curl"),
      Free("chunk")>>)>>

httpput_postfields ==
  <<May(<<Return>>), GlobalInit, Easy("curl"),
    If("curl", <<New("headers"), Set("curl", "HTTPHEADER", "headers"),
      Strings("curl", {"POSTFIELDS", "CUSTOMREQUEST", "URL"}), Do("curl"),
      Cleanup("curl"), Free("headers")>>), GlobalCleanup>>

httpput ==
  <<May(<<Return>>), New("hd_src"), Unless("hd_src", <<Return>>), GlobalInit,
    Easy("curl"),
    If("curl", <<Longs("curl", {"UPLOAD"}), Strings("curl", {"URL"}),
      Set("curl", "READDATA", "hd_src"), Offsets("curl", {"INFILESIZE_LARGE"}),
      Do("curl"), Cleanup("curl")>>), Close("hd_src"), GlobalCleanup>>

https ==
  Initialised(Single(<<Strings("curl", {"URL"}),
    Longs("curl", {"SSL_VERIFYPEER", "SSL_VERIFYHOST", "CA_CACHE_TIMEOUT"})>>))

\* The size is an int, as the length of a string often is.
imap_append_IntSize ==
  Single(<<Login({}), Longs("curl", {"UPLOAD"}), Args("curl", {"INFILESIZE"}, Value("int"))>>)

imap_append == Single(<<Login({}), Longs("curl", {"UPLOAD", "INFILESIZE"})>>)

imap_authzid == Single(<<Login({"SASL_AUTHZID", "LOGIN_OPTIONS"})>>)
imap_copy == Single(<<Login({"CUSTOMREQUEST"})>>)
imap_create == Single(<<Login({"CUSTOMREQUEST"})>>)
imap_delete == Single(<<Login({"CUSTOMREQUEST"})>>)
imap_examine == Single(<<Login({"CUSTOMREQUEST"})>>)
imap_fetch == Single(<<Login({})>>)
imap_list == Single(<<Login({})>>)
imap_lsub == Single(<<Login({"CUSTOMREQUEST"})>>)
imap_noop == Single(<<Login({"CUSTOMREQUEST"})>>)
imap_search == Single(<<Login({"CUSTOMREQUEST"})>>)

imap_ssl ==
  Single(<<Login({}), Longs("curl", {"SSL_VERIFYPEER", "SSL_VERIFYHOST", "VERBOSE"})>>)

imap_store ==
  <<Easy("curl"),
    If("curl", <<Login({"CUSTOMREQUEST"}), Do("curl"),
      May(<<Strings("curl", {"CUSTOMREQUEST"}), Do("curl")>>), Cleanup("curl")>>)>>

imap_tls == Single(<<Login({"CAINFO"}), Longs("curl", {"USE_SSL", "VERBOSE"})>>)
interface == Single(<<Strings("curl", {"INTERFACE", "URL"})>>)
ipv6 == Single(<<Longs("curl", {"IPRESOLVE"}), Strings("curl", {"URL"})>>)

keepalive ==
  Single(<<Longs("curl", {"TCP_KEEPALIVE", "TCP_KEEPIDLE", "TCP_KEEPINTVL",
        "TCP_KEEPCNT"}), Strings("curl", {"URL"})>>)

localport ==
  Single(<<Longs("curl", {"LOCALPORT", "LOCALPORTRANGE"}), Strings("curl", {"URL"})>>)

maxconnects ==
  <<Easy("curl"),
    If("curl", <<Longs("curl", {"MAXCONNECTS", "VERBOSE"}),
      Loop(<<Strings("curl", {"URL"}), Do("curl")>>), Cleanup("curl")>>)>>

netrc == Single(<<Longs("curl", {"NETRC"}), Strings("curl", {"NETRC_FILE", "URL"})>>)

parseurl ==
  LET get(part) == May(<<Hold(part), Free(part)>>)
  IN <<New("h"), Unless("h", <<Return>>),
       Call(<<May(<<Return>>), get("host"), get("path"), May(<<Return>>), get("path")>>),
       Free("h")>>

persistent ==
  <<GlobalInit, Easy("curl"),
    If("curl", <<Longs("curl", {"VERBOSE", "HEADER"}), Strings("curl", {"URL"}),
      Do("curl"), Strings("curl", {"URL"}), Do("curl"), Cleanup("curl")>>)>>

pop3_authzid == Single(<<Login({"SASL_AUTHZID", "LOGIN_OPTIONS"})>>)
pop3_dele == Single(<<Login({"CUSTOMREQUEST"}), Longs("curl", {"NOBODY"})>>)
pop3_list == Single(<<Login({})>>)
pop3_noop == Single(<<Login({"CUSTOMREQUEST"}), Longs("curl", {"NOBODY"})>>)
pop3_retr == Single(<<Login({})>>)

pop3_ssl ==
  Single(<<Login({}), Longs("curl", {"SSL_VERIFYPEER", "SSL_VERIFYHOST", "VERBOSE"})>>)

pop3_stat == Single(<<Login({"CUSTOMREQUEST"}), Longs("curl", {"NOBODY"})>>)
pop3_tls == Single(<<Login({"CAINFO"}), Longs("curl", {"USE_SSL", "VERBOSE"})>>)
pop3_top == Single(<<Login({"CUSTOMREQUEST"})>>)
pop3_uidl == Single(<<Login({"CUSTOMREQUEST"})>>)

post_callback ==
  <<GlobalInit, Unless("libcurl", <<Return>>), Easy("curl"),
    If("curl", <<Strings("curl", {"URL"}), Longs("curl", {"POST", "VERBOSE",
      "POSTFIELDSIZE"}), Do("curl"), Cleanup("curl")>>), GlobalCleanup>>

postinmemory ==
  <<New("memory"), GlobalInit, Easy("curl"),
    If("curl", <<Strings("curl", {"URL", "USERAGENT", "POSTFIELDS"}),
      Longs("curl", {"POSTFIELDSIZE"}), DoCalling("curl", <<WriteMemoryCallback>>),
      Cleanup("curl")>>), Free("memory"), GlobalCleanup>>

postit2_formadd ==
  <<GlobalInit, New("formpost"), Easy("curl"), New("headerlist"),
    If("curl", <<Strings("curl", {"URL"}), May(<<Set("curl", "HTTPHEADER", "headerlist")>>),
      Set("curl", "HTTPPOST", "formpost"), Do("curl"), Cleanup("curl"),
      Free("formpost"), Free("headerlist")>>)>>

postit2 ==
  <<GlobalInit, Easy("curl"),
    If("curl", <<New("form"), New("headerlist"), Strings("curl", {"URL"}),
      May(<<Set("curl", "HTTPHEADER", "headerlist")>>), Set("curl", "MIMEPOST", "form"),
      Do("curl"), Cleanup("curl"), Free("form"), Free("headerlist")>>)>>

progressfunc ==
  <<Easy("curl"),
    If("curl", <<Strings("curl", {"URL"}), Longs("curl", {"NOPROGRESS"}),
      DoCalling("curl", <<Gets("curl", {"TOTAL_TIME_T"}, "curl_off_t")>>),
      Cleanup("curl")>>)>>

protofeats == Initialised(<<>>)
range == Single(<<Strings("curl", {"URL", "RANGE"})>>)

resolve ==
  <<New("host"), Easy("curl"),
    If("curl", <<Set("curl", "RESOLVE", "host"), Strings("curl", {"URL"}), Do("curl"),
      Cleanup("curl")>>), Free("host")>>

rtsp_options ==
  Single(<<Strings("curl", {"URL", "RTSP_SESSION_ID"}), Longs("curl", {"RTSP_REQUEST"})>>)

rtsp_request(strings) ==
  <<Strings("curl", strings), Longs("curl", {"RTSP_REQUEST"}), Do("curl")>>

\* Without the file the description goes to stdout.
rtsp_describe ==
  <<New("sdp_fp"), If("sdp_fp", <<Set("curl", "WRITEDATA", "sdp_fp")>>)>>
  \o rtsp_request({}) \o <<Reset("curl", "WRITEDATA"), If("sdp_fp", <<Close("sdp_fp")>>)>>

get_media_control_attribute ==
  <<New("s"), New("sdp_fp"), Use("control"),
    If("sdp_fp", <<Loop(<<Use("s"), Use("sdp_fp")>>), Close("sdp_fp")>>), Free("s")>>

rtsp ==
  <<May(<<New("uri"), New("sdp_filename"), New("control"), Use("sdp_filename"),
      GlobalInit,
      If("libcurl", <<Easy("curl"),
        If("curl", <<Longs("curl", {"VERBOSE", "NOPROGRESS"}), Strings("curl", {"URL"}),
            Use("uri")>>
          \o rtsp_request({"RTSP_STREAM_URI"}) \o rtsp_describe
          \o get_media_control_attribute
          \o rtsp_request({"RTSP_STREAM_URI", "RTSP_TRANSPORT"})
          \o rtsp_request({"RTSP_STREAM_URI", "RANGE"}) \o <<Strings("curl", {"RANGE"})>>
          \o rtsp_request({}) \o <<Cleanup("curl"), Clear("curl")>>), GlobalCleanup>>),
      Free("control"), Free("sdp_filename"), Free("uri")>>)>>

sampleconv == Single(<<Strings("curl", {"URL"})>>)

sendrecv ==
  <<Easy("curl"),
    If("curl", <<Strings("curl", {"URL"}), Longs("curl", {"CONNECT_ONLY"}),
      Do("curl"), May(<<Return>>),
      Gets("curl", {"ACTIVESOCKET"}, "curl_socket_t"), May(<<Return>>),
      Repeat(<<Repeat(<<Do("curl"), May(<<Return>>)>>), May(<<Return>>)>>),
      Loop(<<Repeat(<<Do("curl"), May(<<Return>>)>>)>>), Cleanup("curl")>>)>>

sepheaders ==
  <<GlobalInit, Easy("curl_handle"), Strings("curl_handle", {"URL"}),
    Longs("curl_handle", {"NOPROGRESS"}), New("headerfile"),
    Unless("headerfile", <<Cleanup("curl_handle"), Return>>), New("bodyfile"),
    Unless("bodyfile", <<Cleanup("curl_handle"), Close("headerfile"), Return>>),
    Set("curl_handle", "HEADERDATA", "headerfile"),
    Set("curl_handle", "WRITEDATA", "bodyfile"), Do("curl_handle"), Close("headerfile"),
    Close("bodyfile"), Cleanup("curl_handle")>>

sessioninfo_wrfu == Gets("curl", {"TLS_SESSION"}, "const struct curl_tlssessioninfo *")

sessioninfo ==
  <<GlobalInit, Easy("curl"),
    If("curl", <<Strings("curl", {"URL"}),
      Longs("curl", {"SSL_VERIFYPEER", "SSL_VERIFYHOST", "VERBOSE"}),
      DoCalling("curl", <<sessioninfo_wrfu>>), Cleanup("curl")>>), GlobalCleanup>>

sftpget ==
  <<Clear("stream"), GlobalInit, Easy("curl"),
    If("curl", <<Strings("curl", {"URL"}), Longs("curl", {"SSH_AUTH_TYPES", "VERBOSE"}),
      DoCalling("curl", <<my_fwrite>>), Cleanup("curl")>>),
    If("stream", <<Close("stream")>>), GlobalCleanup>>

sftpGetRemoteFileSize ==
  Call(<<Easy("curlHandlePtr"), Strings("curlHandlePtr", {"URL"}),
    Longs("curlHandlePtr", {"VERBOSE", "NOPROGRESS", "NOBODY", "HEADER", "FILETIME"}),
    Do("curlHandlePtr"),
    May(<<Gets("curlHandlePtr", {"CONTENT_LENGTH_DOWNLOAD_T"}, "curl_off_t"),
      May(<<Return>>)>>), Cleanup("curlHandlePtr")>>)

sftpResumeUpload ==
  Call(<<sftpGetRemoteFileSize, May(<<Return>>), New("f"), Unless("f", <<Return>>),
    Longs("curlhandle", {"UPLOAD", "APPEND"}), Strings("curlhandle", {"URL"}),
    Set("curlhandle", "READDATA", "f"), Do("curlhandle"), Close("f")>>)

sftpuploadresume ==
  <<GlobalInit, Easy("curlhandle"), sftpResumeUpload, Cleanup("curlhandle"), GlobalCleanup>>

shared_connection_cache ==
  <<New("share"),
    Loop(<<Easy("curl"),
      If("curl", <<Strings("curl", {"URL"}), Set("curl", "SHARE", "share"), Do("curl"),
        Cleanup("curl")>>)>>), Free("share")>>

simple == Single(<<Strings("curl", {"URL"}), Longs("curl", {"FOLLOWLOCATION"})>>)

simplepost ==
  Single(<<Strings("curl", {"URL", "POSTFIELDS"}), Longs("curl", {"POSTFIELDSIZE"})>>)

simplessl ==
  <<New("headerfile"), Unless("headerfile", <<Return>>), GlobalInit, Easy("curl"),
    If("curl", <<Strings("curl", {"URL"}), Set("curl", "HEADERDATA", "headerfile"),
      Call(<<May(<<Strings("curl", {"SSLENGINE"}), May(<<Return>>),
          Longs("curl", {"SSLENGINE_DEFAULT"}), May(<<Return>>)>>),
        Strings("curl", {"SSLCERTTYPE", "SSLCERT", "KEYPASSWD", "SSLKEYTYPE", "SSLKEY",
          "CAINFO"}), Longs("curl", {"SSL_VERIFYPEER"}), Do("curl")>>), Cleanup("curl")>>),
    GlobalCleanup, Close("headerfile")>>

smtp_authzid ==
  <<Easy("curl"),
    If("curl", <<Login({"SASL_AUTHZID", "LOGIN_OPTIONS", "MAIL_FROM"}), New("recipients"),
      Set("curl", "MAIL_RCPT", "recipients"), Longs("curl", {"UPLOAD"}), Do("curl"),
      Free("recipients"), Cleanup("curl")>>)>>

smtp_expn ==
  <<Easy("curl"),
    If("curl", <<Strings("curl", {"URL"}), New("recipients"),
      Set("curl", "MAIL_RCPT", "recipients"), Strings("curl", {"CUSTOMREQUEST"}),
      Do("curl"), Free("recipients"), Cleanup("curl")>>)>>

smtp_mail ==
  <<Easy("curl"),
    If("curl", <<Strings("curl", {"URL", "MAIL_FROM"}), New("recipients"),
      Set("curl", "MAIL_RCPT", "recipients"), Longs("curl", {"UPLOAD"}), Do("curl"),
      Free("recipients"), Cleanup("curl")>>)>>

\* Only a part that was created takes over its subparts and headers.
smtp_mime ==
  <<Easy("curl"),
    If("curl", <<Strings("curl", {"URL", "MAIL_FROM"}), New("recipients"),
      Set("curl", "MAIL_RCPT", "recipients"), Longs("curl", {"MAIL_RCPT_ALLOWFAILS"}),
      New("headers"), Set("curl", "HTTPHEADER", "headers"), New("mime"), New("alt"),
      If("mime", <<Give("alt")>>), New("slist"), If("mime", <<Give("slist")>>),
      Set("curl", "MIMEPOST", "mime"), Do("curl"), Free("recipients"), Free("headers"),
      Cleanup("curl"), Free("mime")>>)>>

smtp_ssl ==
  <<Easy("curl"),
    If("curl", <<Login({"MAIL_FROM"}),
      Longs("curl", {"SSL_VERIFYPEER", "SSL_VERIFYHOST"}), New("recipients"),
      Set("curl", "MAIL_RCPT", "recipients"), Longs("curl", {"UPLOAD", "VERBOSE"}),
      Do("curl"), Free("recipients"), Cleanup("curl")>>)>>

smtp_tls ==
  <<Easy("curl"),
    If("curl", <<Login({"CAINFO", "MAIL_FROM"}), Longs("curl", {"USE_SSL"}),
      New("recipients"), Set("curl", "MAIL_RCPT", "recipients"),
      Longs("curl", {"UPLOAD", "VERBOSE"}), Do("curl"), Free("recipients"),
      Cleanup("curl")>>)>>

smtp_vrfy ==
  <<Easy("curl"),
    If("curl", <<Strings("curl", {"URL"}), New("recipients"),
      Set("curl", "MAIL_RCPT", "recipients"), Do("curl"), Free("recipients"),
      Cleanup("curl")>>)>>

SyncTime_CURL_Init == Strings("curl", {"PROXY", "PROXYUSERPWD", "USERAGENT"})

SyncTime_CURL_Fetch ==
  <<Clear("outfile"),
    Either(<<Longs("curl", {"NOBODY"})>>,
      <<New("outfile"), Set("curl", "WRITEDATA", "outfile")>>),
    Strings("curl", {"URL"}), Do("curl"), If("outfile", <<Close("outfile")>>)>>

synctime ==
  <<May(<<Return>>), GlobalInit, Easy("curl"),
    If("curl", <<SyncTime_CURL_Init>> \o SyncTime_CURL_Fetch \o <<Cleanup("curl")>>)>>

unixsocket == Single(<<Strings("curl", {"URL", "ABSTRACT_UNIX_SOCKET"})>>)

url2file ==
  <<May(<<Return>>), GlobalInit, Easy("curl_handle"), Strings("curl_handle", {"URL"}),
    Longs("curl_handle", {"VERBOSE", "NOPROGRESS"}), New("pagefile"),
    If("pagefile", <<Set("curl_handle", "WRITEDATA", "pagefile"), Do("curl_handle"),
      Close("pagefile")>>), Cleanup("curl_handle"), GlobalCleanup>>

urlapi ==
  <<Easy("curl"), New("urlp"),
    Call(<<May(<<Return>>),
      If("curl", <<Set("curl", "CURLU", "urlp"), Longs("curl", {"VERBOSE"}),
        Strings("curl", {"PROTOCOLS_STR"}), Do("curl")>>)>>),
    Free("urlp"), Cleanup("curl")>>

usercertinmem_sslctx_function ==
  <<New("bio"), New("cert"), New("kbio"), New("rsa"), If("bio", <<Free("bio")>>),
    If("kbio", <<Free("kbio")>>), If("rsa", <<Free("rsa")>>), If("cert", <<Free("cert")>>)>>

usercertinmem ==
  <<GlobalInit, Easy("ch"),
    Longs("ch", {"VERBOSE", "HEADER", "NOPROGRESS", "NOSIGNAL", "SSL_VERIFYPEER",
      "SSL_VERIFYHOST"}), Strings("ch", {"SSLCERTTYPE", "URL", "SSLKEYTYPE"}), Do("ch"),
    DoCalling("ch", usercertinmem_sslctx_function), Cleanup("ch"), GlobalCleanup>>

websocket_cb == Single(<<Strings("curl", {"URL"}), Set("curl", "WRITEDATA", "curl")>>)

websocket_loop ==
  Call(<<Repeat(<<Do("curl"), Do("curl"), May(<<Return>>), Do("curl"), May(<<Return>>)>>),
    Do("curl")>>)

websocket ==
  <<Easy("curl"),
    If("curl", <<Strings("curl", {"URL"}), Longs("curl", {"CONNECT_ONLY"}), Do("curl"),
      May(<<websocket_loop>>), Cleanup("curl")>>)>>

startElement         == <<Free("characters"), Clear("characters")>>
characterDataHandler == <<Unless("characters", <<New("characters")>>)>>

xmlstream ==
  <<Clear("characters"), New("parser"), GlobalInit, Easy("curl_handle"),
    Strings("curl_handle", {"URL"}), Set("curl_handle", "WRITEDATA", "parser"),
    DoCalling("curl_handle", <<Either(startElement, characterDataHandler)>>),
    Free("characters"), Free("parser"), Cleanup("curl_handle"), GlobalCleanup>>
=============================================================================
