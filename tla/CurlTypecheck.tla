--------------------------- MODULE CurlTypecheck ---------------------------
(***************************************************************************)
(* The checks of typecheck-gcc.h: curl_easy_setopt and curl_easy_getinfo   *)
(* are variadic, so a compiler converts nothing and warns of nothing; with *)
(* gcc these macros look at the type of the argument and call a function   *)
(* whose only purpose is the warning attached to it.  A check is a         *)
(* predicate of the option and of the C type of the argument, on a data    *)
(* model; libcurl's side is what curl.h and multi.h say an option takes.   *)
(* curl_multi_setopt has a macro too, which only counts the arguments.     *)
(*                                                                         *)
(* A C type is [kind, of]: a value, a pointer, a const pointer or an array *)
(* of a base type, or a function of a signature.  CURL and CURLSH are void *)
(* (curl.h), NULL is a pointer to void.                                    *)
(***************************************************************************)
EXTENDS CurlOptions, Sequences

Value(t)    == [kind |-> "value", of |-> t]
Pointer(t)  == [kind |-> "pointer", of |-> t]
Constant(t) == [kind |-> "const pointer", of |-> t]
Array(t)    == [kind |-> "array", of |-> t]
Function(t) == [kind |-> "function", of |-> t]

\* The data models of the platforms gcc is used on: Unix with 32 and with 64 bits, and
\* Windows with 64.
Models == {"ILP32", "LP64", "LLP64"}

\* CURL_TYPEOF_CURL_OFF_T for gcc: MinGW, ILP32 and LP64.
curl_off_t(model) == IF model = "LP64" THEN "long" ELSE "long long"

LongSize(model)    == IF model = "LP64" THEN 8 ELSE 4
PointerSize(model) == IF model = "ILP32" THEN 4 ELSE 8

\* sizeof, of an array with 100 elements.  An expression that names a function is
\* taken for the pointer it decays to.
SizeOf(arg, model) ==
  CASE arg.kind = "array"                                -> 100
    [] arg.kind # "array" /\ arg.kind # "value"          -> PointerSize(model)
    [] arg.of = "short"                                  -> 2
    [] arg.of = "int"                                    -> 4
    [] arg.of \in {"long", "unsigned long"}              -> LongSize(model)
    [] arg.of \in {"long long", "double"}                -> 8

-----------------------------------------------------------------------------
(* Groups of options that take the same type of argument. *)

curlcheck_long_option(option) ==
  0 < Options[option].na /\ Options[option].na < CURLOPTTYPE.OBJECTPOINT

\* Without the end of the range: options with a blob were taken for numbers.
curlcheck_off_t_option_Open(option) == CURLOPTTYPE.OFF_T < Options[option].na

curlcheck_off_t_option(option) ==
  CURLOPTTYPE.OFF_T < Options[option].na /\ Options[option].na < CURLOPTTYPE.BLOB

curlcheck_curl_option(option) == option \in {"STREAM_DEPENDS", "STREAM_DEPENDS_E"}

curlcheck_string_option(option) == option \in
  {"ABSTRACT_UNIX_SOCKET", "ACCEPT_ENCODING", "ALTSVC", "CAINFO", "CAPATH", "COOKIE",
   "COOKIEFILE", "COOKIEJAR", "COOKIELIST", "CRLFILE", "CUSTOMREQUEST", "DEFAULT_PROTOCOL",
   "DNS_INTERFACE", "DNS_LOCAL_IP4", "DNS_LOCAL_IP6", "DNS_SERVERS", "DOH_URL", "ECH",
   "EGDSOCKET", "FTP_ACCOUNT", "FTP_ALTERNATIVE_TO_USER", "FTPPORT", "HAPROXY_CLIENT_IP",
   "HSTS", "INTERFACE", "ISSUERCERT", "KEYPASSWD", "KRBLEVEL", "LOGIN_OPTIONS",
   "MAIL_AUTH", "MAIL_FROM", "NETRC_FILE", "NOPROXY", "PASSWORD", "PINNEDPUBLICKEY",
   "PRE_PROXY", "PROTOCOLS_STR", "PROXY", "PROXY_CAINFO", "PROXY_CAPATH", "PROXY_CRLFILE",
   "PROXY_ISSUERCERT", "PROXY_KEYPASSWD", "PROXY_PINNEDPUBLICKEY", "PROXY_SERVICE_NAME",
   "PROXY_SSL_CIPHER_LIST", "PROXY_SSLCERT", "PROXY_SSLCERTTYPE", "PROXY_SSLKEY",
   "PROXY_SSLKEYTYPE", "PROXY_TLS13_CIPHERS", "PROXY_TLSAUTH_PASSWORD",
   "PROXY_TLSAUTH_TYPE", "PROXY_TLSAUTH_USERNAME", "PROXYPASSWORD", "PROXYUSERNAME",
   "PROXYUSERPWD", "RANDOM_FILE", "RANGE", "REDIR_PROTOCOLS_STR", "REFERER",
   "REQUEST_TARGET", "RTSP_SESSION_ID", "RTSP_STREAM_URI", "RTSP_TRANSPORT",
   "SASL_AUTHZID", "SERVICE_NAME", "SOCKS5_GSSAPI_SERVICE", "SSH_HOST_PUBLIC_KEY_MD5",
   "SSH_HOST_PUBLIC_KEY_SHA256", "SSH_KNOWNHOSTS", "SSH_PRIVATE_KEYFILE",
   "SSH_PUBLIC_KEYFILE", "SSLCERT", "SSLCERTTYPE", "SSLENGINE", "SSLKEY", "SSLKEYTYPE",
   "SSL_CIPHER_LIST", "SSL_EC_CURVES", "SSL_SIGNATURE_ALGORITHMS", "TLS13_CIPHERS",
   "TLSAUTH_PASSWORD", "TLSAUTH_TYPE", "TLSAUTH_USERNAME", "UNIX_SOCKET_PATH", "URL",
   "USERAGENT", "USERNAME", "AWS_SIGV4", "USERPWD", "XOAUTH2_BEARER"}

curlcheck_cb_data_option(option) == option \in
  {"CHUNK_DATA", "CLOSESOCKETDATA", "DEBUGDATA", "FNMATCH_DATA", "HEADERDATA",
   "HSTSREADDATA", "HSTSWRITEDATA", "INTERLEAVEDATA", "IOCTLDATA", "OPENSOCKETDATA",
   "PREREQDATA", "XFERINFODATA", "READDATA", "SEEKDATA", "SOCKOPTDATA", "SSH_KEYDATA",
   "SSL_CTX_DATA", "WRITEDATA", "RESOLVER_START_DATA", "TRAILERDATA", "SSH_HOSTKEYDATA"}

curlcheck_postfields_option(option) == option \in {"POSTFIELDS", "COPYPOSTFIELDS"}

curlcheck_slist_option(option) == option \in
  {"HTTP200ALIASES", "HTTPHEADER", "MAIL_RCPT", "POSTQUOTE", "PREQUOTE", "PROXYHEADER",
   "QUOTE", "RESOLVE", "TELNETOPTIONS", "CONNECT_TO"}

-----------------------------------------------------------------------------
(* Whether an expression has the type. *)

curlcheck_any_ptr(arg, model) == SizeOf(arg, model) = PointerSize(model)

curlcheck_NULL(arg) == arg = Pointer("void")

curlcheck_ptr(arg, t) == curlcheck_NULL(arg) \/ arg \in {Pointer(t), Constant(t)}

curlcheck_arr(arg, t) == curlcheck_ptr(arg, t) \/ arg = Array(t)

curlcheck_string(arg) == \E t \in {"char", "signed char", "unsigned char"} : curlcheck_arr(arg, t)

curlcheck_long(arg, model) ==
  \/ LongSize(model) # 4 /\ arg \in {Value("long"), Value("unsigned long")}
  \/ LongSize(model) = 4 /\ arg \in {Value(t) : t \in {"long", "unsigned long", "int", "short"}}

curlcheck_off_t(arg, model) == arg = Value(curl_off_t(model))

curlcheck_error_buffer(arg) == curlcheck_NULL(arg) \/ arg \in {Pointer("char"), Array("char")}

curlcheck_cb_data(arg, model) == curlcheck_any_ptr(arg, model)

curlcheck_FILE(arg) == curlcheck_NULL(arg) \/ arg = Pointer("FILE")

curlcheck_postfields(arg) ==
  curlcheck_ptr(arg, "void") \/ curlcheck_arr(arg, "char") \/ curlcheck_arr(arg, "unsigned char")

\* The signature each callback check asks for.  The check of a write callback takes a
\* read callback too: only const tells their parameters apart.
Signatures ==
  [RESOLVER_START_FUNCTION |-> {"resolver_start"}, READFUNCTION |-> {"read"},
   HEADERFUNCTION |-> {"read", "write"}, WRITEFUNCTION |-> {"read", "write"},
   IOCTLFUNCTION |-> {"ioctl"}, SOCKOPTFUNCTION |-> {"sockopt"},
   OPENSOCKETFUNCTION |-> {"opensocket"}, PROGRESSFUNCTION |-> {"progress"},
   XFERINFOFUNCTION |-> {"xferinfo"}, DEBUGFUNCTION |-> {"debug"},
   SSL_CTX_FUNCTION |-> {"ssl_ctx"}, CONV_TO_NETWORK_FUNCTION |-> {"conv"},
   CONV_FROM_NETWORK_FUNCTION |-> {"conv"}, CONV_FROM_UTF8_FUNCTION |-> {"conv"},
   SEEKFUNCTION |-> {"seek"}, CHUNK_BGN_FUNCTION |-> {"chunk_bgn"},
   CHUNK_END_FUNCTION |-> {"chunk_end"}, CLOSESOCKETFUNCTION |-> {"closesocket"},
   FNMATCH_FUNCTION |-> {"fnmatch"}, HSTSREADFUNCTION |-> {"hstsread"},
   HSTSWRITEFUNCTION |-> {"hstswrite"}, SSH_HOSTKEYFUNCTION |-> {"sshhostkey"},
   SSH_KEYFUNCTION |-> {"sshkey"}, INTERLEAVEFUNCTION |-> {"read"},
   PREREQFUNCTION |-> {"prereq"}, TRAILERFUNCTION |-> {"trailer"}]

curlcheck_cb_compatible(option, arg) ==
  curlcheck_NULL(arg) \/ arg \in {Function(s) : s \in Signatures[option]}

-----------------------------------------------------------------------------
(* The macros: whether one of the warnings is raised. *)

SetoptWarns(option, arg, model) ==
  \/ curlcheck_long_option(option) /\ ~curlcheck_long(arg, model)
  \/ curlcheck_off_t_option(option) /\ ~curlcheck_off_t(arg, model)
  \/ curlcheck_string_option(option) /\ ~curlcheck_string(arg)
  \/ curlcheck_curl_option(option) /\ ~curlcheck_NULL(arg)
  \/ option \in DOMAIN Signatures /\ ~curlcheck_cb_compatible(option, arg)
  \/ curlcheck_cb_data_option(option) /\ ~curlcheck_cb_data(arg, model)
  \/ option = "ERRORBUFFER" /\ ~curlcheck_error_buffer(arg)
  \/ option = "CURLU" /\ ~curlcheck_ptr(arg, "CURLU")
  \/ option = "STDERR" /\ ~curlcheck_FILE(arg)
  \/ curlcheck_postfields_option(option) /\ ~curlcheck_postfields(arg)
  \/ option = "HTTPPOST" /\ ~curlcheck_arr(arg, "struct curl_httppost")
  \/ option = "MIMEPOST" /\ ~curlcheck_ptr(arg, "curl_mime")
  \/ curlcheck_slist_option(option) /\ ~curlcheck_arr(arg, "struct curl_slist")
  \/ option = "SHARE" /\ ~curlcheck_ptr(arg, "void")

\* For curl_easy_getinfo, arg points to a variable; its pointer types are written "t *".
GetinfoWarns(i, arg, model) ==
  \/ /\ CURLINFO.STRING < i.na /\ i.na < CURLINFO.LONG /\ i.info # "PRIVATE"
     /\ ~curlcheck_arr(arg, "char *")
  \/ CURLINFO.LONG < i.na /\ i.na < CURLINFO.DOUBLE /\ ~curlcheck_arr(arg, "long")
  \/ CURLINFO.DOUBLE < i.na /\ i.na < CURLINFO.SLIST /\ ~curlcheck_arr(arg, "double")
  \/ i.info \in {"SSL_ENGINES", "COOKIELIST"} /\ ~curlcheck_arr(arg, "struct curl_slist *")
  \/ /\ i.info \in {"TLS_SSL_PTR", "TLS_SESSION"}
     /\ ~curlcheck_arr(arg, "struct curl_tlssessioninfo *")
  \/ i.info = "CERTINFO" /\ ~curlcheck_arr(arg, "struct curl_certinfo *")
  \/ CURLINFO.SOCKET < i.na /\ i.na < CURLINFO.OFF_T /\ ~curlcheck_arr(arg, "curl_socket_t")
  \/ CURLINFO.OFF_T < i.na /\ ~curlcheck_arr(arg, curl_off_t(model))

-----------------------------------------------------------------------------
(* What libcurl takes from the argument list, by the declared type. *)

\* What the arguments declared as OBJECTPOINT point to.
PointsTo ==
  [ERRORBUFFER |-> {"char"}, POSTFIELDS |-> {"void", "char", "unsigned char"},
   COPYPOSTFIELDS |-> {"void", "char", "unsigned char"},
   HTTPPOST |-> {"struct curl_httppost"}, STDERR |-> {"FILE"}, SHARE |-> {"void"},
   STREAM_DEPENDS |-> {"void"}, STREAM_DEPENDS_E |-> {"void"},
   MIMEPOST |-> {"curl_mime"}, CURLU |-> {"CURLU"}, PRIVATE |-> {}]

\* An integer of so many bytes; a short is promoted to an int.
Integer(arg, size, model) ==
  /\ arg.kind = "value" /\ arg.of # "double"
  /\ SizeOf(arg, model) = size \/ (size = 4 /\ arg.of = "short")

\* The argument is passed the way va_arg reads it, and points to what it should.
SetoptReads(option, arg, model) ==
  LET t == Options[option].type
      PointerTo(S) == \/ curlcheck_NULL(arg)
                      \/ arg.kind \in {"pointer", "const pointer", "array"} /\ arg.of \in S
  IN CASE t \in {"LONG", "VALUES"} -> Integer(arg, LongSize(model), model)
       [] t = "OFF_T"              -> Integer(arg, 8, model)
       [] t = "STRINGPOINT"        -> PointerTo({"char", "signed char", "unsigned char"})
       [] t = "SLISTPOINT"         -> PointerTo({"struct curl_slist"})
       [] t = "CBPOINT"            -> arg.kind # "value"
       [] t = "BLOB"               -> PointerTo({"struct curl_blob"})
       [] t = "FUNCTIONPOINT"      -> curlcheck_NULL(arg) \/ arg.kind = "function"
       [] t = "OBJECTPOINT"        -> option = "PRIVATE" \/ PointerTo(PointsTo[option])

\* curl_multi_setopt
MultiSetoptReads(option, arg, model) ==
  LET t == MultiOptions[option].type
  IN CASE t = "LONG"          -> Integer(arg, LongSize(model), model)
       [] t = "OFF_T"         -> Integer(arg, 8, model)
       [] t = "FUNCTIONPOINT" -> curlcheck_NULL(arg) \/ arg.kind = "function"
       [] t = "OBJECTPOINT"   -> arg.kind # "value"

\* The variable getinfo stores a value in.
StoredIn(i, model) ==
  CASE i.type = "STRING" -> "char *"
    [] i.type = "LONG"   -> "long"
    [] i.type = "DOUBLE" -> "double"
    [] i.type = "SOCKET" -> "curl_socket_t"
    [] i.type = "OFF_T"  -> curl_off_t(model)
    [] i.type = "SLIST"  -> "struct curl_slist *"
    [] i.type = "PTR"    -> IF i.info = "CERTINFO" THEN "struct curl_certinfo *"
                            ELSE "struct curl_tlssessioninfo *"

\* Arguments that are of the declared type beyond dispute.
Declared(option, model) ==
  LET t == Options[option].type
  IN CASE t \in {"LONG", "VALUES"} -> {Value("long")}
       [] t = "OFF_T"              -> {Value(curl_off_t(model))}
       [] t = "STRINGPOINT"        -> {Pointer("char"), Constant("char"), Array("char")}
       [] t = "SLISTPOINT"         -> {Pointer("struct curl_slist")}
       [] t = "CBPOINT"            -> {Pointer("void"), Pointer("FILE"), Constant("void")}
       [] t = "BLOB"               -> {Pointer("struct curl_blob")}
       [] t = "FUNCTIONPOINT"      -> {Pointer("void")}
       [] t = "OBJECTPOINT"        -> {Pointer(x) : x \in PointsTo[option]}

\* The options whose argument is not checked, or by its size alone: a CBPOINT takes
\* any pointer, and curlcheck_any_ptr cannot tell one from a number as wide.
Unchecked(option) == option = "PRIVATE" \/ Options[option].type \in {"BLOB", "CBPOINT"}
=============================================================================
