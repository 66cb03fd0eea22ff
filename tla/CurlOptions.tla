---------------------------- MODULE CurlOptions ----------------------------
(***************************************************************************)
(* The options of curl_easy_setopt and the infos of curl_easy_getinfo as   *)
(* curl.h declares them: the type of the argument libcurl takes from the   *)
(* variable argument list, and the number, whose range the type-checking   *)
(* macros of typecheck-gcc.h look at; the options of curl_multi_setopt, as *)
(* multi.h declares them.  Names are without CURLOPT_, CURLMOPT_ and       *)
(* CURLINFO_.                                                              *)
(***************************************************************************)
EXTENDS Integers, TLC

\* The first number of each type of option.  The other types are aliases "that make
\* no runtime difference".
CURLOPTTYPE ==
  [LONG |-> 0, VALUES |-> 0,
   OBJECTPOINT |-> 10000, STRINGPOINT |-> 10000, SLISTPOINT |-> 10000, CBPOINT |-> 10000,
   FUNCTIONPOINT |-> 20000, OFF_T |-> 30000, BLOB |-> 40000]

CURLOPT(t, nu) == [type |-> t, na |-> CURLOPTTYPE[t] + nu]

LONG(nu)          == CURLOPT("LONG", nu)
VALUES(nu)        == CURLOPT("VALUES", nu)
STRINGPOINT(nu)   == CURLOPT("STRINGPOINT", nu)
SLISTPOINT(nu)    == CURLOPT("SLISTPOINT", nu)
CBPOINT(nu)       == CURLOPT("CBPOINT", nu)
OBJECTPOINT(nu)   == CURLOPT("OBJECTPOINT", nu)
FUNCTIONPOINT(nu) == CURLOPT("FUNCTIONPOINT", nu)
OFF_T(nu)         == CURLOPT("OFF_T", nu)
BLOB(nu)          == CURLOPT("BLOB", nu)

OptionsA ==
  [WRITEDATA |-> CBPOINT(1), URL |-> STRINGPOINT(2), PORT |-> LONG(3),
   PROXY |-> STRINGPOINT(4), USERPWD |-> STRINGPOINT(5), PROXYUSERPWD |-> STRINGPOINT(6),
   RANGE |-> STRINGPOINT(7), READDATA |-> CBPOINT(9), ERRORBUFFER |-> OBJECTPOINT(10),
   WRITEFUNCTION |-> FUNCTIONPOINT(11), READFUNCTION |-> FUNCTIONPOINT(12),
   TIMEOUT |-> LONG(13), INFILESIZE |-> LONG(14), POSTFIELDS |-> OBJECTPOINT(15),
   REFERER |-> STRINGPOINT(16), FTPPORT |-> STRINGPOINT(17), USERAGENT |-> STRINGPOINT(18),
   LOW_SPEED_LIMIT |-> LONG(19), LOW_SPEED_TIME |-> LONG(20), RESUME_FROM |-> LONG(21),
   COOKIE |-> STRINGPOINT(22), HTTPHEADER |-> SLISTPOINT(23), HTTPPOST |-> OBJECTPOINT(24),
   SSLCERT |-> STRINGPOINT(25), KEYPASSWD |-> STRINGPOINT(26), CRLF |-> LONG(27),
   QUOTE |-> SLISTPOINT(28), HEADERDATA |-> CBPOINT(29), COOKIEFILE |-> STRINGPOINT(31),
   SSLVERSION |-> VALUES(32), TIMECONDITION |-> VALUES(33), TIMEVALUE |-> LONG(34),
   CUSTOMREQUEST |-> STRINGPOINT(36), STDERR |-> OBJECTPOINT(37),
   POSTQUOTE |-> SLISTPOINT(39), VERBOSE |-> LONG(41)]

OptionsB ==
  [HEADER |-> LONG(42), NOPROGRESS |-> LONG(43), NOBODY |-> LONG(44),
   FAILONERROR |-> LONG(45), UPLOAD |-> LONG(46), POST |-> LONG(47),
   DIRLISTONLY |-> LONG(48), APPEND |-> LONG(50), NETRC |-> VALUES(51),
   FOLLOWLOCATION |-> LONG(52), TRANSFERTEXT |-> LONG(53), PUT |-> LONG(54),
   PROGRESSFUNCTION |-> FUNCTIONPOINT(56), XFERINFODATA |-> CBPOINT(57),
   AUTOREFERER |-> LONG(58), PROXYPORT |-> LONG(59), POSTFIELDSIZE |-> LONG(60),
   HTTPPROXYTUNNEL |-> LONG(61), INTERFACE |-> STRINGPOINT(62),
   KRBLEVEL |-> STRINGPOINT(63), SSL_VERIFYPEER |-> LONG(64), CAINFO |-> STRINGPOINT(65),
   MAXREDIRS |-> LONG(68), FILETIME |-> LONG(69), TELNETOPTIONS |-> SLISTPOINT(70),
   MAXCONNECTS |-> LONG(71), FRESH_CONNECT |-> LONG(74), FORBID_REUSE |-> LONG(75),
   RANDOM_FILE |-> STRINGPOINT(76), EGDSOCKET |-> STRINGPOINT(77),
   CONNECTTIMEOUT |-> LONG(78), HEADERFUNCTION |-> FUNCTIONPOINT(79), HTTPGET |-> LONG(80),
   SSL_VERIFYHOST |-> LONG(81), COOKIEJAR |-> STRINGPOINT(82),
   SSL_CIPHER_LIST |-> STRINGPOINT(83), HTTP_VERSION |-> VALUES(84)]

OptionsC ==
  [FTP_USE_EPSV |-> LONG(85), SSLCERTTYPE |-> STRINGPOINT(86), SSLKEY |-> STRINGPOINT(87),
   SSLKEYTYPE |-> STRINGPOINT(88), SSLENGINE |-> STRINGPOINT(89),
   SSLENGINE_DEFAULT |-> LONG(90), DNS_USE_GLOBAL_CACHE |-> LONG(91),
   DNS_CACHE_TIMEOUT |-> LONG(92), PREQUOTE |-> SLISTPOINT(93),
   DEBUGFUNCTION |-> FUNCTIONPOINT(94), DEBUGDATA |-> CBPOINT(95),
   COOKIESESSION |-> LONG(96), CAPATH |-> STRINGPOINT(97), BUFFERSIZE |-> LONG(98),
   NOSIGNAL |-> LONG(99), SHARE |-> OBJECTPOINT(100), PROXYTYPE |-> VALUES(101),
   ACCEPT_ENCODING |-> STRINGPOINT(102), PRIVATE |-> OBJECTPOINT(103),
   HTTP200ALIASES |-> SLISTPOINT(104), UNRESTRICTED_AUTH |-> LONG(105),
   FTP_USE_EPRT |-> LONG(106), HTTPAUTH |-> VALUES(107),
   SSL_CTX_FUNCTION |-> FUNCTIONPOINT(108), SSL_CTX_DATA |-> CBPOINT(109),
   FTP_CREATE_MISSING_DIRS |-> LONG(110), PROXYAUTH |-> VALUES(111),
   SERVER_RESPONSE_TIMEOUT |-> LONG(112), IPRESOLVE |-> VALUES(113),
   MAXFILESIZE |-> LONG(114), INFILESIZE_LARGE |-> OFF_T(115),
   RESUME_FROM_LARGE |-> OFF_T(116), MAXFILESIZE_LARGE |-> OFF_T(117),
   NETRC_FILE |-> STRINGPOINT(118)]

OptionsD ==
  [USE_SSL |-> VALUES(119), POSTFIELDSIZE_LARGE |-> OFF_T(120), TCP_NODELAY |-> LONG(121),
   FTPSSLAUTH |-> VALUES(129), IOCTLFUNCTION |-> FUNCTIONPOINT(130),
   IOCTLDATA |-> CBPOINT(131), FTP_ACCOUNT |-> STRINGPOINT(134),
   COOKIELIST |-> STRINGPOINT(135), IGNORE_CONTENT_LENGTH |-> LONG(136),
   FTP_SKIP_PASV_IP |-> LONG(137), FTP_FILEMETHOD |-> VALUES(138), LOCALPORT |-> LONG(139),
   LOCALPORTRANGE |-> LONG(140), CONNECT_ONLY |-> LONG(141),
   CONV_FROM_NETWORK_FUNCTION |-> FUNCTIONPOINT(142),
   CONV_TO_NETWORK_FUNCTION |-> FUNCTIONPOINT(143),
   CONV_FROM_UTF8_FUNCTION |-> FUNCTIONPOINT(144), MAX_SEND_SPEED_LARGE |-> OFF_T(145),
   MAX_RECV_SPEED_LARGE |-> OFF_T(146), FTP_ALTERNATIVE_TO_USER |-> STRINGPOINT(147),
   SOCKOPTFUNCTION |-> FUNCTIONPOINT(148), SOCKOPTDATA |-> CBPOINT(149),
   SSL_SESSIONID_CACHE |-> LONG(150), SSH_AUTH_TYPES |-> VALUES(151),
   SSH_PUBLIC_KEYFILE |-> STRINGPOINT(152), SSH_PRIVATE_KEYFILE |-> STRINGPOINT(153),
   FTP_SSL_CCC |-> LONG(154), TIMEOUT_MS |-> LONG(155), CONNECTTIMEOUT_MS |-> LONG(156),
   HTTP_TRANSFER_DECODING |-> LONG(157), HTTP_CONTENT_DECODING |-> LONG(158),
   NEW_FILE_PERMS |-> LONG(159), NEW_DIRECTORY_PERMS |-> LONG(160),
   POSTREDIR |-> VALUES(161), SSH_HOST_PUBLIC_KEY_MD5 |-> STRINGPOINT(162),
   OPENSOCKETFUNCTION |-> FUNCTIONPOINT(163), OPENSOCKETDATA |-> CBPOINT(164)]

OptionsE ==
  [COPYPOSTFIELDS |-> OBJECTPOINT(165), PROXY_TRANSFER_MODE |-> LONG(166),
   SEEKFUNCTION |-> FUNCTIONPOINT(167), SEEKDATA |-> CBPOINT(168),
   CRLFILE |-> STRINGPOINT(169), ISSUERCERT |-> STRINGPOINT(170),
   ADDRESS_SCOPE |-> LONG(171), CERTINFO |-> LONG(172), USERNAME |-> STRINGPOINT(173),
   PASSWORD |-> STRINGPOINT(174), PROXYUSERNAME |-> STRINGPOINT(175),
   PROXYPASSWORD |-> STRINGPOINT(176), NOPROXY |-> STRINGPOINT(177),
   TFTP_BLKSIZE |-> LONG(178), SOCKS5_GSSAPI_SERVICE |-> STRINGPOINT(179),
   SOCKS5_GSSAPI_NEC |-> LONG(180), PROTOCOLS |-> LONG(181), REDIR_PROTOCOLS |-> LONG(182),
   SSH_KNOWNHOSTS |-> STRINGPOINT(183), SSH_KEYFUNCTION |-> FUNCTIONPOINT(184),
   SSH_KEYDATA |-> CBPOINT(185), MAIL_FROM |-> STRINGPOINT(186),
   MAIL_RCPT |-> SLISTPOINT(187), FTP_USE_PRET |-> LONG(188), RTSP_REQUEST |-> VALUES(189),
   RTSP_SESSION_ID |-> STRINGPOINT(190), RTSP_STREAM_URI |-> STRINGPOINT(191),
   RTSP_TRANSPORT |-> STRINGPOINT(192), RTSP_CLIENT_CSEQ |-> LONG(193),
   RTSP_SERVER_CSEQ |-> LONG(194), INTERLEAVEDATA |-> CBPOINT(195),
   INTERLEAVEFUNCTION |-> FUNCTIONPOINT(196), WILDCARDMATCH |-> LONG(197),
   CHUNK_BGN_FUNCTION |-> FUNCTIONPOINT(198), CHUNK_END_FUNCTION |-> FUNCTIONPOINT(199),
   FNMATCH_FUNCTION |-> FUNCTIONPOINT(200), CHUNK_DATA |-> CBPOINT(201),
   FNMATCH_DATA |-> CBPOINT(202), RESOLVE |-> SLISTPOINT(203),
   TLSAUTH_USERNAME |-> STRINGPOINT(204), TLSAUTH_PASSWORD |-> STRINGPOINT(205),
   TLSAUTH_TYPE |-> STRINGPOINT(206)]

OptionsF ==
  [TRANSFER_ENCODING |-> LONG(207), CLOSESOCKETFUNCTION |-> FUNCTIONPOINT(208),
   CLOSESOCKETDATA |-> CBPOINT(209), GSSAPI_DELEGATION |-> VALUES(210),
   DNS_SERVERS |-> STRINGPOINT(211), ACCEPTTIMEOUT_MS |-> LONG(212),
   TCP_KEEPALIVE |-> LONG(213), TCP_KEEPIDLE |-> LONG(214), TCP_KEEPINTVL |-> LONG(215),
   SSL_OPTIONS |-> VALUES(216), MAIL_AUTH |-> STRINGPOINT(217), SASL_IR |-> LONG(218),
   XFERINFOFUNCTION |-> FUNCTIONPOINT(219), XOAUTH2_BEARER |-> STRINGPOINT(220),
   DNS_INTERFACE |-> STRINGPOINT(221), DNS_LOCAL_IP4 |-> STRINGPOINT(222),
   DNS_LOCAL_IP6 |-> STRINGPOINT(223), LOGIN_OPTIONS |-> STRINGPOINT(224),
   SSL_ENABLE_NPN |-> LONG(225), SSL_ENABLE_ALPN |-> LONG(226),
   EXPECT_100_TIMEOUT_MS |-> LONG(227), PROXYHEADER |-> SLISTPOINT(228),
   HEADEROPT |-> VALUES(229), PINNEDPUBLICKEY |-> STRINGPOINT(230),
   UNIX_SOCKET_PATH |-> STRINGPOINT(231), SSL_VERIFYSTATUS |-> LONG(232),
   SSL_FALSESTART |-> LONG(233), PATH_AS_IS |-> LONG(234),
   PROXY_SERVICE_NAME |-> STRINGPOINT(235), SERVICE_NAME |-> STRINGPOINT(236),
   PIPEWAIT |-> LONG(237), DEFAULT_PROTOCOL |-> STRINGPOINT(238),
   STREAM_WEIGHT |-> LONG(239), STREAM_DEPENDS |-> OBJECTPOINT(240),
   STREAM_DEPENDS_E |-> OBJECTPOINT(241), TFTP_NO_OPTIONS |-> LONG(242),
   CONNECT_TO |-> SLISTPOINT(243), TCP_FASTOPEN |-> LONG(244),
   KEEP_SENDING_ON_ERROR |-> LONG(245), PROXY_CAINFO |-> STRINGPOINT(246),
   PROXY_CAPATH |-> STRINGPOINT(247)]

OptionsG ==
  [PROXY_SSL_VERIFYPEER |-> LONG(248), PROXY_SSL_VERIFYHOST |-> LONG(249),
   PROXY_SSLVERSION |-> VALUES(250), PROXY_TLSAUTH_USERNAME |-> STRINGPOINT(251),
   PROXY_TLSAUTH_PASSWORD |-> STRINGPOINT(252), PROXY_TLSAUTH_TYPE |-> STRINGPOINT(253),
   PROXY_SSLCERT |-> STRINGPOINT(254), PROXY_SSLCERTTYPE |-> STRINGPOINT(255),
   PROXY_SSLKEY |-> STRINGPOINT(256), PROXY_SSLKEYTYPE |-> STRINGPOINT(257),
   PROXY_KEYPASSWD |-> STRINGPOINT(258), PROXY_SSL_CIPHER_LIST |-> STRINGPOINT(259),
   PROXY_CRLFILE |-> STRINGPOINT(260), PROXY_SSL_OPTIONS |-> LONG(261),
   PRE_PROXY |-> STRINGPOINT(262), PROXY_PINNEDPUBLICKEY |-> STRINGPOINT(263),
   ABSTRACT_UNIX_SOCKET |-> STRINGPOINT(264), SUPPRESS_CONNECT_HEADERS |-> LONG(265),
   REQUEST_TARGET |-> STRINGPOINT(266), SOCKS5_AUTH |-> LONG(267),
   SSH_COMPRESSION |-> LONG(268), MIMEPOST |-> OBJECTPOINT(269),
   TIMEVALUE_LARGE |-> OFF_T(270), HAPPY_EYEBALLS_TIMEOUT_MS |-> LONG(271),
   RESOLVER_START_FUNCTION |-> FUNCTIONPOINT(272), RESOLVER_START_DATA |-> CBPOINT(273),
   HAPROXYPROTOCOL |-> LONG(274), DNS_SHUFFLE_ADDRESSES |-> LONG(275),
   TLS13_CIPHERS |-> STRINGPOINT(276), PROXY_TLS13_CIPHERS |-> STRINGPOINT(277),
   DISALLOW_USERNAME_IN_URL |-> LONG(278), DOH_URL |-> STRINGPOINT(279),
   UPLOAD_BUFFERSIZE |-> LONG(280), UPKEEP_INTERVAL_MS |-> LONG(281),
   CURLU |-> OBJECTPOINT(282), TRAILERFUNCTION |-> FUNCTIONPOINT(283),
   TRAILERDATA |-> CBPOINT(284), HTTP09_ALLOWED |-> LONG(285), ALTSVC_CTRL |-> LONG(286),
   ALTSVC |-> STRINGPOINT(287), MAXAGE_CONN |-> LONG(288),
   SASL_AUTHZID |-> STRINGPOINT(289), MAIL_RCPT_ALLOWFAILS |-> LONG(290),
   SSLCERT_BLOB |-> BLOB(291), SSLKEY_BLOB |-> BLOB(292), PROXY_SSLCERT_BLOB |-> BLOB(293),
   PROXY_SSLKEY_BLOB |-> BLOB(294), ISSUERCERT_BLOB |-> BLOB(295),
   PROXY_ISSUERCERT |-> STRINGPOINT(296), PROXY_ISSUERCERT_BLOB |-> BLOB(297)]

OptionsH ==
  [SSL_EC_CURVES |-> STRINGPOINT(298), HSTS_CTRL |-> LONG(299), HSTS |-> STRINGPOINT(300),
   HSTSREADFUNCTION |-> FUNCTIONPOINT(301), HSTSREADDATA |-> CBPOINT(302),
   HSTSWRITEFUNCTION |-> FUNCTIONPOINT(303), HSTSWRITEDATA |-> CBPOINT(304),
   AWS_SIGV4 |-> STRINGPOINT(305), DOH_SSL_VERIFYPEER |-> LONG(306),
   DOH_SSL_VERIFYHOST |-> LONG(307), DOH_SSL_VERIFYSTATUS |-> LONG(308),
   CAINFO_BLOB |-> BLOB(309), PROXY_CAINFO_BLOB |-> BLOB(310),
   SSH_HOST_PUBLIC_KEY_SHA256 |-> STRINGPOINT(311), PREREQFUNCTION |-> FUNCTIONPOINT(312),
   PREREQDATA |-> CBPOINT(313), MAXLIFETIME_CONN |-> LONG(314), MIME_OPTIONS |-> LONG(315),
   SSH_HOSTKEYFUNCTION |-> FUNCTIONPOINT(316), SSH_HOSTKEYDATA |-> CBPOINT(317),
   PROTOCOLS_STR |-> STRINGPOINT(318), REDIR_PROTOCOLS_STR |-> STRINGPOINT(319),
   WS_OPTIONS |-> LONG(320), CA_CACHE_TIMEOUT |-> LONG(321), QUICK_EXIT |-> LONG(322),
   HAPROXY_CLIENT_IP |-> STRINGPOINT(323), SERVER_RESPONSE_TIMEOUT_MS |-> LONG(324),
   ECH |-> STRINGPOINT(325), TCP_KEEPCNT |-> LONG(326), UPLOAD_FLAGS |-> LONG(327),
   SSL_SIGNATURE_ALGORITHMS |-> STRINGPOINT(328)]

\* Every CURLoption.
Options ==
  OptionsA @@ OptionsB @@ OptionsC @@ OptionsD @@ OptionsE @@ OptionsF @@ OptionsG @@ OptionsH

\* Every CURLMoption, of curl_multi_setopt.
MultiOptions ==
  [SOCKETFUNCTION |-> FUNCTIONPOINT(1), SOCKETDATA |-> OBJECTPOINT(2),
   PIPELINING |-> LONG(3), TIMERFUNCTION |-> FUNCTIONPOINT(4), TIMERDATA |-> OBJECTPOINT(5),
   MAXCONNECTS |-> LONG(6), MAX_HOST_CONNECTIONS |-> LONG(7), MAX_PIPELINE_LENGTH |-> LONG(8),
   CONTENT_LENGTH_PENALTY_SIZE |-> OFF_T(9), CHUNK_LENGTH_PENALTY_SIZE |-> OFF_T(10),
   PIPELINING_SITE_BL |-> OBJECTPOINT(11), PIPELINING_SERVER_BL |-> OBJECTPOINT(12),
   MAX_TOTAL_CONNECTIONS |-> LONG(13), PUSHFUNCTION |-> FUNCTIONPOINT(14),
   PUSHDATA |-> OBJECTPOINT(15), MAX_CONCURRENT_STREAMS |-> LONG(16)]

\* The first number of each type of info.
CURLINFO ==
  [STRING |-> 1048576, LONG |-> 2097152, DOUBLE |-> 3145728, SLIST |-> 4194304,
   PTR |-> 4194304, SOCKET |-> 5242880, OFF_T |-> 6291456]

\* Every CURLINFO by the type of the variable its value is stored in.
InfosOf ==
  [STRING |->
     [EFFECTIVE_URL |-> 1, CONTENT_TYPE |-> 18, PRIVATE |-> 21, FTP_ENTRY_PATH |-> 30,
     REDIRECT_URL |-> 31, PRIMARY_IP |-> 32, RTSP_SESSION_ID |-> 36, LOCAL_IP |-> 41,
     SCHEME |-> 49, EFFECTIVE_METHOD |-> 58, REFERER |-> 60, CAINFO |-> 61, CAPATH |-> 62],
   LONG |->
     [RESPONSE_CODE |-> 2, HEADER_SIZE |-> 11, REQUEST_SIZE |-> 12,
     SSL_VERIFYRESULT |-> 13, FILETIME |-> 14, REDIRECT_COUNT |-> 20,
     HTTP_CONNECTCODE |-> 22, HTTPAUTH_AVAIL |-> 23, PROXYAUTH_AVAIL |-> 24,
     OS_ERRNO |-> 25, NUM_CONNECTS |-> 26, LASTSOCKET |-> 29, CONDITION_UNMET |-> 35,
     RTSP_CLIENT_CSEQ |-> 37, RTSP_SERVER_CSEQ |-> 38, RTSP_CSEQ_RECV |-> 39,
     PRIMARY_PORT |-> 40, LOCAL_PORT |-> 42, HTTP_VERSION |-> 46,
     PROXY_SSL_VERIFYRESULT |-> 47, PROTOCOL |-> 48, PROXY_ERROR |-> 59, USED_PROXY |-> 66,
     HTTPAUTH_USED |-> 69, PROXYAUTH_USED |-> 70],
   DOUBLE |->
     [TOTAL_TIME |-> 3, NAMELOOKUP_TIME |-> 4, CONNECT_TIME |-> 5, PRETRANSFER_TIME |-> 6,
     SIZE_UPLOAD |-> 7, SIZE_DOWNLOAD |-> 8, SPEED_DOWNLOAD |-> 9, SPEED_UPLOAD |-> 10,
     CONTENT_LENGTH_DOWNLOAD |-> 15, CONTENT_LENGTH_UPLOAD |-> 16,
     STARTTRANSFER_TIME |-> 17, REDIRECT_TIME |-> 19, APPCONNECT_TIME |-> 33],
   OFF_T |->
     [SIZE_UPLOAD_T |-> 7, SIZE_DOWNLOAD_T |-> 8, SPEED_DOWNLOAD_T |-> 9,
     SPEED_UPLOAD_T |-> 10, FILETIME_T |-> 14, CONTENT_LENGTH_DOWNLOAD_T |-> 15,
     CONTENT_LENGTH_UPLOAD_T |-> 16, TOTAL_TIME_T |-> 50, NAMELOOKUP_TIME_T |-> 51,
     CONNECT_TIME_T |-> 52, PRETRANSFER_TIME_T |-> 53, STARTTRANSFER_TIME_T |-> 54,
     REDIRECT_TIME_T |-> 55, APPCONNECT_TIME_T |-> 56, RETRY_AFTER |-> 57, XFER_ID |-> 63,
     CONN_ID |-> 64, QUEUE_TIME_T |-> 65, POSTTRANSFER_TIME_T |-> 67,
     EARLYDATA_SENT_T |-> 68],
   SLIST |->
     [SSL_ENGINES |-> 27, COOKIELIST |-> 28],
   PTR |->
     [CERTINFO |-> 34, TLS_SESSION |-> 43, TLS_SSL_PTR |-> 45],
   SOCKET |->
     [ACTIVESOCKET |-> 44]]

Infos ==
  UNION {{[info |-> i, type |-> t, na |-> CURLINFO[t] + InfosOf[t][i]] : i \in DOMAIN InfosOf[t]} :
         t \in DOMAIN InfosOf}
=============================================================================
