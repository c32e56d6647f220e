---------------------------- MODULE MessageProto ----------------------------
(*
  The messages of message.proto (message.pb.h, message.pb.cc): the heads and
  envelopes every message of the servers travels in; and those of dbmessage.proto
  (dbmessage.pb.h, dbmessage.pb.cc): what a server asks the database server, and
  the answer.

  Per message, each from the lines of its own method and no other:
    X        the members of the class, in the order the class lays them out
    X_bits   the bit of _has_bits_ the accessors of each member use
    X_reset  SharedCtor, the copy constructor, Clear
    X_parse  MergePartialFromCodedStream: the member each tag is read into
    X_write  SerializeWithCachedSizes and the variant that writes to an array
    X_size   ByteSizeLong and RequiredFieldsByteSizeFallback
    X_merge  MergeFrom, IsInitialized, InternalSwap
  Protobuf.tla says what such a table means.
*)
EXTENDS ProtobufTables

enMessageCmd == 0..3

CSocketInfo == <<Opt("createtime", "int64"), Opt("socketid", "int32"),
    Opt("state", "int32")>>
CSocketInfo_bits == [createtime |-> 0, socketid |-> 1, state |-> 2]
CSocketInfo_reset == Reset(<<Zero(Always, "createtime", "state")>>,
    Copy({}, {}, <<"createtime", "state">>), <<Zero(0..2, "createtime", "state")>>)
CSocketInfo_parse == 8 :> "socketid" @@ 16 :> "createtime" @@ 24 :> "state"
CSocketInfo_write == Both(<<W(1, "socketid", 1), W(2, "createtime", 0), W(3, "state", 2)>>)
CSocketInfo_size == Size({}, {}, {}, {}, {<<0..2, {"createtime", "socketid", "state"}>>},
    {})
CSocketInfo_merge == Merge({}, <<Ored(0..2, [createtime |-> 0, socketid |-> 1,
    state |-> 2])>>, {}, {}, {"createtime", "socketid", "state"})

CMesHead == <<Rep("socketinfos", "CSocketInfo"), Req("opflag", "enMessageCmd"),
    Opt("cmd", "int32"), Opt("serial", "int32"), Opt("seq", "int32")>>
CMesHead_bits == [opflag |-> 0, cmd |-> 1, serial |-> 2, seq |-> 3]
CMesHead_reset == Reset(<<Zero(Always, "opflag", "seq")>>,
    Copy({"socketinfos"}, {}, <<"opflag", "seq">>), <<Put(Always, [socketinfos |-> <<>>]),
    Zero(0..3, "opflag", "seq")>>)
CMesHead_parse == 8 :> "opflag" @@ 18 :> "socketinfos" @@ 24 :> "cmd" @@ 32 :> "serial"
    @@ 40 :> "seq"
CMesHead_write == Both(<<W(1, "opflag", 0), All(2, "socketinfos"), W(3, "cmd", 1),
    W(4, "serial", 2), W(5, "seq", 3)>>)
CMesHead_size == Size({}, {}, {}, {"opflag"}, {<<1..3, {"cmd", "serial", "seq"}>>},
    {"socketinfos"})
CMesHead_merge == Merge({"socketinfos"}, <<Ored(0..3,
    [opflag |-> 0, cmd |-> 1, serial |-> 2, seq |-> 3])>>, {0}, {},
    {"socketinfos", "opflag", "cmd", "serial", "seq"})

CMessage == <<Req("msghead", "CMesHead"), Req("msgpara", "fixed64")>>
CMessage_bits == [msghead |-> 0, msgpara |-> 1]
CMessage_reset == Reset(<<Zero(Always, "msghead", "msgpara")>>,
    Copy({"msgpara"}, {"msghead"}, <<>>), <<Each({0}, [msghead |-> 0]),
    Put(Always, [msgpara |-> 0])>>)
CMessage_parse == 10 :> "msghead" @@ 17 :> "msgpara"
CMessage_write == Both(<<W(1, "msghead", 0), W(2, "msgpara", 1)>>)
CMessage_size == Size({0, 1}, {"msghead", "msgpara"}, {"msghead", "msgpara"}, {}, {}, {})
CMessage_merge == Merge({}, <<Ored({0, 1}, [msghead |-> 0, msgpara |-> 1])>>, {0, 1},
    {"msghead"}, {"msghead", "msgpara"})

CProxyHead == <<Opt("msghead", "CMesHead"), Req("srcfe", "uint32"), Req("srcid", "uint32"),
    Req("dstfe", "uint32"), Req("dstid", "uint32"), Req("timestamp", "uint64"),
    Opt("opflag", "enMessageCmd"), Opt("messageid", "uint32")>>
CProxyHead_bits == [msghead |-> 0, srcfe |-> 1, srcid |-> 2, dstfe |-> 3, dstid |-> 4,
    timestamp |-> 5, opflag |-> 6, messageid |-> 7]
CProxyHead_reset == Reset(<<Zero(Always, "msghead", "messageid")>>,
    Copy({}, {"msghead"}, <<"srcfe", "messageid">>),
    <<Each({0}, [msghead |-> 0]), Zero(1..7, "srcfe", "messageid")>>)
CProxyHead_parse == 8 :> "srcfe" @@ 16 :> "srcid" @@ 24 :> "dstfe" @@ 32 :> "dstid"
    @@ 40 :> "timestamp" @@ 48 :> "opflag" @@ 56 :> "messageid" @@ 66 :> "msghead"
CProxyHead_write == Both(<<W(1, "srcfe", 1), W(2, "srcid", 2), W(3, "dstfe", 3),
    W(4, "dstid", 4), W(5, "timestamp", 5), W(6, "opflag", 6), W(7, "messageid", 7),
    W(8, "msghead", 0)>>)
CProxyHead_size == Size(1..5, {"srcfe", "srcid", "dstfe", "dstid", "timestamp"},
    {"srcfe", "srcid", "dstfe", "dstid", "timestamp"}, {"msghead"},
    {<<{6, 7}, {"opflag", "messageid"}>>}, {})
CProxyHead_merge == Merge({}, <<Ored(0..7, [msghead |-> 0, srcfe |-> 1, srcid |-> 2,
    dstfe |-> 3, dstid |-> 4, timestamp |-> 5, opflag |-> 6, messageid |-> 7])>>, 1..5,
    {"msghead"}, {"msghead", "srcfe", "srcid", "dstfe", "dstid", "timestamp", "opflag",
    "messageid"})

CProxyMessage == <<Req("msghead", "CProxyHead"), Opt("msgpara", "fixed64")>>
CProxyMessage_bits == [msghead |-> 0, msgpara |-> 1]
CProxyMessage_reset == Reset(<<Zero(Always, "msghead", "msgpara")>>,
    Copy({"msgpara"}, {"msghead"}, <<>>), <<Each({0}, [msghead |-> 0]),
    Put(Always, [msgpara |-> 0])>>)
CProxyMessage_parse == 10 :> "msghead" @@ 17 :> "msgpara"
CProxyMessage_write == Both(<<W(1, "msghead", 0), W(2, "msgpara", 1)>>)
CProxyMessage_size == Size({}, {}, {}, {"msghead", "msgpara"}, {}, {})
CProxyMessage_merge == Merge({}, <<Ored({0, 1}, [msghead |-> 0, msgpara |-> 1])>>, {0},
    {"msghead"}, {"msghead", "msgpara"})

\* The classes of message.proto.
MessageProtos == [
  CSocketInfo |-> Row(CSocketInfo, CSocketInfo_bits, CSocketInfo_reset, CSocketInfo_parse,
    CSocketInfo_write, CSocketInfo_size, CSocketInfo_merge),
  CMesHead |-> Row(CMesHead, CMesHead_bits, CMesHead_reset, CMesHead_parse, CMesHead_write,
    CMesHead_size, CMesHead_merge),
  CMessage |-> Row(CMessage, CMessage_bits, CMessage_reset, CMessage_parse, CMessage_write,
    CMessage_size, CMessage_merge),
  CProxyHead |-> Row(CProxyHead, CProxyHead_bits, CProxyHead_reset, CProxyHead_parse,
    CProxyHead_write, CProxyHead_size, CProxyHead_merge),
  CProxyMessage |-> Row(CProxyMessage, CProxyMessage_bits, CProxyMessage_reset,
    CProxyMessage_parse, CProxyMessage_write, CProxyMessage_size, CProxyMessage_merge)]

-----------------------------------------------------------------------------
(* dbmessage.proto. *)

SQLTYPE == 1..5

CALLBACK == {1, 2}

BLOB == {1, 2}

CMsgExecuteSqlRequest == <<Opt("sql", "string"), Opt("buffer", "bytes"),
    Opt("sqlwhere", "string"), Opt("logictype", "uint32"), Opt("sessionid", "uint32"),
    Opt("timestamp", "uint64"), Opt("teamid", "uint64"), Opt("bufsize", "uint32"),
    Opt("outnumber", "uint32"), Opt("hasblob", "BLOB"), Opt("sqltype", "SQLTYPE"),
    Opt("callback", "CALLBACK")>>
CMsgExecuteSqlRequest_bits == [sql |-> 0, buffer |-> 1, sqlwhere |-> 2, logictype |-> 3,
    sessionid |-> 4, timestamp |-> 5, teamid |-> 6, bufsize |-> 7, outnumber |-> 8,
    hasblob |-> 9, sqltype |-> 10, callback |-> 11]
CMsgExecuteSqlRequest_reset == Reset(<<Put(Always, [sql |-> 0, buffer |-> 0,
    sqlwhere |-> 0]), Zero(Always, "logictype", "outnumber"),
    Put(Always, [hasblob |-> 1, sqltype |-> 1, callback |-> 1])>>,
    Copy({}, {"sql", "buffer", "sqlwhere"}, <<"logictype", "callback">>),
    <<Each(0..2, [sql |-> 0, buffer |-> 1, sqlwhere |-> 2]),
    Zero(3..7, "logictype", "bufsize"), Put(8..11, [outnumber |-> 0, hasblob |-> 1,
    sqltype |-> 1, callback |-> 1])>>)
CMsgExecuteSqlRequest_parse == 8 :> "logictype" @@ 16 :> "sessionid" @@ 24 :> "timestamp"
    @@ 32 :> "teamid" @@ 40 :> "sqltype" @@ 48 :> "callback" @@ 58 :> "sql"
    @@ 64 :> "bufsize" @@ 74 :> "buffer" @@ 82 :> "sqlwhere" @@ 88 :> "outnumber"
    @@ 96 :> "hasblob"
CMsgExecuteSqlRequest_write == Both(<<W(1, "logictype", 3), W(2, "sessionid", 4),
    W(3, "timestamp", 5), W(4, "teamid", 6), W(5, "sqltype", 10), W(6, "callback", 11),
    W(7, "sql", 0), W(8, "bufsize", 7), W(9, "buffer", 1), W(10, "sqlwhere", 2),
    W(11, "outnumber", 8), W(12, "hasblob", 9)>>)
CMsgExecuteSqlRequest_size == Size({}, {}, {}, {}, {<<0..7,
    {"sql", "buffer", "sqlwhere", "logictype", "sessionid", "timestamp", "teamid",
    "bufsize"}>>, <<8..11, {"outnumber", "hasblob", "sqltype", "callback"}>>}, {})
CMsgExecuteSqlRequest_merge == Merge({}, <<Ored(0..7,
    [sql |-> 0, buffer |-> 1, sqlwhere |-> 2, logictype |-> 3, sessionid |-> 4,
    timestamp |-> 5, teamid |-> 6, bufsize |-> 7]), Ored(8..11,
    [outnumber |-> 8, hasblob |-> 9, sqltype |-> 10, callback |-> 11])>>, {}, {},
    {"sql", "buffer", "sqlwhere", "logictype", "sessionid", "timestamp", "teamid",
    "bufsize", "outnumber", "hasblob", "sqltype", "callback"})

CMsgExecuteSqlResponse == <<Rep("fieldvalue", "bytes"), Rep("fieldvaluelen", "uint32"),
    Opt("logictype", "uint32"), Opt("sessionid", "uint32"), Opt("timestamp", "uint64"),
    Opt("teamid", "uint64"), Opt("resultcode", "uint32"), Opt("rowcount", "uint32"),
    Opt("colcount", "uint32")>>
CMsgExecuteSqlResponse_bits == [logictype |-> 0, sessionid |-> 1, timestamp |-> 2,
    teamid |-> 3, resultcode |-> 4, rowcount |-> 5, colcount |-> 6]
CMsgExecuteSqlResponse_reset == Reset(<<Zero(Always, "logictype", "colcount")>>,
    Copy({"fieldvalue", "fieldvaluelen"}, {}, <<"logictype", "colcount">>),
    <<Put(Always, [fieldvalue |-> <<>>, fieldvaluelen |-> <<>>]),
    Zero(0..6, "logictype", "colcount")>>)
CMsgExecuteSqlResponse_parse == 8 :> "logictype" @@ 16 :> "sessionid" @@ 24 :> "timestamp"
    @@ 32 :> "teamid" @@ 40 :> "resultcode" @@ 48 :> "rowcount" @@ 56 :> "colcount"
    @@ 66 :> "fieldvalue" @@ 72 :> "fieldvaluelen" @@ 74 :> "fieldvaluelen"
CMsgExecuteSqlResponse_write == Both(<<W(1, "logictype", 0), W(2, "sessionid", 1),
    W(3, "timestamp", 2), W(4, "teamid", 3), W(5, "resultcode", 4), W(6, "rowcount", 5),
    W(7, "colcount", 6), All(8, "fieldvalue"), All(9, "fieldvaluelen")>>)
CMsgExecuteSqlResponse_size == Size({}, {}, {}, {}, {<<0..6,
    {"logictype", "sessionid", "timestamp", "teamid", "resultcode", "rowcount",
    "colcount"}>>}, {"fieldvalue", "fieldvaluelen"})
CMsgExecuteSqlResponse_merge == Merge({"fieldvalue", "fieldvaluelen"},
    <<Ored(0..6, [logictype |-> 0, sessionid |-> 1, timestamp |-> 2, teamid |-> 3,
    resultcode |-> 4, rowcount |-> 5, colcount |-> 6])>>, {}, {},
    {"fieldvalue", "fieldvaluelen", "logictype", "sessionid", "timestamp", "teamid",
    "resultcode", "rowcount", "colcount"})

\* The classes of dbmessage.proto.
DbProtos == [
  CMsgExecuteSqlRequest |-> Row(CMsgExecuteSqlRequest, CMsgExecuteSqlRequest_bits,
    CMsgExecuteSqlRequest_reset, CMsgExecuteSqlRequest_parse, CMsgExecuteSqlRequest_write,
    CMsgExecuteSqlRequest_size, CMsgExecuteSqlRequest_merge),
  CMsgExecuteSqlResponse |-> Row(CMsgExecuteSqlResponse, CMsgExecuteSqlResponse_bits,
    CMsgExecuteSqlResponse_reset, CMsgExecuteSqlResponse_parse,
    CMsgExecuteSqlResponse_write, CMsgExecuteSqlResponse_size,
    CMsgExecuteSqlResponse_merge)]
======================================================================
