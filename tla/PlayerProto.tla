---------------------------- MODULE PlayerProto ----------------------------
(*
  The messages of player.proto, as the classes of player.pb.h and player.pb.cc
  implement them: the descriptions of a player, and what a client asks the game
  server and is answered.  PlayerPushProto has what the server sends unasked.

  Per message, each from the lines of its own method and no other:
    X        the members of the class, in the order the class lays them out
    X_bits   the bit of _has_bits_ the accessors of each member use
    X_reset  SharedCtor, the copy constructor, Clear
    X_parse  MergePartialFromCodedStream: the member each tag is read into
    X_write  SerializeWithCachedSizes and the variant that writes to an array
    X_size   ByteSizeLong and RequiredFieldsByteSizeFallback
    X_merge  MergeFrom, IsInitialized, InternalSwap
  Protobuf.tla says what such a table means.
*)
EXTENDS ProtobufTables

ReconnectState == 1..3

PlayerDTO == <<Rep("properties", "PropertyDTO"), Opt("name", "string"),
    Opt("language", "string"), Req("icon", "string"), Req("mapgridposition", "PositionDTO"),
    Req("playerid", "uint64"), Req("level", "int32"), Req("haschangedname", "bool")>>
PlayerDTO_bits == [name |-> 0, language |-> 1, icon |-> 2, mapgridposition |-> 3,
    playerid |-> 4, level |-> 5, haschangedname |-> 6]
PlayerDTO_reset == Reset(<<Put(Always, [name |-> 0, language |-> 0, icon |-> 0]),
    Zero(Always, "mapgridposition", "haschangedname")>>,
    Copy({"properties"}, {"name", "language", "icon", "mapgridposition"},
    <<"playerid", "haschangedname">>), <<Put(Always, [properties |-> <<>>]),
    Each(0..3, [name |-> 0, language |-> 1, icon |-> 2, mapgridposition |-> 3]),
    Zero(4..6, "playerid", "haschangedname")>>)
PlayerDTO_parse == 8 :> "playerid" @@ 18 :> "name" @@ 24 :> "level" @@ 34 :> "properties"
    @@ 42 :> "language" @@ 50 :> "mapgridposition" @@ 56 :> "haschangedname" @@ 66 :> "icon"
PlayerDTO_write == Both(<<W(1, "playerid", 4), W(2, "name", 0), W(3, "level", 5),
    All(4, "properties"), W(5, "language", 1), W(6, "mapgridposition", 3),
    W(7, "haschangedname", 6), W(8, "icon", 2)>>)
PlayerDTO_size == Size(2..6, {"icon", "mapgridposition", "playerid", "level",
    "haschangedname"}, {"icon", "mapgridposition", "playerid", "level", "haschangedname"},
    {}, {<<{0, 1}, {"name", "language"}>>}, {"properties"})
PlayerDTO_merge == Merge({"properties"}, <<Ored(0..6,
    [name |-> 0, language |-> 1, icon |-> 2, mapgridposition |-> 3, playerid |-> 4,
    level |-> 5, haschangedname |-> 6])>>, 2..6, {"properties", "mapgridposition"},
    {"properties", "name", "language", "icon", "mapgridposition", "playerid", "level",
    "haschangedname"})

GuideDTO == <<Req("id", "int32"), Req("jump", "bool")>>
GuideDTO_bits == [id |-> 0, jump |-> 1]
GuideDTO_reset == Reset(<<Zero(Always, "id", "jump")>>, Copy({}, {}, <<"id", "jump">>),
    <<Zero({0, 1}, "id", "jump")>>)
GuideDTO_parse == 16 :> "id" @@ 24 :> "jump"
GuideDTO_write == Both(<<W(2, "id", 0), W(3, "jump", 1)>>)
GuideDTO_size == Size({0, 1}, {"id", "jump"}, {"id", "jump"}, {}, {}, {})
GuideDTO_merge == Merge({}, <<Ored({0, 1}, [id |-> 0, jump |-> 1])>>, {0, 1}, {},
    {"id", "jump"})

UserAccountLoginRequest == <<Req("platform", "string"), Req("puid", "string")>>
UserAccountLoginRequest_bits == [platform |-> 0, puid |-> 1]
UserAccountLoginRequest_reset == Reset(<<Put(Always, [platform |-> 0, puid |-> 0])>>,
    Copy({}, {"platform", "puid"}, <<>>), <<Each({0, 1}, [platform |-> 0, puid |-> 1])>>)
UserAccountLoginRequest_parse == 10 :> "platform" @@ 18 :> "puid"
UserAccountLoginRequest_write == Both(<<W(1, "platform", 0), W(2, "puid", 1)>>)
UserAccountLoginRequest_size == Size({0, 1}, {"platform", "puid"}, {"platform", "puid"}, {},
    {}, {})
UserAccountLoginRequest_merge == Merge({}, <<Own({0, 1}, [platform |-> 0, puid |-> 1])>>,
    {0, 1}, {}, {"platform", "puid"})

UserAccountLoginResponse == <<Req("playerid", "uint64")>>
UserAccountLoginResponse_bits == [playerid |-> 0]
UserAccountLoginResponse_reset == Reset(<<Put(Always, [playerid |-> 0])>>,
    Copy({"playerid"}, {}, <<>>), <<Put(Always, [playerid |-> 0])>>)
UserAccountLoginResponse_parse == 8 :> "playerid"
UserAccountLoginResponse_write == Both(<<W(1, "playerid", 0)>>)
UserAccountLoginResponse_size == Size({}, {}, {}, {"playerid"}, {}, {})
UserAccountLoginResponse_merge == Merge({}, <<Own({0}, [playerid |-> 0])>>, {0}, {},
    {"playerid"})

PlayerLoginRequest == <<Req("playerid", "uint64")>>
PlayerLoginRequest_bits == [playerid |-> 0]
PlayerLoginRequest_reset == Reset(<<Put(Always, [playerid |-> 0])>>,
    Copy({"playerid"}, {}, <<>>), <<Put(Always, [playerid |-> 0])>>)
PlayerLoginRequest_parse == 8 :> "playerid"
PlayerLoginRequest_write == Both(<<W(1, "playerid", 0)>>)
PlayerLoginRequest_size == Size({}, {}, {}, {"playerid"}, {}, {})
PlayerLoginRequest_merge == Merge({}, <<Own({0}, [playerid |-> 0])>>, {0}, {}, {"playerid"})

PlayerLoginResponse == <<Req("sessionid", "uint64"), Req("systime", "int64"),
    Req("timezoneoffset", "int32")>>
PlayerLoginResponse_bits == [sessionid |-> 0, systime |-> 1, timezoneoffset |-> 2]
PlayerLoginResponse_reset == Reset(<<Zero(Always, "sessionid", "timezoneoffset")>>,
    Copy({}, {}, <<"sessionid", "timezoneoffset">>),
    <<Zero(0..2, "sessionid", "timezoneoffset")>>)
PlayerLoginResponse_parse == 8 :> "sessionid" @@ 16 :> "systime" @@ 24 :> "timezoneoffset"
PlayerLoginResponse_write == Both(<<W(1, "sessionid", 0), W(2, "systime", 1),
    W(3, "timezoneoffset", 2)>>)
PlayerLoginResponse_size == Size(0..2, {"sessionid", "systime", "timezoneoffset"},
    {"sessionid", "systime", "timezoneoffset"}, {}, {}, {})
PlayerLoginResponse_merge == Merge({}, <<Ored(0..2, [sessionid |-> 0, systime |-> 1,
    timezoneoffset |-> 2])>>, 0..2, {}, {"sessionid", "systime", "timezoneoffset"})

PlayerReconnectRequest == <<Req("sessionid", "uint64"), Req("lastpushid", "int32")>>
PlayerReconnectRequest_bits == [sessionid |-> 0, lastpushid |-> 1]
PlayerReconnectRequest_reset == Reset(<<Zero(Always, "sessionid", "lastpushid")>>,
    Copy({}, {}, <<"sessionid", "lastpushid">>), <<Zero({0, 1}, "sessionid", "lastpushid")>>)
PlayerReconnectRequest_parse == 8 :> "sessionid" @@ 16 :> "lastpushid"
PlayerReconnectRequest_write == Both(<<W(1, "sessionid", 0), W(2, "lastpushid", 1)>>)
PlayerReconnectRequest_size == Size({0, 1}, {"sessionid", "lastpushid"},
    {"sessionid", "lastpushid"}, {}, {}, {})
PlayerReconnectRequest_merge == Merge({}, <<Ored({0, 1},
    [sessionid |-> 0, lastpushid |-> 1])>>, {0, 1}, {}, {"sessionid", "lastpushid"})

PlayerReconnectResponse == <<Opt("state", "ReconnectState")>>
PlayerReconnectResponse_bits == [state |-> 0]
PlayerReconnectResponse_reset == Reset(<<Put(Always, [state |-> 1])>>,
    Copy({"state"}, {}, <<>>), <<Put(Always, [state |-> 1])>>)
PlayerReconnectResponse_parse == 8 :> "state"
PlayerReconnectResponse_write == Both(<<W(1, "state", 0)>>)
PlayerReconnectResponse_size == Size({}, {}, {}, {"state"}, {}, {})
PlayerReconnectResponse_merge == Merge({}, <<Own({0}, [state |-> 0])>>, {}, {}, {"state"})

PlayerReloadRequest == <<>>
PlayerReloadRequest_bits == <<>>
PlayerReloadRequest_reset == Reset(<<>>, Copy({}, {}, <<>>), <<>>)
PlayerReloadRequest_parse == <<>>
PlayerReloadRequest_write == Both(<<>>)
PlayerReloadRequest_size == Size({}, {}, {}, {}, {}, {})
PlayerReloadRequest_merge == Merge({}, <<>>, {}, {}, {})

PlayerReloadResponse == <<Req("systime", "int64"), Req("timezoneoffset", "int32")>>
PlayerReloadResponse_bits == [systime |-> 0, timezoneoffset |-> 1]
PlayerReloadResponse_reset == Reset(<<Zero(Always, "systime", "timezoneoffset")>>,
    Copy({}, {}, <<"systime", "timezoneoffset">>), <<Zero({0, 1}, "systime", "timezoneoffset")>>)
PlayerReloadResponse_parse == 8 :> "systime" @@ 16 :> "timezoneoffset"
PlayerReloadResponse_write == Both(<<W(1, "systime", 0), W(2, "timezoneoffset", 1)>>)
PlayerReloadResponse_size == Size({0, 1}, {"systime", "timezoneoffset"},
    {"systime", "timezoneoffset"}, {}, {}, {})
PlayerReloadResponse_merge == Merge({}, <<Ored({0, 1},
    [systime |-> 0, timezoneoffset |-> 1])>>, {0, 1}, {}, {"systime", "timezoneoffset"})

PlayerHeartBeatRequest == <<>>
PlayerHeartBeatRequest_bits == <<>>
PlayerHeartBeatRequest_reset == Reset(<<>>, Copy({}, {}, <<>>), <<>>)
PlayerHeartBeatRequest_parse == <<>>
PlayerHeartBeatRequest_write == Both(<<>>)
PlayerHeartBeatRequest_size == Size({}, {}, {}, {}, {}, {})
PlayerHeartBeatRequest_merge == Merge({}, <<>>, {}, {}, {})

PlayerHeartBeatResponse == <<Req("systime", "int64")>>
PlayerHeartBeatResponse_bits == [systime |-> 0]
PlayerHeartBeatResponse_reset == Reset(<<Put(Always, [systime |-> 0])>>,
    Copy({"systime"}, {}, <<>>), <<Put(Always, [systime |-> 0])>>)
PlayerHeartBeatResponse_parse == 8 :> "systime"
PlayerHeartBeatResponse_write == Both(<<W(1, "systime", 0)>>)
PlayerHeartBeatResponse_size == Size({}, {}, {}, {"systime"}, {}, {})
PlayerHeartBeatResponse_merge == Merge({}, <<Own({0}, [systime |-> 0])>>, {0}, {},
    {"systime"})

SetTalentRequest == <<Req("level", "int32"), Req("talentid", "int32")>>
SetTalentRequest_bits == [level |-> 0, talentid |-> 1]
SetTalentRequest_reset == Reset(<<Zero(Always, "level", "talentid")>>,
    Copy({}, {}, <<"level", "talentid">>), <<Zero({0, 1}, "level", "talentid")>>)
SetTalentRequest_parse == 8 :> "level" @@ 16 :> "talentid"
SetTalentRequest_write == Both(<<W(1, "level", 0), W(2, "talentid", 1)>>)
SetTalentRequest_size == Size({0, 1}, {"level", "talentid"}, {"level", "talentid"}, {}, {},
    {})
SetTalentRequest_merge == Merge({}, <<Ored({0, 1}, [level |-> 0, talentid |-> 1])>>, {0, 1},
    {}, {"level", "talentid"})

SetTalentResponse == <<Req("level", "int32"), Req("talentid", "int32")>>
SetTalentResponse_bits == [level |-> 0, talentid |-> 1]
SetTalentResponse_reset == Reset(<<Zero(Always, "level", "talentid")>>,
    Copy({}, {}, <<"level", "talentid">>), <<Zero({0, 1}, "level", "talentid")>>)
SetTalentResponse_parse == 8 :> "level" @@ 16 :> "talentid"
SetTalentResponse_write == Both(<<W(1, "level", 0), W(2, "talentid", 1)>>)
SetTalentResponse_size == Size({0, 1}, {"level", "talentid"}, {"level", "talentid"}, {}, {},
    {})
SetTalentResponse_merge == Merge({}, <<Ored({0, 1}, [level |-> 0, talentid |-> 1])>>,
    {0, 1}, {}, {"level", "talentid"})

SetImageRequest == <<Req("image", "int32")>>
SetImageRequest_bits == [image |-> 0]
SetImageRequest_reset == Reset(<<Put(Always, [image |-> 0])>>, Copy({"image"}, {}, <<>>),
    <<Put(Always, [image |-> 0])>>)
SetImageRequest_parse == 8 :> "image"
SetImageRequest_write == Both(<<W(1, "image", 0)>>)
SetImageRequest_size == Size({}, {}, {}, {"image"}, {}, {})
SetImageRequest_merge == Merge({}, <<Own({0}, [image |-> 0])>>, {0}, {}, {"image"})

SetImageResponse == <<Opt("image", "int32")>>
SetImageResponse_bits == [image |-> 0]
SetImageResponse_reset == Reset(<<Put(Always, [image |-> 0])>>, Copy({"image"}, {}, <<>>),
    <<Put(Always, [image |-> 0])>>)
SetImageResponse_parse == 16 :> "image"
SetImageResponse_write == Both(<<W(2, "image", 0)>>)
SetImageResponse_size == Size({}, {}, {}, {"image"}, {}, {})
SetImageResponse_merge == Merge({}, <<Own({0}, [image |-> 0])>>, {}, {}, {"image"})

QueryLordInfoRequest == <<Opt("name", "string"), Opt("playerid", "int64")>>
QueryLordInfoRequest_bits == [name |-> 0, playerid |-> 1]
QueryLordInfoRequest_reset == Reset(<<Put(Always, [name |-> 0, playerid |-> 0])>>,
    Copy({"playerid"}, {"name"}, <<>>), <<Each({0}, [name |-> 0]),
    Put(Always, [playerid |-> 0])>>)
QueryLordInfoRequest_parse == 8 :> "playerid" @@ 18 :> "name"
QueryLordInfoRequest_write == Both(<<W(1, "playerid", 1), W(2, "name", 0)>>)
QueryLordInfoRequest_size == Size({}, {}, {}, {}, {<<{0, 1}, {"name", "playerid"}>>}, {})
QueryLordInfoRequest_merge == Merge({}, <<Ored({0, 1}, [name |-> 0, playerid |-> 1])>>, {},
    {}, {"name", "playerid"})

QueryLordInfoResponse == <<Rep("equipmentlist", "EquipmentDTO"), Opt("nickname", "string"),
    Opt("alliancename", "string"), Opt("playerid", "int64"), Opt("allianceid", "int32"),
    Opt("exp", "int32"), Opt("level", "int32"), Opt("isfriend", "bool"),
    Opt("image", "int32")>>
QueryLordInfoResponse_bits == [nickname |-> 0, alliancename |-> 1, playerid |-> 2,
    allianceid |-> 3, exp |-> 4, level |-> 5, isfriend |-> 6, image |-> 7]
QueryLordInfoResponse_reset == Reset(<<Put(Always, [nickname |-> 0, alliancename |-> 0]),
    Zero(Always, "playerid", "image")>>, Copy({"equipmentlist"},
    {"nickname", "alliancename"}, <<"playerid", "image">>),
    <<Put(Always, [equipmentlist |-> <<>>]), Each({0, 1},
    [nickname |-> 0, alliancename |-> 1]), Zero(2..7, "playerid", "image")>>)
QueryLordInfoResponse_parse == 8 :> "playerid" @@ 18 :> "nickname" @@ 24 :> "allianceid"
    @@ 34 :> "alliancename" @@ 40 :> "exp" @@ 48 :> "level" @@ 56 :> "isfriend"
    @@ 64 :> "image" @@ 74 :> "equipmentlist"
QueryLordInfoResponse_write == Both(<<W(1, "playerid", 2), W(2, "nickname", 0),
    W(3, "allianceid", 3), W(4, "alliancename", 1), W(5, "exp", 4), W(6, "level", 5),
    W(7, "isfriend", 6), W(8, "image", 7), All(9, "equipmentlist")>>)
QueryLordInfoResponse_size == Size({}, {}, {}, {}, {<<0..7,
    {"nickname", "alliancename", "playerid", "allianceid", "exp", "level", "isfriend",
    "image"}>>}, {"equipmentlist"})
QueryLordInfoResponse_merge == Merge({"equipmentlist"},
    <<Ored(0..7, [nickname |-> 0, alliancename |-> 1, playerid |-> 2, allianceid |-> 3,
    exp |-> 4, level |-> 5, isfriend |-> 6, image |-> 7])>>, {}, {"equipmentlist"},
    {"equipmentlist", "nickname", "alliancename", "playerid", "allianceid", "exp", "level",
    "isfriend", "image"})

SetIconRequest == <<Req("iconid", "string"), Req("oper", "int32")>>
SetIconRequest_bits == [iconid |-> 0, oper |-> 1]
SetIconRequest_reset == Reset(<<Put(Always, [iconid |-> 0, oper |-> 0])>>,
    Copy({"oper"}, {"iconid"}, <<>>), <<Each({0}, [iconid |-> 0]),
    Put(Always, [oper |-> 0])>>)
SetIconRequest_parse == 10 :> "iconid" @@ 16 :> "oper"
SetIconRequest_write == Both(<<W(1, "iconid", 0), W(2, "oper", 1)>>)
SetIconRequest_size == Size({0, 1}, {"iconid", "oper"}, {"iconid", "oper"}, {}, {}, {})
SetIconRequest_merge == Merge({}, <<Ored({0, 1}, [iconid |-> 0, oper |-> 1])>>, {0, 1}, {},
    {"iconid", "oper"})

SetIconResponse == <<Opt("iconid", "string")>>
SetIconResponse_bits == [iconid |-> 0]
SetIconResponse_reset == Reset(<<Put(Always, [iconid |-> 0])>>, Copy({}, {"iconid"}, <<>>),
    <<Each({0}, [iconid |-> 0])>>)
SetIconResponse_parse == 18 :> "iconid"
SetIconResponse_write == Both(<<W(2, "iconid", 0)>>)
SetIconResponse_size == Size({}, {}, {}, {"iconid"}, {}, {})
SetIconResponse_merge == Merge({}, <<Own({0}, [iconid |-> 0])>>, {}, {}, {"iconid"})

ChangeNameRequest == <<Req("nickname", "string"), Req("useitem", "bool")>>
ChangeNameRequest_bits == [nickname |-> 0, useitem |-> 1]
ChangeNameRequest_reset == Reset(<<Put(Always, [nickname |-> 0, useitem |-> 0])>>,
    Copy({"useitem"}, {"nickname"}, <<>>), <<Each({0}, [nickname |-> 0]),
    Put(Always, [useitem |-> 0])>>)
ChangeNameRequest_parse == 10 :> "nickname" @@ 16 :> "useitem"
ChangeNameRequest_write == Both(<<W(1, "nickname", 0), W(2, "useitem", 1)>>)
ChangeNameRequest_size == Size({0, 1}, {"nickname", "useitem"}, {"nickname", "useitem"}, {},
    {}, {})
ChangeNameRequest_merge == Merge({}, <<Ored({0, 1}, [nickname |-> 0, useitem |-> 1])>>,
    {0, 1}, {}, {"nickname", "useitem"})

ChangeNameResponse == <<Opt("reward", "PropertyDTO"), Req("isavailable", "bool")>>
ChangeNameResponse_bits == [reward |-> 0, isavailable |-> 1]
ChangeNameResponse_reset == Reset(<<Zero(Always, "reward", "isavailable")>>,
    Copy({"isavailable"}, {"reward"}, <<>>), <<Each({0}, [reward |-> 0]),
    Put(Always, [isavailable |-> 0])>>)
ChangeNameResponse_parse == 8 :> "isavailable" @@ 18 :> "reward"
ChangeNameResponse_write == Both(<<W(1, "isavailable", 1), W(2, "reward", 0)>>)
ChangeNameResponse_size == Size({}, {}, {}, {"isavailable", "reward"}, {}, {})
ChangeNameResponse_merge == Merge({}, <<Ored({0, 1}, [reward |-> 0, isavailable |-> 1])>>,
    {1}, {"reward"}, {"reward", "isavailable"})

SetGuideRequest == <<Req("id", "int32")>>
SetGuideRequest_bits == [id |-> 0]
SetGuideRequest_reset == Reset(<<Put(Always, [id |-> 0])>>, Copy({"id"}, {}, <<>>),
    <<Put(Always, [id |-> 0])>>)
SetGuideRequest_parse == 8 :> "id"
SetGuideRequest_write == Both(<<W(1, "id", 0)>>)
SetGuideRequest_size == Size({}, {}, {}, {"id"}, {}, {})
SetGuideRequest_merge == Merge({}, <<Own({0}, [id |-> 0])>>, {0}, {}, {"id"})

\* The classes of this module.
PlayerProtos == [
  PlayerDTO |-> Row(PlayerDTO, PlayerDTO_bits, PlayerDTO_reset, PlayerDTO_parse,
    PlayerDTO_write, PlayerDTO_size, PlayerDTO_merge),
  GuideDTO |-> Row(GuideDTO, GuideDTO_bits, GuideDTO_reset, GuideDTO_parse, GuideDTO_write,
    GuideDTO_size, GuideDTO_merge),
  UserAccountLoginRequest |-> Row(UserAccountLoginRequest, UserAccountLoginRequest_bits,
    UserAccountLoginRequest_reset, UserAccountLoginRequest_parse,
    UserAccountLoginRequest_write, UserAccountLoginRequest_size,
    UserAccountLoginRequest_merge),
  UserAccountLoginResponse |-> Row(UserAccountLoginResponse, UserAccountLoginResponse_bits,
    UserAccountLoginResponse_reset, UserAccountLoginResponse_parse,
    UserAccountLoginResponse_write, UserAccountLoginResponse_size,
    UserAccountLoginResponse_merge),
  PlayerLoginRequest |-> Row(PlayerLoginRequest, PlayerLoginRequest_bits,
    PlayerLoginRequest_reset, PlayerLoginRequest_parse, PlayerLoginRequest_write,
    PlayerLoginRequest_size, PlayerLoginRequest_merge),
  PlayerLoginResponse |-> Row(PlayerLoginResponse, PlayerLoginResponse_bits,
    PlayerLoginResponse_reset, PlayerLoginResponse_parse, PlayerLoginResponse_write,
    PlayerLoginResponse_size, PlayerLoginResponse_merge),
  PlayerReconnectRequest |-> Row(PlayerReconnectRequest, PlayerReconnectRequest_bits,
    PlayerReconnectRequest_reset, PlayerReconnectRequest_parse,
    PlayerReconnectRequest_write, PlayerReconnectRequest_size,
    PlayerReconnectRequest_merge),
  PlayerReconnectResponse |-> Row(PlayerReconnectResponse, PlayerReconnectResponse_bits,
    PlayerReconnectResponse_reset, PlayerReconnectResponse_parse,
    PlayerReconnectResponse_write, PlayerReconnectResponse_size,
    PlayerReconnectResponse_merge),
  PlayerReloadRequest |-> Row(PlayerReloadRequest, PlayerReloadRequest_bits,
    PlayerReloadRequest_reset, PlayerReloadRequest_parse, PlayerReloadRequest_write,
    PlayerReloadRequest_size, PlayerReloadRequest_merge),
  PlayerReloadResponse |-> Row(PlayerReloadResponse, PlayerReloadResponse_bits,
    PlayerReloadResponse_reset, PlayerReloadResponse_parse, PlayerReloadResponse_write,
    PlayerReloadResponse_size, PlayerReloadResponse_merge),
  PlayerHeartBeatRequest |-> Row(PlayerHeartBeatRequest, PlayerHeartBeatRequest_bits,
    PlayerHeartBeatRequest_reset, PlayerHeartBeatRequest_parse,
    PlayerHeartBeatRequest_write, PlayerHeartBeatRequest_size,
    PlayerHeartBeatRequest_merge),
  PlayerHeartBeatResponse |-> Row(PlayerHeartBeatResponse, PlayerHeartBeatResponse_bits,
    PlayerHeartBeatResponse_reset, PlayerHeartBeatResponse_parse,
    PlayerHeartBeatResponse_write, PlayerHeartBeatResponse_size,
    PlayerHeartBeatResponse_merge),
  SetTalentRequest |-> Row(SetTalentRequest, SetTalentRequest_bits, SetTalentRequest_reset,
    SetTalentRequest_parse, SetTalentRequest_write, SetTalentRequest_size,
    SetTalentRequest_merge),
  SetTalentResponse |-> Row(SetTalentResponse, SetTalentResponse_bits,
    SetTalentResponse_reset, SetTalentResponse_parse, SetTalentResponse_write,
    SetTalentResponse_size, SetTalentResponse_merge),
  SetImageRequest |-> Row(SetImageRequest, SetImageRequest_bits, SetImageRequest_reset,
    SetImageRequest_parse, SetImageRequest_write, SetImageRequest_size,
    SetImageRequest_merge),
  SetImageResponse |-> Row(SetImageResponse, SetImageResponse_bits, SetImageResponse_reset,
    SetImageResponse_parse, SetImageResponse_write, SetImageResponse_size,
    SetImageResponse_merge),
  QueryLordInfoRequest |-> Row(QueryLordInfoRequest, QueryLordInfoRequest_bits,
    QueryLordInfoRequest_reset, QueryLordInfoRequest_parse, QueryLordInfoRequest_write,
    QueryLordInfoRequest_size, QueryLordInfoRequest_merge),
  QueryLordInfoResponse |-> Row(QueryLordInfoResponse, QueryLordInfoResponse_bits,
    QueryLordInfoResponse_reset, QueryLordInfoResponse_parse, QueryLordInfoResponse_write,
    QueryLordInfoResponse_size, QueryLordInfoResponse_merge),
  SetIconRequest |-> Row(SetIconRequest, SetIconRequest_bits, SetIconRequest_reset,
    SetIconRequest_parse, SetIconRequest_write, SetIconRequest_size, SetIconRequest_merge),
  SetIconResponse |-> Row(SetIconResponse, SetIconResponse_bits, SetIconResponse_reset,
    SetIconResponse_parse, SetIconResponse_write, SetIconResponse_size,
    SetIconResponse_merge),
  ChangeNameRequest |-> Row(ChangeNameRequest, ChangeNameRequest_bits,
    ChangeNameRequest_reset, ChangeNameRequest_parse, ChangeNameRequest_write,
    ChangeNameRequest_size, ChangeNameRequest_merge),
  ChangeNameResponse |-> Row(ChangeNameResponse, ChangeNameResponse_bits,
    ChangeNameResponse_reset, ChangeNameResponse_parse, ChangeNameResponse_write,
    ChangeNameResponse_size, ChangeNameResponse_merge),
  SetGuideRequest |-> Row(SetGuideRequest, SetGuideRequest_bits, SetGuideRequest_reset,
    SetGuideRequest_parse, SetGuideRequest_write, SetGuideRequest_size,
    SetGuideRequest_merge)]
===========================================================================
