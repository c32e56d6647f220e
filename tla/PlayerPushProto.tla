---------------------------- MODULE PlayerPushProto --------------------------
(*
  The messages of player.proto the game server sends its clients unasked, as the
  classes of player.pb.h and player.pb.cc implement them.

  Per message, each from the lines of its own method and no other:
    X        the members of the class, in the order the class lays them out
    X_bits   the bit of _has_bits_ the accessors of each member use
    X_reset  SharedCtor, the copy constructor, Clear
    X_parse  MergePartialFromCodedStream: the member each tag is read into
    X_write  SerializeWithCachedSizes and the variant that writes to an array
    X_size   ByteSizeLong and RequiredFieldsByteSizeFallback
    X_merge  MergeFrom, IsInitialized, InternalSwap
  Protobuf.tla says what such a table means.
*)
EXTENDS ProtobufTables

PlayerDataPush == <<Req("player", "PlayerDTO")>>
PlayerDataPush_bits == [player |-> 0]
PlayerDataPush_reset == Reset(<<Put(Always, [player |-> 0])>>, Copy({}, {"player"}, <<>>),
    <<Each({0}, [player |-> 0])>>)
PlayerDataPush_parse == 10 :> "player"
PlayerDataPush_write == Both(<<W(1, "player", 0)>>)
PlayerDataPush_size == Size({}, {}, {}, {"player"}, {}, {})
PlayerDataPush_merge == Merge({}, <<Own({0}, [player |-> 0])>>, {0}, {"player"}, {"player"})

PlayerPropertyChangePush == <<Rep("properties", "PropertyDTO")>>
PlayerPropertyChangePush_bits == <<>>
PlayerPropertyChangePush_reset == Reset(<<>>, Copy({"properties"}, {}, <<>>),
    <<Put(Always, [properties |-> <<>>])>>)
PlayerPropertyChangePush_parse == 10 :> "properties"
PlayerPropertyChangePush_write == Both(<<All(1, "properties")>>)
PlayerPropertyChangePush_size == Size({}, {}, {}, {}, {}, {"properties"})
PlayerPropertyChangePush_merge == Merge({"properties"}, <<>>, {}, {"properties"},
    {"properties"})

PlayerLevelUpPush == <<Req("level", "int32")>>
PlayerLevelUpPush_bits == [level |-> 0]
PlayerLevelUpPush_reset == Reset(<<Put(Always, [level |-> 0])>>, Copy({"level"}, {}, <<>>),
    <<Put(Always, [level |-> 0])>>)
PlayerLevelUpPush_parse == 8 :> "level"
PlayerLevelUpPush_write == Both(<<W(1, "level", 0)>>)
PlayerLevelUpPush_size == Size({}, {}, {}, {"level"}, {}, {})
PlayerLevelUpPush_merge == Merge({}, <<Own({0}, [level |-> 0])>>, {0}, {}, {"level"})

PlayerProtectPush == <<Req("bornprotectendtime", "int32"),
    Req("atkprotectendtime", "int32"), Req("spyprotectendtime", "int32")>>
PlayerProtectPush_bits == [bornprotectendtime |-> 0, atkprotectendtime |-> 1,
    spyprotectendtime |-> 2]
PlayerProtectPush_reset == Reset(
    <<Zero(Always, "bornprotectendtime", "spyprotectendtime")>>,
    Copy({}, {}, <<"bornprotectendtime", "spyprotectendtime">>),
    <<Zero(0..2, "bornprotectendtime", "spyprotectendtime")>>)
PlayerProtectPush_parse == 8 :> "bornprotectendtime" @@ 16 :> "atkprotectendtime"
    @@ 24 :> "spyprotectendtime"
PlayerProtectPush_write == Both(<<W(1, "bornprotectendtime", 0),
    W(2, "atkprotectendtime", 1), W(3, "spyprotectendtime", 2)>>)
PlayerProtectPush_size == Size(0..2, {"bornprotectendtime", "atkprotectendtime",
    "spyprotectendtime"}, {"bornprotectendtime", "atkprotectendtime", "spyprotectendtime"},
    {}, {}, {})
PlayerProtectPush_merge == Merge({}, <<Ored(0..2, [bornprotectendtime |-> 0,
    atkprotectendtime |-> 1, spyprotectendtime |-> 2])>>, 0..2, {},
    {"bornprotectendtime", "atkprotectendtime", "spyprotectendtime"})

PlayerCount == <<Req("type", "int32"), Req("point", "int32"), Req("defcount", "int32"),
    Opt("addcount", "int32")>>
PlayerCount_bits == [type |-> 0, point |-> 1, defcount |-> 2, addcount |-> 3]
PlayerCount_reset == Reset(<<Zero(Always, "type", "addcount")>>,
    Copy({}, {}, <<"type", "addcount">>), <<Zero(0..3, "type", "addcount")>>)
PlayerCount_parse == 8 :> "type" @@ 16 :> "point" @@ 24 :> "defcount" @@ 32 :> "addcount"
PlayerCount_write == Both(<<W(1, "type", 0), W(2, "point", 1), W(3, "defcount", 2),
    W(4, "addcount", 3)>>)
PlayerCount_size == Size(0..2, {"type", "point", "defcount"}, {"type", "point", "defcount"},
    {"addcount"}, {}, {})
PlayerCount_merge == Merge({}, <<Ored(0..3, [type |-> 0, point |-> 1, defcount |-> 2,
    addcount |-> 3])>>, 0..2, {}, {"type", "point", "defcount", "addcount"})

PlayerCountPush == <<Rep("counts", "PlayerCount")>>
PlayerCountPush_bits == <<>>
PlayerCountPush_reset == Reset(<<>>, Copy({"counts"}, {}, <<>>),
    <<Put(Always, [counts |-> <<>>])>>)
PlayerCountPush_parse == 10 :> "counts"
PlayerCountPush_write == Both(<<All(1, "counts")>>)
PlayerCountPush_size == Size({}, {}, {}, {}, {}, {"counts"})
PlayerCountPush_merge == Merge({"counts"}, <<>>, {}, {"counts"}, {"counts"})

PlayeBattlePush == <<Req("battlevalue", "int32")>>
PlayeBattlePush_bits == [battlevalue |-> 0]
PlayeBattlePush_reset == Reset(<<Put(Always, [battlevalue |-> 0])>>,
    Copy({"battlevalue"}, {}, <<>>), <<Put(Always, [battlevalue |-> 0])>>)
PlayeBattlePush_parse == 8 :> "battlevalue"
PlayeBattlePush_write == Both(<<W(1, "battlevalue", 0)>>)
PlayeBattlePush_size == Size({}, {}, {}, {"battlevalue"}, {}, {})
PlayeBattlePush_merge == Merge({}, <<Own({0}, [battlevalue |-> 0])>>, {0}, {},
    {"battlevalue"})

TalentPush == <<Rep("talentids", "int32")>>
TalentPush_bits == <<>>
TalentPush_reset == Reset(<<>>, Copy({"talentids"}, {}, <<>>),
    <<Put(Always, [talentids |-> <<>>])>>)
TalentPush_parse == 8 :> "talentids" @@ 10 :> "talentids"
TalentPush_write == Both(<<All(1, "talentids")>>)
TalentPush_size == Size({}, {}, {}, {}, {}, {"talentids"})
TalentPush_merge == Merge({"talentids"}, <<>>, {}, {}, {"talentids"})

VipInfoPush == <<Req("lv", "int32"), Req("exp", "int32"), Req("sign", "int32")>>
VipInfoPush_bits == [lv |-> 0, exp |-> 1, sign |-> 2]
VipInfoPush_reset == Reset(<<Zero(Always, "lv", "sign")>>, Copy({}, {}, <<"lv", "sign">>),
    <<Zero(0..2, "lv", "sign")>>)
VipInfoPush_parse == 8 :> "lv" @@ 16 :> "exp" @@ 24 :> "sign"
VipInfoPush_write == Both(<<W(1, "lv", 0), W(2, "exp", 1), W(3, "sign", 2)>>)
VipInfoPush_size == Size(0..2, {"lv", "exp", "sign"}, {"lv", "exp", "sign"}, {}, {}, {})
VipInfoPush_merge == Merge({}, <<Ored(0..2, [lv |-> 0, exp |-> 1, sign |-> 2])>>, 0..2, {},
    {"lv", "exp", "sign"})

VipActiveInfoPush == <<Req("activeend", "int32")>>
VipActiveInfoPush_bits == [activeend |-> 0]
VipActiveInfoPush_reset == Reset(<<Put(Always, [activeend |-> 0])>>,
    Copy({"activeend"}, {}, <<>>), <<Put(Always, [activeend |-> 0])>>)
VipActiveInfoPush_parse == 8 :> "activeend"
VipActiveInfoPush_write == Both(<<W(1, "activeend", 0)>>)
VipActiveInfoPush_size == Size({}, {}, {}, {"activeend"}, {}, {})
VipActiveInfoPush_merge == Merge({}, <<Own({0}, [activeend |-> 0])>>, {0}, {},
    {"activeend"})

SysTimePush == <<Req("currtime", "int64")>>
SysTimePush_bits == [currtime |-> 0]
SysTimePush_reset == Reset(<<Put(Always, [currtime |-> 0])>>, Copy({"currtime"}, {}, <<>>),
    <<Put(Always, [currtime |-> 0])>>)
SysTimePush_parse == 8 :> "currtime"
SysTimePush_write == Both(<<W(1, "currtime", 0)>>)
SysTimePush_size == Size({}, {}, {}, {"currtime"}, {}, {})
SysTimePush_merge == Merge({}, <<Own({0}, [currtime |-> 0])>>, {0}, {}, {"currtime"})

GuidePush == <<Req("guide", "GuideDTO")>>
GuidePush_bits == [guide |-> 0]
GuidePush_reset == Reset(<<Put(Always, [guide |-> 0])>>, Copy({}, {"guide"}, <<>>),
    <<Each({0}, [guide |-> 0])>>)
GuidePush_parse == 10 :> "guide"
GuidePush_write == Both(<<W(1, "guide", 0)>>)
GuidePush_size == Size({}, {}, {}, {"guide"}, {}, {})
GuidePush_merge == Merge({}, <<Own({0}, [guide |-> 0])>>, {0}, {"guide"}, {"guide"})

\* The classes of this module.
PlayerPushProtos == [
  PlayerDataPush |-> Row(PlayerDataPush, PlayerDataPush_bits, PlayerDataPush_reset,
    PlayerDataPush_parse, PlayerDataPush_write, PlayerDataPush_size, PlayerDataPush_merge),
  PlayerPropertyChangePush |-> Row(PlayerPropertyChangePush, PlayerPropertyChangePush_bits,
    PlayerPropertyChangePush_reset, PlayerPropertyChangePush_parse,
    PlayerPropertyChangePush_write, PlayerPropertyChangePush_size,
    PlayerPropertyChangePush_merge),
  PlayerLevelUpPush |-> Row(PlayerLevelUpPush, PlayerLevelUpPush_bits,
    PlayerLevelUpPush_reset, PlayerLevelUpPush_parse, PlayerLevelUpPush_write,
    PlayerLevelUpPush_size, PlayerLevelUpPush_merge),
  PlayerProtectPush |-> Row(PlayerProtectPush, PlayerProtectPush_bits,
    PlayerProtectPush_reset, PlayerProtectPush_parse, PlayerProtectPush_write,
    PlayerProtectPush_size, PlayerProtectPush_merge),
  PlayerCount |-> Row(PlayerCount, PlayerCount_bits, PlayerCount_reset, PlayerCount_parse,
    PlayerCount_write, PlayerCount_size, PlayerCount_merge),
  PlayerCountPush |-> Row(PlayerCountPush, PlayerCountPush_bits, PlayerCountPush_reset,
    PlayerCountPush_parse, PlayerCountPush_write, PlayerCountPush_size,
    PlayerCountPush_merge),
  PlayeBattlePush |-> Row(PlayeBattlePush, PlayeBattlePush_bits, PlayeBattlePush_reset,
    PlayeBattlePush_parse, PlayeBattlePush_write, PlayeBattlePush_size,
    PlayeBattlePush_merge),
  TalentPush |-> Row(TalentPush, TalentPush_bits, TalentPush_reset, TalentPush_parse,
    TalentPush_write, TalentPush_size, TalentPush_merge),
  VipInfoPush |-> Row(VipInfoPush, VipInfoPush_bits, VipInfoPush_reset, VipInfoPush_parse,
    VipInfoPush_write, VipInfoPush_size, VipInfoPush_merge),
  VipActiveInfoPush |-> Row(VipActiveInfoPush, VipActiveInfoPush_bits,
    VipActiveInfoPush_reset, VipActiveInfoPush_parse, VipActiveInfoPush_write,
    VipActiveInfoPush_size, VipActiveInfoPush_merge),
  SysTimePush |-> Row(SysTimePush, SysTimePush_bits, SysTimePush_reset, SysTimePush_parse,
    SysTimePush_write, SysTimePush_size, SysTimePush_merge),
  GuidePush |-> Row(GuidePush, GuidePush_bits, GuidePush_reset, GuidePush_parse,
    GuidePush_write, GuidePush_size, GuidePush_merge)]
===========================================================================
