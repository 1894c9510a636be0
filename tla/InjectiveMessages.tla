-------------------------- MODULE InjectiveMessages --------------------------
(***************************************************************************)
(* The messages of the Injective chain's OCR module, as the generated code *)
(* of adapters/injective/types reads and writes them: for each the kinds   *)
(* of its fields in the order of their numbers, under a comment with their *)
(* names. ProtoKinds says what a kind is.                                  *)
(***************************************************************************)
EXTENDS ProtoNested

(* External: types of the Cosmos SDK and of protobuf. *)

\* Denom, Amount
Coin == <<Bytes, Custom>>

\* Seconds, Nanos
Timestamp == <<Number, Number>>
-----------------------------------------------------------------------------
(* ocr.pb.go *)

\* LinkDenom, PayoutBlockInterval, ModuleAdmin
Params == <<Bytes, Number, Bytes>>

\* FeedId, MinAnswer, MaxAnswer, LinkPerObservation, LinkPerTransmission,
\* LinkDenom, UniqueReports, Description, FeedAdmin, BillingAdmin
ModuleParams ==
  <<Bytes, Custom, Custom, Custom, Custom, Bytes, Bool, Bytes, Bytes, Bytes>>

\* Signers, Transmitters, F, OnchainConfig, OffchainConfigVersion,
\* OffchainConfig, ModuleParams
FeedConfig ==
  <<Each(Bytes), Each(Bytes), Number, Bytes, Number, Bytes,
    Optional(ModuleParams)>>

\* LatestConfigDigest, F, N, ConfigCount, LatestConfigBlockNumber
FeedConfigInfo == <<Bytes, Number, Number, Number, Number>>

\* ConfigCount, Signers, Transmitters, F, OnchainConfig,
\* OffchainConfigVersion, OffchainConfig
ContractConfig ==
  <<Number, Each(Bytes), Each(Bytes), Number, Bytes, Number, Bytes>>

\* Title, Description, Config
SetConfigProposal == <<Bytes, Bytes, Optional(FeedConfig)>>

\* FeedId, F, OnchainConfig, OffchainConfigVersion, OffchainConfig,
\* MinAnswer, MaxAnswer, LinkPerObservation, LinkPerTransmission,
\* UniqueReports, Description
FeedProperties ==
  <<Bytes, Number, Bytes, Number, Bytes, Custom, Custom, Custom, Custom, Bool,
    Bytes>>

\* Title, Description, Signers, Transmitters, LinkDenom, FeedProperties
SetBatchConfigProposal ==
  <<Bytes, Bytes, Each(Bytes), Each(Bytes), Bytes,
    Each(Embedded(FeedProperties))>>

\* Counts
OracleObservationsCounts == <<Packed>>

\* Reimbursements
GasReimbursements == <<Each(Embedded(Coin))>>

\* TransmitterAddr, PaymentAddr
Payee == <<Bytes, Bytes>>

\* Answer, ObservationsTimestamp, TransmissionTimestamp
Transmission == <<Custom, Number, Number>>

\* Epoch, Round
EpochAndRound == <<Number, Number>>

\* ObservationsTimestamp, Observers, Observations
Report == <<Number, Bytes, Each(Custom)>>

\* ConfigDigest, Epoch, Round, ExtraHash, Report
ReportToSign == <<Bytes, Number, Number, Bytes, Bytes>>

\* TransmitterAddr, PayeeAddr, Amount
EventOraclePaid == <<Bytes, Bytes, Embedded(Coin)>>

\* Current, RoundId, UpdatedAt
EventAnswerUpdated == <<Custom, Custom, Embedded(Timestamp)>>

\* RoundId, StartedBy, StartedAt
EventNewRound == <<Custom, Bytes, Embedded(Timestamp)>>

\* ConfigDigest, Epoch
EventTransmitted == <<Bytes, Number>>

\* FeedId, AggregatorRoundId, Answer, Transmitter, ObservationsTimestamp,
\* Observations, Observers, ConfigDigest, EpochAndRound
EventNewTransmission ==
  <<Bytes, Number, Custom, Bytes, Number, Each(Custom), Bytes, Bytes,
    Optional(EpochAndRound)>>

\* ConfigDigest, PreviousConfigBlockNumber, Config, ConfigInfo
EventConfigSet ==
  <<Bytes, Number, Optional(FeedConfig), Optional(FeedConfigInfo)>>

-----------------------------------------------------------------------------
(* tx.pb.go *)

\* Sender, Config
MsgCreateFeed == <<Bytes, Optional(FeedConfig)>>

MsgCreateFeedResponse == <<>>

\* Sender, FeedId, Signers, Transmitters, LinkPerObservation,
\* LinkPerTransmission, LinkDenom, FeedAdmin, BillingAdmin
MsgUpdateFeed ==
  <<Bytes, Bytes, Each(Bytes), Each(Bytes), OptionalCustom, OptionalCustom,
    Bytes, Bytes, Bytes>>

MsgUpdateFeedResponse == <<>>

\* Transmitter, ConfigDigest, FeedId, Epoch, Round, ExtraHash, Report,
\* Signatures
MsgTransmit ==
  <<Bytes, Bytes, Bytes, Number, Number, Bytes, Optional(Report),
    Each(Bytes)>>

MsgTransmitResponse == <<>>

\* Sender, FeedId, Amount
MsgFundFeedRewardPool == <<Bytes, Bytes, Embedded(Coin)>>

MsgFundFeedRewardPoolResponse == <<>>

\* Sender, FeedId, Amount
MsgWithdrawFeedRewardPool == <<Bytes, Bytes, Embedded(Coin)>>

MsgWithdrawFeedRewardPoolResponse == <<>>

\* Sender, FeedId, Transmitters, Payees
MsgSetPayees == <<Bytes, Bytes, Each(Bytes), Each(Bytes)>>

MsgSetPayeesResponse == <<>>

\* Sender, Transmitter, FeedId, Proposed
MsgTransferPayeeship == <<Bytes, Bytes, Bytes, Bytes>>

MsgTransferPayeeshipResponse == <<>>

\* Payee, Transmitter, FeedId
MsgAcceptPayeeship == <<Bytes, Bytes, Bytes>>

MsgAcceptPayeeshipResponse == <<>>

-----------------------------------------------------------------------------
(* genesis.pb.go *)

\* FeedId, EpochAndRound
FeedEpochAndRound == <<Bytes, Optional(EpochAndRound)>>

\* FeedId, Transmission
FeedTransmission == <<Bytes, Optional(Transmission)>>

\* FeedId, AggregatorRoundId
FeedLatestAggregatorRoundIDs == <<Bytes, Number>>

\* FeedId, Amount
RewardPool == <<Bytes, Embedded(Coin)>>

\* Address, Count
Count == <<Bytes, Number>>

\* FeedId, Counts
FeedCounts == <<Bytes, Each(Embedded(Count))>>

\* FeedId, Transmitter, ProposedPayee
PendingPayeeship == <<Bytes, Bytes, Bytes>>

\* Params, FeedConfigs, LatestEpochAndRounds, FeedTransmissions,
\* LatestAggregatorRoundIds, RewardPools, FeedObservationCounts,
\* FeedTransmissionCounts, PendingPayeeships
GenesisState ==
  <<Embedded(Params), Each(Embedded(FeedConfig)),
    Each(Embedded(FeedEpochAndRound)), Each(Embedded(FeedTransmission)),
    Each(Embedded(FeedLatestAggregatorRoundIDs)), Each(Embedded(RewardPool)),
    Each(Embedded(FeedCounts)), Each(Embedded(FeedCounts)),
    Each(Embedded(PendingPayeeship))>>

-----------------------------------------------------------------------------
(* query.pb.go *)

QueryParamsRequest == <<>>

\* Params
QueryParamsResponse == <<Embedded(Params)>>

\* FeedId
QueryFeedConfigRequest == <<Bytes>>

\* FeedConfigInfo, FeedConfig
QueryFeedConfigResponse == <<Optional(FeedConfigInfo), Optional(FeedConfig)>>

\* FeedId
QueryFeedConfigInfoRequest == <<Bytes>>

\* FeedConfigInfo, EpochAndRound
QueryFeedConfigInfoResponse ==
  <<Optional(FeedConfigInfo), Optional(EpochAndRound)>>

\* FeedId
QueryLatestRoundRequest == <<Bytes>>

\* LatestRoundId, Data
QueryLatestRoundResponse == <<Number, Optional(Transmission)>>

\* FeedId
QueryLatestTransmissionDetailsRequest == <<Bytes>>

\* ConfigDigest, EpochAndRound, Data
QueryLatestTransmissionDetailsResponse ==
  <<Bytes, Optional(EpochAndRound), Optional(Transmission)>>

\* Transmitter
QueryOwedAmountRequest == <<Bytes>>

\* Amount
QueryOwedAmountResponse == <<Embedded(Coin)>>

QueryModuleStateRequest == <<>>

\* State
QueryModuleStateResponse == <<Optional(GenesisState)>>

-----------------------------------------------------------------------------
\* Types with the same fields are one here.
MessageTypes ==
  {Params, FeedConfig, FeedConfigInfo, ModuleParams, ContractConfig,
    SetConfigProposal, FeedProperties, SetBatchConfigProposal,
    OracleObservationsCounts, GasReimbursements, Payee, Transmission,
    EpochAndRound, Report, ReportToSign, EventOraclePaid, EventAnswerUpdated,
    EventNewRound, EventTransmitted, EventNewTransmission, EventConfigSet,
    MsgCreateFeed, MsgCreateFeedResponse, MsgUpdateFeed,
    MsgUpdateFeedResponse, MsgTransmit, MsgTransmitResponse,
    MsgFundFeedRewardPool, MsgFundFeedRewardPoolResponse,
    MsgWithdrawFeedRewardPool, MsgWithdrawFeedRewardPoolResponse,
    MsgSetPayees, MsgSetPayeesResponse, MsgTransferPayeeship,
    MsgTransferPayeeshipResponse, MsgAcceptPayeeship,
    MsgAcceptPayeeshipResponse, QueryParamsRequest, QueryParamsResponse,
    QueryFeedConfigRequest, QueryFeedConfigResponse,
    QueryFeedConfigInfoRequest, QueryFeedConfigInfoResponse,
    QueryLatestRoundRequest, QueryLatestRoundResponse,
    QueryLatestTransmissionDetailsRequest,
    QueryLatestTransmissionDetailsResponse, QueryOwedAmountRequest,
    QueryOwedAmountResponse, QueryModuleStateRequest,
    QueryModuleStateResponse, GenesisState, FeedTransmission,
    FeedEpochAndRound, FeedLatestAggregatorRoundIDs, RewardPool, FeedCounts,
    Count, PendingPayeeship}
=============================================================================
