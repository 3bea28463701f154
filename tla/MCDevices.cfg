SPECIFICATION DevicesSpec
CONSTANTS
  RamWords = 14
  Used = {"Otc", "Gpu"}
  IrqPorts = {"Gpu"}
  Controls <- TableControls
  Bases = {2}
  Sizes = {3}
  Table <- MCTable
  Packets <- MCPackets
  MaxSent = 3
  Polite = TRUE
  DeviceNames = {"table", "cdrom", "mdec", "spu"}
  BlockSizes = {1, 3}
  SectorSizes = {4, 5}
  BufferSize = 6
  MatrixWords = 2
  Stream <- MCStream
  SpuSize = 8
  Voices = {1}
  SpuStores <- MCSpuStores
INVARIANTS
  NothingLeftActive
  SectorInOrder
  UploadInPlace
  SamplesInPlace
PROPERTIES
  LatchesRisingEdges
  DrawsLinkedOnce
  TransferEnds
CHECK_DEADLOCK FALSE
