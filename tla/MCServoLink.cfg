SPECIFICATION FairSpec
CONSTANTS
  Freqs <- MCFreqs
  RepairHz <- MCRepairHz
  Paras <- MCParas
  Types <- MCTypes
  Crc <- MCCrc
  MaxIrq = 1
  MaxCmd = 1
INVARIANTS TypeOK NoPhantom ObeyedUnlessSpoilt
PROPERTY SecHeals
