\* Two addresses, which are used again, and a buffer object more; a format
\* with planes, one without, one of no pixel size, and one GBM does not have.
CONSTANTS
  Handles = {h1, h2}
  Bos = {b1, b2, b3}
  Usages = {{}, {"SW_READ"}, {"HW_TEXTURE"}, {"HW_RENDER"}, {"SW_WRITE", "HW_RENDER"}}
  Formats = {"YV12", "RGBA_8888", "BLOB", "YCrCb_420_SP"}
  MaxLocks = 2
  MaxBlob = 700
  Null = Null
  Absent = Absent
SPECIFICATION Spec
INVARIANTS
  MapExact
  MappedWhileGranted
  LocksAccounted
  BlobSizeClose
SYMMETRY
  Symmetry
